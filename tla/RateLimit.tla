------------------------------ MODULE RateLimit ------------------------------
(***************************************************************************)
(* The fixed-window rate limits: session and global keys share one bucket  *)
(* algorithm and one sweeper; invoke has a bucket of its own per cap.      *)
(*                                                                         *)
(* check reads the clock and then takes the entry's lock, so readings can  *)
(* reach a bucket out of order, and the sweeper decides by a reading that  *)
(* is older than the buckets it visits.                                    *)
(***************************************************************************)
EXTENDS Integers, FiniteSets

CONSTANTS
    Policies,    \* [max, window, cap]: default_policy of the keys, and 60 a minute per cap
    Callers,
    IdleTTL,     \* IDLE_BUCKET_TTL
    MaxStall,    \* bound: ticks between reading the clock and using the reading
    MaxClock     \* bound

ASSUME LimitAssumption ==
    /\ Policies \subseteq [max: Nat \ {0}, window: Nat \ {0}, cap: BOOLEAN]
    /\ {IdleTTL, MaxStall, MaxClock} \subseteq Nat
    \* what the comment on IDLE_BUCKET_TTL asks for, with the stall it leaves out
    /\ \A p \in Policies : IdleTTL >= p.window + MaxStall

VARIABLES
    policy,    \* of the key looked at: entries are locked one by one, so one stands for all
    clock,     \* Instant::now()
    bucket,    \* its FixedWindowBucket, or NoBucket where the map has no entry
    caller,    \* caller -> the clock reading of the check it is in, or Out
    sweeper,   \* the clock reading of the sweep under way, or Out
    admitted,  \* history: the admissions, [at, nth of that tick], as far back as a property looks
    denied     \* history: how many of those there were at the last denial, or Out

limitVars == <<policy, clock, bucket, caller, sweeper, admitted, denied>>

Out == -1
NoBucket == [count |-> 0, start |-> Out]
fresh(now) == [count |-> 0, start |-> now]

LimitInit ==
    /\ policy \in Policies
    /\ clock = 0
    /\ bucket = NoBucket
    /\ caller = [c \in Callers |-> Out]
    /\ sweeper = Out
    /\ admitted = {}
    /\ denied = Out

SaturatingSince(now, start) == IF now > start THEN now - start ELSE 0

\* Mutant: a denied attempt starts the window again.
CheckSliding(b, now) ==
    LET cur == IF SaturatingSince(now, b.start) >= policy.window THEN fresh(now) ELSE b IN
    IF cur.count < policy.max THEN [ok |-> TRUE, then |-> [cur EXCEPT !.count = @ + 1]]
    ELSE [ok |-> FALSE, then |-> [cur EXCEPT !.start = now]]

check_and_consume(b, now) ==
    LET cur == IF SaturatingSince(now, b.start) >= policy.window THEN fresh(now) ELSE b IN
    IF cur.count < policy.max THEN [ok |-> TRUE, then |-> [cur EXCEPT !.count = @ + 1]]
    ELSE [ok |-> FALSE, then |-> cur]

\* Mutant: the TTL is read in the wrong unit, far below the longest window.
is_idle_soon(b, now) == 60 * SaturatingSince(now, b.start) >= IdleTTL

is_idle(b, now) == SaturatingSince(now, b.start) >= IdleTTL

AdmittedAt(now) == {a \in admitted : a.at = now}

\* The entry is looked up, made if it is missing, and charged under one lock.
Admit(now) ==
    LET r == check_and_consume(IF bucket = NoBucket THEN fresh(now) ELSE bucket, now) IN
    /\ bucket' = r.then
    /\ IF r.ok THEN /\ admitted' = admitted \cup {[at |-> clock, nth |-> Cardinality(AdmittedAt(clock))]}
                    /\ UNCHANGED denied
       ELSE denied' = Cardinality(admitted) /\ UNCHANGED admitted

ReadClock(c) ==
    /\ caller[c] = Out /\ ~policy.cap
    /\ caller' = [caller EXCEPT ![c] = clock]
    /\ UNCHANGED <<policy, clock, bucket, sweeper, admitted, denied>>

\* The rest of check: gate_session, gate_global and check_rate_limit all end here.
Check(c) ==
    /\ caller[c] # Out
    /\ Admit(caller[c])
    /\ caller' = [caller EXCEPT ![c] = Out]
    /\ UNCHANGED <<policy, clock, sweeper>>

\* check_and_increment in the invoke handler: the entry is locked throughout,
\* and no sweep visits this map.
CheckCap ==
    /\ policy.cap
    /\ Admit(clock)
    /\ UNCHANGED <<policy, clock, caller, sweeper>>

\* sweep_idle: one reading of the clock, then retain comes to the entry.
SweepStart ==
    /\ ~policy.cap /\ sweeper = Out
    /\ sweeper' = clock
    /\ UNCHANGED <<policy, clock, bucket, caller, admitted, denied>>

SweepEntry ==
    /\ sweeper # Out
    /\ bucket' = IF bucket # NoBucket /\ is_idle(bucket, sweeper) THEN NoBucket ELSE bucket
    /\ sweeper' = Out
    /\ UNCHANGED <<policy, clock, caller, admitted, denied>>

\* No reading in use is older than MaxStall.
Tick ==
    /\ clock < MaxClock
    /\ \A now \in {caller[c] : c \in Callers} \cup {sweeper} : now # Out => clock - now < MaxStall
    /\ clock' = clock + 1
    /\ admitted' = {a \in admitted : a.at > clock' - policy.window - MaxStall}
    /\ UNCHANGED <<policy, bucket, caller, sweeper, denied>>

LimitNext ==
    \/ \E c \in Callers : ReadClock(c) \/ Check(c)
    \/ CheckCap \/ SweepStart \/ SweepEntry \/ Tick

LimitSpec == LimitInit /\ [][LimitNext]_limitVars

\* However windows reset, readings arrive late and the bucket is swept, a key is
\* admitted at most twice its maximum in any stretch of a window less the stall.
AtMostTwice ==
    Cardinality({a \in admitted : a.at > clock - policy.window + MaxStall}) <= 2 * policy.max

\* Nobody is denied who has not used the quota: at a denial the key was admitted
\* its maximum within the last window and stall.  Denials cost nothing, and a
\* bucket never stays exhausted past its window.
DeniedOnlyOverQuota == denied # Out => denied >= policy.max

\* Both sides of a quota.
QuotaKept == AtMostTwice /\ DeniedOnlyOverQuota
=============================================================================
