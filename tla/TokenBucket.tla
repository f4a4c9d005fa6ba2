---------------------------- MODULE TokenBucket ----------------------------
(***************************************************************************)
(* One bucket of the token-bucket rate limiter (core/rate_limiter.py). A    *)
(* worker reads its clock, then Redis runs the script; requests of several  *)
(* workers may reach Redis in another order than their clocks were read.    *)
(* Tokens are counted in the units that one tick refills.                   *)
(***************************************************************************)
EXTENDS Integers

CONSTANTS
    Requests,  \* requests with this identifier
    Cost,      \* units per request: ticks that refill one token
    Burst,     \* max_burst, in units
    IdleTTL,   \* after this many ticks without a write the key expires
    FailOpen,  \* RATE_LIMIT_FAILURE_MODE is fail_open
    MaxTime    \* bound: the clock stops there

ASSUME ConstantsAssumption ==
    /\ Cost \in Nat \ {0} /\ Burst \in Nat /\ Burst >= Cost
    /\ IdleTTL \in Nat /\ IdleTTL >= Burst
    /\ FailOpen \in BOOLEAN /\ MaxTime \in Nat

VARIABLES
    now,      \* wall clock, in ticks
    present,  \* the bucket's key exists
    tokens,   \* its tokens, in units
    refill,   \* last_refill
    written,  \* when the key was last written
    pc,       \* pc[r]: where request r is suspended
    stamp,    \* stamp[r]: the clock value r brings
    start,    \* history: a point in time, no earlier than the last reset
    spent,    \* history: units spent by requests stamped from then on
    latest,   \* history: the latest stamp or deletion the bucket has seen
    skewed    \* history: a script ran with a stamp older than that

bucket == <<present, tokens, refill, written>>
count == <<spent, latest, skewed>>
vars == <<now, bucket, pc, stamp, start, count>>

Init ==
    /\ now = 0
    /\ present = FALSE /\ tokens = Burst /\ refill = 0 /\ written = 0
    /\ pc = [r \in Requests |-> "idle"]
    /\ stamp = [r \in Requests |-> 0]
    /\ start \in 0..MaxTime
    /\ spent = 0 /\ latest = 0 /\ skewed = FALSE

Moves(r, to) == pc' = [pc EXCEPT ![r] = to]

(* A refused request asks again, for its error message, and spends a token   *)
(* if there is one by then.                                                 *)
Stamp(r) ==
    /\ pc[r] \in {"idle", "refused"}
    /\ stamp' = [stamp EXCEPT ![r] = now]
    /\ Moves(r, IF pc[r] = "idle" THEN "asking" ELSE "reporting")
    /\ UNCHANGED <<now, bucket, start, count>>

Smaller(a, b) == IF a < b THEN a ELSE b
Elapsed(t) == IF t > refill THEN t - refill ELSE 0

AvailableAfterRefusal(t) ==
    IF present /\ tokens >= Cost THEN Smaller(Burst, tokens + Elapsed(t)) ELSE Burst

Available(t) == IF present THEN Smaller(Burst, tokens + Elapsed(t)) ELSE Burst

Answers(r, yes) ==
    Moves(r, CASE pc[r] = "reporting" -> "denied"
               [] yes -> "admitted"
               [] OTHER -> "refused")

Take(r) ==
    LET t == stamp[r] IN
    /\ pc[r] \in {"asking", "reporting"}
    /\ Available(t) >= Cost
    /\ present' = TRUE
    /\ tokens' = Available(t) - Cost
    /\ refill' = t
    /\ written' = now
    /\ spent' = IF t >= start THEN spent + Cost ELSE spent
    /\ latest' = IF t > latest THEN t ELSE latest
    /\ skewed' = (skewed \/ t < latest)
    /\ Answers(r, TRUE)
    /\ UNCHANGED <<now, stamp, start>>

Refuse(r) ==
    /\ pc[r] \in {"asking", "reporting"}
    /\ Available(stamp[r]) < Cost
    /\ Answers(r, FALSE)
    /\ UNCHANGED <<now, bucket, stamp, start, count>>

(* Redis cannot be asked: the failure mode decides.                         *)
RedisFails(r) ==
    /\ pc[r] \in {"asking", "reporting"}
    /\ Answers(r, FailOpen)
    /\ UNCHANGED <<now, bucket, stamp, start, count>>

(* The key expires: an idle bucket is a full one again.                     *)
Expire ==
    /\ present
    /\ now >= written + IdleTTL
    /\ present' = FALSE
    /\ latest' = now
    /\ UNCHANGED <<now, tokens, refill, written, pc, stamp, start, spent, skewed>>

(* An admin gives the identifier a fresh bucket: the count begins anew.     *)
Reset ==
    /\ present
    /\ present' = FALSE
    /\ latest' = now
    /\ start' = IF start < now THEN now ELSE start
    /\ spent' = 0
    /\ UNCHANGED <<now, tokens, refill, written, pc, stamp, skewed>>

Tick ==
    /\ now < MaxTime
    /\ now' = now + 1
    /\ UNCHANGED <<bucket, pc, stamp, start, count>>

Next ==
    \/ Tick \/ Expire \/ Reset
    \/ \E r \in Requests : Stamp(r) \/ Take(r) \/ Refuse(r) \/ RedisFails(r)

-----------------------------------------------------------------------------
(* Properties *)

TypeOK ==
    /\ now \in 0..MaxTime /\ start \in 0..MaxTime
    /\ present \in BOOLEAN /\ tokens \in 0..Burst
    /\ refill \in Nat /\ written \in Nat /\ latest \in Nat
    /\ pc \in [Requests -> {"idle", "asking", "refused", "reporting", "admitted", "denied"}]
    /\ stamp \in [Requests -> Nat]
    /\ spent \in Nat /\ skewed \in BOOLEAN

(* From any point in time on, the bucket gives away at most one burst and    *)
(* what has been refilled since, while stamps reach it in order.            *)
BurstBounded == ~skewed => spent <= Burst + (IF now > start THEN now - start ELSE 0)

(* The inductive strengthening: what the bucket holds and what it gave away  *)
(* come out of the same burst and refill.                                   *)
BucketInv ==
    /\ TypeOK
    /\ \A r \in Requests : stamp[r] <= now
    /\ latest <= now /\ written <= now
    /\ present => refill <= written
    /\ ~skewed =>
          /\ present => refill = latest
          /\ ~present => spent <= (IF latest > start THEN latest - start ELSE 0)
          /\ present => spent + tokens <= Burst + (IF refill > start THEN refill - start ELSE 0)
          /\ latest < start => spent = 0

=============================================================================
