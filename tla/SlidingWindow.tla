--------------------------- MODULE SlidingWindow ---------------------------
(***************************************************************************)
(* One identifier under the sliding-window rate limiter, the default        *)
(* algorithm (core/rate_limiter.py). A worker reads its clock twice, once   *)
(* for the arguments of the script and once for the names of the keys; then *)
(* Redis runs the script. Time is in whole seconds, as the code truncates.  *)
(***************************************************************************)
EXTENDS Integers

CONSTANTS
    Requests,  \* slots: requests that may be under way at once
    Window,    \* window_size
    Max,       \* max_requests of a window
    FailOpen,  \* RATE_LIMIT_FAILURE_MODE is fail_open
    MaxTime    \* bound: the clock stops there

Windows == 0..(MaxTime \div Window)

VARIABLES
    now,      \* wall clock, in seconds
    counts,   \* counts[w]: the counter of window w, 0 without a key
    written,  \* written[w]: when it was last incremented
    pc,       \* pc[r]: where request r is suspended
    stamp,    \* stamp[r]: the second the script gets as now
    key,      \* key[r]: the window whose keys the script gets
    start,    \* history: a point in time, no earlier than the last reset
    granted,  \* history: requests granted with a stamp from then on
    latest,   \* history: the latest stamp the keys have seen
    late,     \* history: a script ran with a stamp older than that
    mixed     \* history: a script ran with another window's keys

count == <<start, granted, latest, late, mixed>>
vars == <<now, counts, written, pc, stamp, key, count>>

Init ==
    /\ now = 0
    /\ counts = [w \in Windows |-> 0] /\ written = [w \in Windows |-> 0]
    /\ pc = [r \in Requests |-> "idle"]
    /\ stamp = [r \in Requests |-> 0] /\ key = [r \in Requests |-> 0]
    /\ start \in 0..MaxTime
    /\ granted = 0 /\ latest = 0 /\ late = FALSE /\ mixed = FALSE

Moves(r, to) == pc' = [pc EXCEPT ![r] = to]

(* The second may change between the two readings of the clock. A refused    *)
(* request asks again, for its error message.                               *)
Stamp(r) ==
    /\ pc[r] \in {"idle", "refused"}
    /\ \E t \in {now, now - 1} \cap Nat : stamp' = [stamp EXCEPT ![r] = t]
    /\ key' = [key EXCEPT ![r] = now \div Window]
    /\ Moves(r, IF pc[r] = "idle" THEN "asking" ELSE "reporting")
    /\ UNCHANGED <<now, counts, written, count>>

(* Variants: the previous window does not weigh; the limit is reached one    *)
(* request late.                                                            *)
WeighedCurrent(r) == counts[key[r]] * Window

(* The script's weighted count, times Window.                               *)
Weighed(r) ==
    counts[key[r]] * Window
    + (IF key[r] = 0 THEN 0 ELSE counts[key[r] - 1]) * (Window - (stamp[r] % Window))

Grants(r) == Weighed(r) < Max * Window

(* The request moves on and forgets what it brought.                        *)
Answers(r, to) ==
    /\ Moves(r, to)
    /\ stamp' = [stamp EXCEPT ![r] = 0]
    /\ key' = [key EXCEPT ![r] = 0]

Denied(r) == IF pc[r] = "asking" THEN "refused" ELSE "idle"

Take(r) ==
    LET t == stamp[r]
        w == key[r] IN
    /\ pc[r] \in {"asking", "reporting"}
    /\ Grants(r)
    /\ counts' = [counts EXCEPT ![w] = @ + 1]
    /\ written' = [written EXCEPT ![w] = now]
    /\ granted' = IF t >= start THEN granted + 1 ELSE granted
    /\ latest' = IF t > latest THEN t ELSE latest
    /\ late' = (late \/ t < latest)
    /\ mixed' = (mixed \/ t \div Window # w)
    /\ Answers(r, "idle")
    /\ UNCHANGED <<now, start>>

Refuse(r) ==
    /\ pc[r] \in {"asking", "reporting"}
    /\ ~Grants(r)
    /\ Answers(r, Denied(r))
    /\ UNCHANGED <<now, counts, written, count>>

(* Redis cannot be asked: the failure mode decides, and a report is given up.*)
RedisFails(r) ==
    /\ pc[r] \in {"asking", "reporting"}
    /\ Answers(r, IF FailOpen THEN "idle" ELSE Denied(r))
    /\ UNCHANGED <<now, counts, written, count>>

(* An admin clears the two counters that count at the time of asking, which  *)
(* may be a window earlier than the deletion.                               *)
Reset ==
    \E w \in {now \div Window, now \div Window - 1} \cap Windows :
        /\ counts' = [v \in Windows |-> IF v \in {w, w - 1} THEN 0 ELSE counts[v]]
        /\ counts' # counts
        /\ start' = IF start < now THEN now ELSE start
        /\ granted' = 0
        /\ latest' = now
        /\ UNCHANGED <<now, written, pc, stamp, key, late, mixed>>

Life == 2 * Window

Expire(w) ==
    /\ counts[w] > 0
    /\ now >= written[w] + Life
    /\ counts' = [counts EXCEPT ![w] = 0]
    /\ written' = [written EXCEPT ![w] = 0]
    /\ UNCHANGED <<now, pc, stamp, key, count>>

Tick ==
    /\ now < MaxTime
    /\ now' = now + 1
    /\ UNCHANGED <<counts, written, pc, stamp, key, count>>

Next ==
    \/ Tick \/ Reset
    \/ \E w \in Windows : Expire(w)
    \/ \E r \in Requests : Stamp(r) \/ Take(r) \/ Refuse(r) \/ RedisFails(r)

Spec == Init /\ [][Next]_vars

-----------------------------------------------------------------------------
(* Properties *)

TypeOK ==
    /\ now \in 0..MaxTime /\ start \in 0..MaxTime /\ latest \in 0..MaxTime
    /\ counts \in [Windows -> 0..Max] /\ written \in [Windows -> 0..MaxTime]
    /\ pc \in [Requests -> {"idle", "asking", "refused", "reporting"}]
    /\ stamp \in [Requests -> 0..MaxTime] /\ key \in [Requests -> Windows]
    /\ granted \in Nat /\ late \in BOOLEAN /\ mixed \in BOOLEAN

(* No double burst across a window's boundary: an interval of d <= Window    *)
(* seconds yields at most Max requests, Max * d / Window more that slide in  *)
(* with it, and the one that crosses the limit. Only when stamps reach the  *)
(* script in order and with the keys of their own window.                   *)
NoDoubleBurst ==
    LET d == now - start IN
    ~late /\ ~mixed /\ d \in 0..Window =>
        granted * Window <= Max * Window + Max * d + Window

=============================================================================
