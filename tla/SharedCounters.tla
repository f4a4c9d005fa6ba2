--------------------------- MODULE SharedCounters ---------------------------
(***************************************************************************)
(* The counters that requests share in Redis: the rate limiter's, under     *)
(* either algorithm, the TOTP lockout's and the session cost's. They have   *)
(* no key in common, so the system is one of them at a time: which one is   *)
(* chosen at the start, for the limiter as the configuration does.          *)
(***************************************************************************)
EXTENDS TokenBucket, TotpLockout, SessionCost

CONSTANTS
    Slots,      \* requests under way at once, for the sliding window
    Window,     \* window_size
    Max,        \* max_requests of a window
    MaxSeconds  \* bound: the sliding window's clock stops there

ASSUME WindowAssumption ==
    Window \in Nat \ {0} /\ Max \in Nat /\ MaxSeconds \in Nat

VARIABLES
    counting,  \* which counter this is: lockout, cost or the limiter's algorithm
    \* the variables of SlidingWindow
    second, counts, incremented, asking, brought, key, from, granted, newest, late, mixed

W == INSTANCE SlidingWindow WITH
        Requests <- Slots, MaxTime <- MaxSeconds, now <- second, written <- incremented,
        pc <- asking, stamp <- brought, start <- from, latest <- newest

windowVars ==
    <<second, counts, incremented, asking, brought, key, from, granted, newest, late, mixed>>
allVars == <<counting, vars, lockoutVars, costVars, windowVars>>

(* RATE_LIMIT_ALGORITHM                                                     *)
Algorithms == {"sliding_window", "token_bucket"}

SharedInit ==
    /\ counting \in Algorithms \cup {"lockout", "cost"}
    /\ Init /\ LockoutInit /\ CostInit /\ W!Init
    /\ counting # "token_bucket" => start = 0
    /\ counting # "sliding_window" => from = 0

BucketStep ==
    /\ counting = "token_bucket" /\ Next
    /\ UNCHANGED <<counting, lockoutVars, costVars, windowVars>>

WindowStep ==
    /\ counting = "sliding_window" /\ W!Next
    /\ UNCHANGED <<counting, vars, lockoutVars, costVars>>

LockoutStep ==
    /\ counting = "lockout" /\ LockoutNext
    /\ UNCHANGED <<counting, vars, costVars, windowVars>>

CostStep ==
    /\ counting = "cost" /\ CostNext
    /\ UNCHANGED <<counting, vars, lockoutVars, windowVars>>

SharedNext == BucketStep \/ WindowStep \/ LockoutStep \/ CostStep

SharedSpec == SharedInit /\ [][SharedNext]_allVars

(* No double burst across a window's boundary (SlidingWindow).              *)
NoDoubleBurst == W!NoDoubleBurst

=============================================================================
