---------------------------- MODULE TotpLockout ----------------------------
(***************************************************************************)
(* The TOTP lockout of one admin (security/admin_totp.py): a failure       *)
(* counter with a short sliding time-to-live and a lock marker with a      *)
(* long fixed one, two Redis keys that every verification reads and writes *)
(* in separate round trips. Concurrent attempts, valid codes, crashes and  *)
(* the expiry of both keys interleave.                                     *)
(***************************************************************************)
EXTENDS Naturals, FiniteSets

CONSTANTS
    Attempts,      \* POST /mfa/verify requests for this admin, each made once
    MaxFailures,   \* _MAX_FAILURES
    CounterTTL,    \* _COUNTER_TTL_SECONDS, in ticks
    LockTTL,       \* _LOCKOUT_TTL_SECONDS, in ticks
    MaxClock       \* bound: the clock stops there

ASSUME LockoutAssumption ==
    /\ MaxFailures \in Nat \ {0}
    /\ CounterTTL \in Nat \ {0} /\ LockTTL \in Nat /\ CounterTTL < LockTTL
    /\ MaxClock \in Nat

VARIABLES
    clock,         \* wall clock, in ticks
    failures,      \* the counter; 0 when the key is absent
    counterEnds,   \* when the counter expires, if it is present
    locked,        \* the lock marker is present
    lockEnds,      \* when the marker expires, if it is present
    verifying,     \* verifying[r]: where the coroutine of request r is suspended
    touched,       \* touched[r]: the watched marker was touched since r's WATCH
    told,          \* history: "invalid code" answers in the life of this counter
    excused        \* history: in that life, a lock was cleared or its writer died

counter == <<failures, counterEnds, told>>
marker == <<locked, lockEnds>>
lockoutVars == <<clock, counter, marker, verifying, touched, excused>>

LockoutInit ==
    /\ clock = 0
    /\ failures = 0 /\ counterEnds = 0 /\ told = 0
    /\ locked = FALSE /\ lockEnds = 0
    /\ verifying = [r \in Attempts |-> "idle"]
    /\ touched = [r \in Attempts |-> FALSE]
    /\ excused = FALSE

Goes(r, to) == verifying' = [verifying EXCEPT ![r] = to]
Touched == [r \in Attempts |-> TRUE]

(* EXISTS locked, then the code is checked without another round trip; a    *)
(* secret that cannot be decrypted raises.                                  *)
Begin(r) ==
    /\ verifying[r] = "idle"
    /\ IF locked
       THEN Goes(r, "locked_out")
       ELSE \E to \in {"clearing", "failed", "error"} : Goes(r, to)
    /\ UNCHANGED <<clock, counter, marker, touched, excused>>

-----------------------------------------------------------------------------
(* A valid code clears both keys, one after the other *)

ClearCounter(r) ==
    /\ verifying[r] = "clearing"
    /\ failures' = 0 /\ told' = 0 /\ excused' = FALSE
    /\ Goes(r, "unlocking")
    /\ UNCHANGED <<clock, counterEnds, marker, touched>>

ClearLock(r) ==
    /\ verifying[r] = "unlocking"
    /\ locked' = FALSE
    /\ touched' = IF locked THEN Touched ELSE touched
    /\ excused' = (excused \/ (locked /\ failures > 0))
    /\ Goes(r, "ok")
    /\ UNCHANGED <<clock, counter, lockEnds>>

-----------------------------------------------------------------------------
(* A wrong code is a strike, guarded by a WATCH on the marker *)

Watch(r) ==
    /\ verifying[r] = "failed"
    /\ Goes(r, "watched")
    /\ touched' = [touched EXCEPT ![r] = FALSE]
    /\ UNCHANGED <<clock, counter, marker, excused>>

Recheck(r) ==
    /\ verifying[r] = "watched"
    /\ Goes(r, IF locked THEN "locked_out" ELSE "striking")
    /\ UNCHANGED <<clock, counter, marker, touched, excused>>

(* What the reply of HINCRBY leads to, with no await in between.            *)
Struck(r, limit) ==
    /\ failures' = failures + 1
    /\ counterEnds' = clock + CounterTTL
    /\ IF failures' >= limit
       THEN Goes(r, "locking") /\ UNCHANGED told
       ELSE Goes(r, "invalid") /\ told' = told + 1
    /\ UNCHANGED <<clock, marker, touched, excused>>

StrikeLate(r) == verifying[r] = "striking" /\ ~touched[r] /\ Struck(r, MaxFailures + 1)

Strike(r) == verifying[r] = "striking" /\ ~touched[r] /\ Struck(r, MaxFailures)

StrikeAborts(r) ==
    /\ verifying[r] = "striking"
    /\ touched[r]
    /\ Goes(r, "locked_out")
    /\ UNCHANGED <<clock, counter, marker, touched, excused>>

Lock(r) ==
    /\ verifying[r] = "locking"
    /\ locked' = TRUE
    /\ lockEnds' = clock + LockTTL
    /\ touched' = Touched
    /\ Goes(r, "locked_out")
    /\ UNCHANGED <<clock, counter, excused>>

-----------------------------------------------------------------------------

RequestDies(r) ==
    /\ verifying[r] \in {"clearing", "unlocking", "failed", "watched", "striking", "locking"}
    /\ excused' = (excused \/ verifying[r] = "locking")
    /\ Goes(r, "dead")
    /\ UNCHANGED <<clock, counter, marker, touched>>

ClockTicks ==
    /\ clock < MaxClock
    /\ clock' = clock + 1
    /\ LET counterGone == failures > 0 /\ counterEnds <= clock + 1
           lockGone == locked /\ lockEnds <= clock + 1 IN
       /\ failures' = IF counterGone THEN 0 ELSE failures
       /\ told' = IF counterGone THEN 0 ELSE told
       /\ excused' = (excused /\ ~counterGone)
       /\ locked' = (locked /\ ~lockGone)
       /\ touched' = IF lockGone THEN Touched ELSE touched
    /\ UNCHANGED <<counterEnds, lockEnds, verifying>>

Verifying(r) ==
    \/ Begin(r) \/ ClearCounter(r) \/ ClearLock(r)
    \/ Watch(r) \/ Recheck(r) \/ Strike(r) \/ StrikeAborts(r) \/ Lock(r)

LockoutNext == ClockTicks \/ \E r \in Attempts : Verifying(r) \/ RequestDies(r)

-----------------------------------------------------------------------------
(* Properties *)

LockoutTypeOK ==
    /\ clock \in 0..MaxClock
    /\ failures \in Nat /\ counterEnds \in Nat /\ told \in Nat
    /\ locked \in BOOLEAN /\ lockEnds \in Nat
    /\ verifying \in [Attempts -> {"idle", "clearing", "unlocking", "failed", "watched", "striking",
                            "locking", "locked_out", "invalid", "ok", "error", "dead"}]
    /\ touched \in [Attempts -> BOOLEAN]
    /\ excused \in BOOLEAN

(* However many wrong codes are in flight, at most MaxFailures - 1 of them   *)
(* are answered "invalid code" in the life of one counter: the others learn  *)
(* that the account is locked.                                               *)
InvalidAnswersBounded == told < MaxFailures

(* Once the counter has reached the limit the account is locked or about to  *)
(* be, unless a valid code in flight lifted the lock or its writer died.     *)
StrikesLock ==
    failures >= MaxFailures =>
        locked \/ excused \/ \E r \in Attempts : verifying[r] = "locking"

(* While the marker is there no attempt is counted and none slides the       *)
(* counter's window, so an expiring lock leaves a fresh counter behind.      *)
CounterDiesFirst == locked /\ failures > 0 => counterEnds < lockEnds

(* An attempt that was checked before the lock was written is not counted    *)
(* after it.                                                                 *)
NoStrikeWhileLocked == [][locked => failures' <= failures]_lockoutVars

(* The inductive strengthening: an undisturbed WATCH still sees no marker,   *)
(* and the counter of an account about to be locked was just renewed.        *)
LockoutInv ==
    /\ LockoutTypeOK
    /\ \A r \in Attempts : verifying[r] = "striking" /\ ~touched[r] => ~locked
    /\ failures > 0 => counterEnds <= clock + CounterTTL
    /\ told <= failures
    /\ InvalidAnswersBounded
    /\ CounterDiesFirst

=============================================================================
