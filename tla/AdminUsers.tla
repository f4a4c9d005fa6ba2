----------------------------- MODULE AdminUsers -----------------------------
(***************************************************************************)
(* The admin_users table (api/admin_users/repo.py) under the requests and  *)
(* boot steps that write it: the seed of the env-backed super-admin by     *)
(* every gunicorn worker, creation of plain admins, and revocation, which  *)
(* must never take away the last active super-admin.                       *)
(*                                                                         *)
(* Postgres runs these at READ COMMITTED: a statement sees what was        *)
(* committed when it started, SELECT ... FOR UPDATE locks the target row   *)
(* and re-checks it once the lock is granted, and an UPDATE shows to       *)
(* others at COMMIT. One action is one statement.                          *)
(***************************************************************************)
EXTENDS Naturals, FiniteSets

CONSTANTS
    Rows,       \* row ids (uuid); each is inserted at most once
    Emails,     \* lower-cased addresses
    SeedEmail,  \* SUPER_ADMIN_EMAIL of the environment
    Boots,      \* worker start-ups
    Requests,   \* POST and DELETE /agent/admin/admins requests
    NoRow,      \* no row
    NoRequest   \* the holder of a row lock nobody has

ASSUME ConstantsAssumption ==
    /\ SeedEmail \in Emails
    /\ NoRow \notin Rows /\ NoRequest \notin Requests
    /\ IsFiniteSet(Rows)

VARIABLES
    status,      \* status[a]: "free" (not inserted), "active" or "revoked"
    email,       \* email[a]
    isSuper,     \* isSuper[a]: is_super_admin
    lock,        \* lock[a]: the transaction holding the row lock of a
    sessions,    \* rows whose owner holds an MFA-fresh super-admin access token
    boot,        \* boot[b]: "start", "insert", "up", "failed"
    pc,          \* pc[r]: where the handler of request r is
    target,      \* target[r]: the row to revoke
    wanted,      \* wanted[r]: the email to create
    overlapped   \* history: a revoke committed while another was past its count

table == <<status, email, isSuper>>
request == <<pc, target, wanted>>
vars == <<table, lock, sessions, boot, request, overlapped>>

Active == {a \in Rows : status[a] = "active"}
ActiveSupers == {a \in Active : isSuper[a]}
EmailInUse(e) == \E a \in Active : email[a] = e

Init ==
    /\ status = [a \in Rows |-> "free"]
    /\ email = [a \in Rows |-> SeedEmail]
    /\ isSuper = [a \in Rows |-> FALSE]
    /\ lock = [a \in Rows |-> NoRequest]
    /\ sessions = {}
    /\ boot = [b \in Boots |-> "start"]
    /\ pc = [r \in Requests |-> "idle"]
    /\ target = [r \in Requests |-> NoRow]
    /\ wanted = [r \in Requests |-> SeedEmail]
    /\ overlapped = FALSE

Moves(r, to) == pc' = [pc EXCEPT ![r] = to]

(* INSERT; the partial unique index admits one active row per email.         *)
Insert(a, e, super) ==
    /\ status[a] = "free"
    /\ ~EmailInUse(e)
    /\ status' = [status EXCEPT ![a] = "active"]
    /\ email' = [email EXCEPT ![a] = e]
    /\ isSuper' = [isSuper EXCEPT ![a] = super]

-----------------------------------------------------------------------------
(* seed_super_admin_if_absent: a count and an insert, not one statement *)

SeedCount(b) ==
    /\ boot[b] = "start"
    /\ boot' = [boot EXCEPT ![b] = IF ActiveSupers = {} THEN "insert" ELSE "up"]
    /\ UNCHANGED <<table, lock, sessions, request, overlapped>>

SeedInsert(b, a) ==
    /\ boot[b] = "insert"
    /\ Insert(a, SeedEmail, TRUE)
    /\ boot' = [boot EXCEPT ![b] = "up"]
    /\ UNCHANGED <<lock, sessions, request, overlapped>>

(* The index refuses a second seed; the exception ends the start-up.         *)
SeedRefused(b) ==
    /\ boot[b] = "insert"
    /\ EmailInUse(SeedEmail)
    /\ boot' = [boot EXCEPT ![b] = "failed"]
    /\ UNCHANGED <<table, lock, sessions, request, overlapped>>

(* The enrolment runbook: further super-admins are inserted by hand.         *)
OperatorInsert(a, e) ==
    /\ Insert(a, e, TRUE)
    /\ UNCHANGED <<lock, sessions, boot, request, overlapped>>

(* Login and TOTP give an active super-admin a token; revocation does not    *)
(* take it back, only its expiry does.                                       *)
SignIn(a) ==
    /\ a \in ActiveSupers \ sessions
    /\ sessions' = sessions \cup {a}
    /\ UNCHANGED <<table, lock, boot, request, overlapped>>

TokenExpires(a) ==
    /\ a \in sessions
    /\ sessions' = sessions \ {a}
    /\ UNCHANGED <<table, lock, boot, request, overlapped>>

-----------------------------------------------------------------------------
(* create_admin *)

CreateCheck(r, e) ==
    /\ pc[r] = "idle"
    /\ sessions # {}
    /\ wanted' = [wanted EXCEPT ![r] = e]
    /\ Moves(r, IF EmailInUse(e) THEN "in_use" ELSE "inserting")
    /\ UNCHANGED <<table, lock, sessions, boot, target, overlapped>>

CreateInsert(r, a) ==
    /\ pc[r] = "inserting"
    /\ Insert(a, wanted[r], FALSE)
    /\ Moves(r, "created")
    /\ UNCHANGED <<lock, sessions, boot, target, wanted, overlapped>>

CreateRefused(r) ==
    /\ pc[r] = "inserting"
    /\ EmailInUse(wanted[r])
    /\ Moves(r, "error")
    /\ UNCHANGED <<table, lock, sessions, boot, target, wanted, overlapped>>

-----------------------------------------------------------------------------
(* revoke_admin and revoke_if_not_last_super *)

(* Variant: the row is read without FOR UPDATE.                             *)
LookWithoutLock(r, a) ==
    /\ pc[r] = "idle"
    /\ sessions \ {a} # {}
    /\ target' = [target EXCEPT ![r] = a]
    /\ IF a \in Active
       THEN Moves(r, "locked") /\ lock' = [lock EXCEPT ![a] = r]
       ELSE Moves(r, "not_found") /\ UNCHANGED lock
    /\ UNCHANGED <<table, sessions, boot, wanted, overlapped>>

(* SELECT ... FOR UPDATE waits for the lock, then re-reads the row.          *)
RevokeLock(r, a) ==
    /\ pc[r] = "idle"
    /\ sessions \ {a} # {}
    /\ lock[a] = NoRequest
    /\ target' = [target EXCEPT ![r] = a]
    /\ IF a \in Active
       THEN Moves(r, "locked") /\ lock' = [lock EXCEPT ![a] = r]
       ELSE Moves(r, "not_found") /\ UNCHANGED lock
    /\ UNCHANGED <<table, sessions, boot, wanted, overlapped>>

Release(r) == lock' = [lock EXCEPT ![target[r]] = NoRequest]

RevokeRefused(r) ==
    /\ pc[r] = "locked"
    /\ isSuper[target[r]]
    /\ Cardinality(ActiveSupers) <= 1
    /\ Moves(r, "last_super")
    /\ Release(r)
    /\ UNCHANGED <<table, sessions, boot, target, wanted, overlapped>>

(* Variants: the count is skipped, or compared with the wrong bound.         *)
RevokeUncounted(r) ==
    /\ pc[r] = "locked"
    /\ Moves(r, "updating")
    /\ UNCHANGED <<table, lock, sessions, boot, target, wanted, overlapped>>

RevokeAllowed(r) ==
    /\ pc[r] = "locked"
    /\ isSuper[target[r]] => Cardinality(ActiveSupers) > 1
    /\ Moves(r, "updating")
    /\ UNCHANGED <<table, lock, sessions, boot, target, wanted, overlapped>>

(* UPDATE and COMMIT; the target row is locked, so the UPDATE waits for none. *)
RevokeCommit(r) ==
    /\ pc[r] = "updating"
    /\ status' = [status EXCEPT ![target[r]] = "revoked"]
    /\ overlapped' = (overlapped \/ \E q \in Requests \ {r} : pc[q] = "updating")
    /\ Moves(r, "ok")
    /\ Release(r)
    /\ UNCHANGED <<email, isSuper, sessions, boot, target, wanted>>

(* A lost connection or a cancelled request rolls the transaction back.      *)
Rollback(r) ==
    /\ pc[r] \in {"locked", "updating"}
    /\ Moves(r, "error")
    /\ Release(r)
    /\ UNCHANGED <<table, sessions, boot, target, wanted, overlapped>>

Revoking(r) == RevokeRefused(r) \/ RevokeAllowed(r) \/ RevokeCommit(r) \/ Rollback(r)

Next ==
    \/ \E b \in Boots : SeedCount(b) \/ SeedRefused(b) \/ \E a \in Rows : SeedInsert(b, a)
    \/ \E a \in Rows : SignIn(a) \/ TokenExpires(a) \/ \E e \in Emails : OperatorInsert(a, e)
    \/ \E r \in Requests :
          \/ CreateRefused(r) \/ Revoking(r)
          \/ \E e \in Emails : CreateCheck(r, e)
          \/ \E a \in Rows : CreateInsert(r, a) \/ RevokeLock(r, a)

Spec == Init /\ [][Next]_vars

-----------------------------------------------------------------------------
(* Properties *)

Chosen(r) == pc[r] \in {"not_found", "locked", "last_super", "updating", "ok"}

TypeOK ==
    /\ status \in [Rows -> {"free", "active", "revoked"}]
    /\ email \in [Rows -> Emails]
    /\ isSuper \in [Rows -> BOOLEAN]
    /\ lock \in [Rows -> Requests \cup {NoRequest}]
    /\ sessions \subseteq Rows
    /\ boot \in [Boots -> {"start", "insert", "up", "failed"}]
    /\ pc \in [Requests -> {"idle", "in_use", "inserting", "created", "error", "not_found",
                            "locked", "last_super", "updating", "ok"}]
    /\ target \in [Requests -> Rows \cup {NoRow}]
    /\ wanted \in [Requests -> Emails]
    /\ overlapped \in BOOLEAN
    /\ \A r \in Requests : Chosen(r) => target[r] \in Rows

InTransaction(r) == pc[r] \in {"locked", "updating"}

(* An active super-admin remains once one existed.                          *)
SuperRemains == (\E a \in Rows : isSuper[a]) => ActiveSupers # {}

(* What the row lock and the count do achieve: as long as no two revokes of  *)
(* the table overlap past their counts, an active super-admin remains.       *)
SuperRemainsUnlessOverlapped == ~overlapped => SuperRemains

(* Concurrent revokes of one admin: the lock makes one of them succeed and   *)
(* the others find the row gone.                                             *)
RevokedOnce ==
    \A r, q \in Requests :
        r # q /\ pc[r] = "ok" /\ pc[q] = "ok" => target[r] # target[q]

(* A transaction that passed SELECT ... FOR UPDATE still sees its row active *)
(* and still holds its lock, so the 404 / 400 it answers is about the row it *)
(* looked at.                                                                *)
TargetStable ==
    \A r \in Requests : InTransaction(r) =>
        target[r] \in Active /\ lock[target[r]] = r

(* The inductive strengthening: the count a transaction relied on still      *)
(* holds at its COMMIT, unless somebody else committed in between.           *)
CountStillHolds ==
    \A r \in Requests : pc[r] = "updating" /\ isSuper[target[r]] /\ ~overlapped =>
        ActiveSupers \ {target[r]} # {}

OkMeansRevoked == \A r \in Requests : pc[r] = "ok" => status[target[r]] = "revoked"

RevokeInv ==
    /\ TypeOK /\ TargetStable /\ CountStillHolds /\ OkMeansRevoked
    /\ RevokedOnce /\ SuperRemainsUnlessOverlapped

=============================================================================
