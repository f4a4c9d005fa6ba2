--------------------------- MODULE RefreshFamily ---------------------------
(***************************************************************************)
(* The admin console's rotating refresh tokens (security/admin_jwt.py).    *)
(*                                                                         *)
(* A login opens a family: a Redis hash with the one token id the family   *)
(* accepts, a revoked flag and a time-to-live. POST /refresh trades the    *)
(* current token for a fresh one under WATCH/MULTI/EXEC; any other token   *)
(* of a live family is a replay and revokes the family. Every await of the *)
(* coroutine is a step boundary here, so any number of requests, logouts   *)
(* and the expiry of the key itself interleave with a rotation.            *)
(***************************************************************************)
EXTENDS Naturals, FiniteSets

CONSTANTS
    Families,    \* families, one per login
    Tokens,      \* token ids; uuid4 makes each fresh, so the set is consumed
    Requests,    \* POST /refresh requests, each made once
    NoToken,     \* no token id
    NoFamily,    \* the family of a request not made yet
    RefreshTTL,  \* JWT_REFRESH_TTL_SECONDS, in ticks
    MaxTime      \* bound: the clock stops there

ASSUME ConstantsAssumption ==
    /\ NoToken \notin Tokens
    /\ NoFamily \notin Families
    /\ RefreshTTL \in Nat \ {0}
    /\ MaxTime \in Nat

Never == MaxTime + RefreshTTL + 1   \* the expiry of a key that has no TTL

VARIABLES
    now,        \* wall clock, in ticks
    key,        \* key[f]: "absent", "family" (all fields) or "tombstone" (only revoked)
    current,    \* current[f]: the hash field current_token_id
    revoked,    \* revoked[f]: the hash field revoked = "1"
    expireAt,   \* expireAt[f]: when Redis drops the key, Never without a TTL
    login,      \* login[f]: "none", "written" (HSET done), "done" (EXPIRE done), "dead"
    issuedAt,   \* issuedAt[f]: when the login's EXPIRE started the window
    minted,     \* token ids drawn so far
    held,       \* held[f]: token ids of f that were handed to some client
    pc,         \* pc[r]: where the coroutine of request r is suspended
    fam,        \* fam[r]: the family named in the presented token
    tok,        \* tok[r]: the token id presented
    dirty,      \* dirty[r]: r's watched key was touched since its WATCH
    exchanged   \* history: the exchanges made

store == <<key, current, revoked, expireAt>>
requests == <<pc, fam, tok, dirty>>
vars == <<now, store, login, issuedAt, minted, held, requests, exchanged>>

Watching == {"watched", "revoking", "swapping"}
Answered == {"ok", "replay", "invalid"}

(* The store holds a family that would accept its current token.           *)
Live(f) == key[f] = "family" /\ ~revoked[f]

Init ==
    /\ now = 0
    /\ key = [f \in Families |-> "absent"]
    /\ current = [f \in Families |-> NoToken]
    /\ revoked = [f \in Families |-> FALSE]
    /\ expireAt = [f \in Families |-> Never]
    /\ login = [f \in Families |-> "none"]
    /\ issuedAt = [f \in Families |-> 0]
    /\ minted = {}
    /\ held = [f \in Families |-> {}]
    /\ pc = [r \in Requests |-> "idle"]
    /\ fam = [r \in Requests |-> NoFamily]
    /\ tok = [r \in Requests |-> NoToken]
    /\ dirty = [r \in Requests |-> FALSE]
    /\ exchanged = {}

(* Redis marks every client that watches a key somebody writes or expires. *)
Touched(S) == [r \in Requests |-> dirty[r] \/ (pc[r] \in Watching /\ fam[r] \in S)]

(* HSET key revoked 1: on a missing key it makes a hash with that one field *)
(* and no TTL.                                                              *)
HsetRevoked(f) ==
    /\ key' = [key EXCEPT ![f] = IF @ = "absent" THEN "tombstone" ELSE @]
    /\ revoked' = [revoked EXCEPT ![f] = TRUE]
    /\ UNCHANGED <<current, expireAt>>

Moves(r, to) == pc' = [pc EXCEPT ![r] = to]

-----------------------------------------------------------------------------
(* issue_refresh_token: HSET, then EXPIRE, then the token reaches the client *)

IssueWrite(f, t) ==
    /\ login[f] = "none"
    /\ t \in Tokens \ minted
    /\ login' = [login EXCEPT ![f] = "written"]
    /\ key' = [key EXCEPT ![f] = "family"]
    /\ current' = [current EXCEPT ![f] = t]
    /\ minted' = minted \cup {t}
    /\ UNCHANGED <<now, revoked, expireAt, issuedAt, held, requests, exchanged>>

IssueExpire(f) ==
    /\ login[f] = "written"
    /\ login' = [login EXCEPT ![f] = "done"]
    /\ expireAt' = [expireAt EXCEPT ![f] = now + RefreshTTL]
    /\ issuedAt' = [issuedAt EXCEPT ![f] = now]
    /\ held' = [held EXCEPT ![f] = {current[f]}]
    /\ UNCHANGED <<now, key, current, revoked, minted, requests, exchanged>>

(* The login coroutine is cancelled, or its process dies, between the two.  *)
IssueDies(f) ==
    /\ login[f] = "written"
    /\ login' = [login EXCEPT ![f] = "dead"]
    /\ UNCHANGED <<now, store, issuedAt, minted, held, requests, exchanged>>

-----------------------------------------------------------------------------
(* rotate_refresh_token *)

Watch(r, f, t) ==
    /\ pc[r] = "idle"
    /\ t \in held[f]
    /\ Moves(r, "watched")
    /\ fam' = [fam EXCEPT ![r] = f]
    /\ tok' = [tok EXCEPT ![r] = t]
    /\ dirty' = [dirty EXCEPT ![r] = FALSE]
    /\ UNCHANGED <<now, store, login, issuedAt, minted, held, exchanged>>

(* Variant: the revoked field is not looked at.                            *)
ReadFamilyIgnoringRevoked(r) ==
    /\ pc[r] = "watched"
    /\ LET f == fam[r] IN
       \/ key[f] # "family" /\ Moves(r, "invalid")
       \/ key[f] = "family" /\ current[f] # tok[r] /\ Moves(r, "revoking")
       \/ key[f] = "family" /\ current[f] = tok[r] /\ Moves(r, "swapping")
    /\ UNCHANGED <<now, store, login, issuedAt, minted, held, fam, tok, dirty, exchanged>>

(* HGETALL decides the branch; the EXEC that follows is another round trip. *)
ReadFamily(r) ==
    /\ pc[r] = "watched"
    /\ LET f == fam[r] IN
       \/ ~Live(f) /\ Moves(r, "invalid")
       \/ Live(f) /\ current[f] # tok[r] /\ Moves(r, "revoking")
       \/ Live(f) /\ current[f] = tok[r] /\ Moves(r, "swapping")
    /\ UNCHANGED <<now, store, login, issuedAt, minted, held, fam, tok, dirty, exchanged>>

ExecRevoke(r) ==
    /\ pc[r] = "revoking"
    /\ ~dirty[r]
    /\ HsetRevoked(fam[r])
    /\ Moves(r, "replay")
    /\ dirty' = Touched({fam[r]})
    /\ UNCHANGED <<now, login, issuedAt, minted, held, fam, tok, exchanged>>

(* Variants: a plain HSET instead of WATCH/EXEC; an EXPIRE beside the HSET. *)
SwapUnwatched(r, t) ==
    /\ pc[r] = "swapping"
    /\ t \in Tokens \ minted
    /\ current' = [current EXCEPT ![fam[r]] = t]
    /\ minted' = minted \cup {t}
    /\ held' = [held EXCEPT ![fam[r]] = @ \cup {t}]
    /\ exchanged' = exchanged \cup
                      {[family |-> fam[r], old |-> tok[r], new |-> t, at |-> now]}
    /\ Moves(r, "ok")
    /\ dirty' = Touched({fam[r]})
    /\ UNCHANGED <<now, key, revoked, expireAt, login, issuedAt, fam, tok>>

ExecSwap(r, t) ==
    /\ pc[r] = "swapping"
    /\ ~dirty[r]
    /\ t \in Tokens \ minted
    /\ current' = [current EXCEPT ![fam[r]] = t]
    /\ minted' = minted \cup {t}
    /\ held' = [held EXCEPT ![fam[r]] = @ \cup {t}]
    /\ exchanged' = exchanged \cup
                      {[family |-> fam[r], old |-> tok[r], new |-> t, at |-> now]}
    /\ Moves(r, "ok")
    /\ dirty' = Touched({fam[r]})
    /\ UNCHANGED <<now, key, revoked, expireAt, login, issuedAt, fam, tok>>

(* Either EXEC comes back empty: redis-py raises WatchError.                *)
ExecAborts(r) ==
    /\ pc[r] \in {"revoking", "swapping"}
    /\ dirty[r]
    /\ Moves(r, "conflict")
    /\ UNCHANGED <<now, store, login, issuedAt, minted, held, fam, tok, dirty, exchanged>>

(* Variant: the loser only reports the replay.                             *)
ReportConflict(r) ==
    /\ pc[r] = "conflict"
    /\ Moves(r, "replay")
    /\ UNCHANGED <<now, store, login, issuedAt, minted, held, fam, tok, dirty, exchanged>>

(* The except branch revokes outside any transaction.                      *)
RevokeOnConflict(r) ==
    /\ pc[r] = "conflict"
    /\ HsetRevoked(fam[r])
    /\ Moves(r, "replay")
    /\ dirty' = Touched({fam[r]})
    /\ UNCHANGED <<now, login, issuedAt, minted, held, fam, tok, exchanged>>

(* A request is cancelled, or its process dies, at any await.               *)
RequestDies(r) ==
    /\ pc[r] \in Watching \cup {"conflict"}
    /\ Moves(r, "dead")
    /\ UNCHANGED <<now, store, login, issuedAt, minted, held, fam, tok, dirty, exchanged>>

-----------------------------------------------------------------------------
(* revoke_refresh_token: logout takes the family from the cookie and writes *)
(* the flag without looking at the key.                                     *)
Logout(f) ==
    /\ held[f] # {}
    /\ HsetRevoked(f)
    /\ dirty' = Touched({f})
    /\ UNCHANGED <<now, login, issuedAt, minted, held, pc, fam, tok, exchanged>>

(* Redis expires keys on its own clock, watched or not.                     *)
Tick ==
    /\ now < MaxTime
    /\ now' = now + 1
    /\ LET gone == {f \in Families : key[f] # "absent" /\ expireAt[f] <= now + 1} IN
       /\ key' = [f \in Families |-> IF f \in gone THEN "absent" ELSE key[f]]
       /\ current' = [f \in Families |-> IF f \in gone THEN NoToken ELSE current[f]]
       /\ revoked' = [f \in Families |-> IF f \in gone THEN FALSE ELSE revoked[f]]
       /\ expireAt' = [f \in Families |-> IF f \in gone THEN Never ELSE expireAt[f]]
       /\ dirty' = Touched(gone)
    /\ UNCHANGED <<login, issuedAt, minted, held, pc, fam, tok, exchanged>>

Issuing(f) == IssueExpire(f) \/ IssueDies(f) \/ \E t \in Tokens : IssueWrite(f, t)

Rotating(r) ==
    \/ ReadFamily(r)
    \/ ExecRevoke(r)
    \/ \E t \in Tokens : ExecSwap(r, t)
    \/ ExecAborts(r)
    \/ RevokeOnConflict(r)

Next ==
    \/ \E f \in Families : Issuing(f) \/ Logout(f)
    \/ \E r \in Requests, f \in Families, t \in Tokens : Watch(r, f, t)
    \/ \E r \in Requests : Rotating(r) \/ RequestDies(r)
    \/ Tick

Spec == Init /\ [][Next]_vars

(* Redis answers every command, so a coroutine that is not cancelled runs   *)
(* on; nothing makes a client send anything or the clock reach the expiry.  *)
FairSpec == Spec /\ \A r \in Requests : WF_vars(Rotating(r))

-----------------------------------------------------------------------------
(* Properties *)

TypeOK ==
    /\ now \in 0..MaxTime
    /\ key \in [Families -> {"absent", "family", "tombstone"}]
    /\ current \in [Families -> Tokens \cup {NoToken}]
    /\ revoked \in [Families -> BOOLEAN]
    /\ expireAt \in [Families -> 0..Never]
    /\ login \in [Families -> {"none", "written", "done", "dead"}]
    /\ issuedAt \in [Families -> 0..MaxTime]
    /\ minted \in SUBSET Tokens
    /\ held \in [Families -> SUBSET Tokens]
    /\ pc \in [Requests -> {"idle", "conflict", "dead"} \cup Watching \cup Answered]
    /\ fam \in [Requests -> Families \cup {NoFamily}]
    /\ tok \in [Requests -> Tokens \cup {NoToken}]
    /\ dirty \in [Requests -> BOOLEAN]
    /\ exchanged \in SUBSET [family : Families, old : Tokens, new : Tokens, at : 0..MaxTime]

(* However many refreshes race with the same token, with logouts and with   *)
(* the expiry of the key, rotate_refresh_token trades it at most once.      *)
SingleUse ==
    \A x, y \in exchanged : x.family = y.family /\ x.old = y.old => x = y

(* Once two requests that presented the same token have both been answered, *)
(* whatever the answers, the store no longer accepts any token of that      *)
(* family: the winner of the race loses its session as well.                *)
ReuseClosesFamily ==
    \A r, q \in Requests :
        r # q /\ fam[r] = fam[q] /\ tok[r] = tok[q] /\ {pc[r], pc[q]} \subseteq Answered
            => ~Live(fam[r])

(* Rotation preserves the TTL of the login: no exchange happens at or after *)
(* issue + RefreshTTL, however often the session was refreshed.             *)
FixedWindow ==
    /\ \A x \in exchanged : x.at < issuedAt[x.family] + RefreshTTL
    /\ \A f \in Families :
          login[f] = "done" /\ Live(f) => expireAt[f] = issuedAt[f] + RefreshTTL

(* The store, seen through the hash fields a refresh would accept, is the   *)
(* atomic token family of TokenFamily: the WATCH makes check and swap one   *)
(* step, and a closed family is never reopened by a late EXEC or HSET.      *)
TF == INSTANCE TokenFamily WITH
    phase <- [f \in Families |->
                IF Live(f) THEN "open" ELSE IF login[f] = "none" THEN "unborn" ELSE "closed"],
    head <- [f \in Families |-> IF Live(f) THEN current[f] ELSE NoToken],
    used <- minted

ImplementsTokenFamily == TF!Spec

(* If nobody is cancelled, presenting one token twice ends with the family  *)
(* closed, even when the second presentation is only noticed at its EXEC.   *)
ReuseEventuallyCloses ==
    \A f \in Families, r, q \in Requests :
        (r # q /\ fam[r] = f /\ fam[q] = f /\ tok[r] = tok[q])
            ~> (~Live(f) \/ "dead" \in {pc[r], pc[q]})

(* The inductive strengthening. A login that has not returned its token has *)
(* a key no client can reach; afterwards the key is the login's family with *)
(* its window still running, or dead.                                       *)
LoginOK(f) ==
    /\ login[f] = "none" => key[f] = "absent" /\ held[f] = {}
    /\ login[f] \in {"written", "dead"} =>
          key[f] = "family" /\ ~revoked[f] /\ held[f] = {} /\ expireAt[f] = Never
    /\ held[f] \subseteq minted
    /\ key[f] = "absent" => ~revoked[f] /\ expireAt[f] = Never
    /\ key[f] = "tombstone" => revoked[f]
    /\ IF key[f] = "family" THEN current[f] \in minted ELSE current[f] = NoToken
    /\ key[f] = "family" /\ login[f] = "done" =>
          expireAt[f] = issuedAt[f] + RefreshTTL /\ now < expireAt[f]

LoginInv == \A f \in Families : LoginOK(f)

(* What an untouched WATCH still guarantees at the EXEC, and what an answer *)
(* says of the store from then on.                                          *)
RequestOK(r) ==
    pc[r] # "idle" =>
        /\ fam[r] \in Families /\ login[fam[r]] = "done" /\ tok[r] \in minted
        /\ pc[r] = "revoking" /\ ~dirty[r] => Live(fam[r])
        /\ pc[r] = "swapping" /\ ~dirty[r] => Live(fam[r]) /\ current[fam[r]] = tok[r]
        /\ pc[r] \in {"replay", "invalid"} => ~Live(fam[r])
        /\ pc[r] = "ok" => current[fam[r]] # tok[r]

WatchInv == \A r \in Requests : RequestOK(r)

(* Two successful requests of one family presented different tokens.        *)
WinnersDiffer ==
    \A r, q \in Requests :
        r # q /\ pc[r] = "ok" /\ pc[q] = "ok" /\ fam[r] = fam[q] => tok[r] # tok[q]

ExchangeInv ==
    /\ \A x \in exchanged :
          /\ x.old \in minted /\ current[x.family] # x.old
          /\ login[x.family] = "done" /\ x.at < issuedAt[x.family] + RefreshTTL
    /\ SingleUse

RotationInv == TypeOK /\ LoginInv /\ WatchInv /\ WinnersDiffer /\ ExchangeInv

=============================================================================
