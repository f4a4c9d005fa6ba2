---------------------------- MODULE AdminSession ----------------------------
(***************************************************************************)
(* One admin and one browser: the session routes                            *)
(* (api/endpoints/admin_auth_routes.py), the access tokens they issue, the  *)
(* guard of every admin mutation (api/admin_auth.py) and the refresh-token  *)
(* families behind them, as TokenFamily promises them. The browser's tabs   *)
(* share one cookie jar, so requests overlap and answers arrive in any      *)
(* order, or never.                                                         *)
(***************************************************************************)
EXTENDS Integers

CONSTANTS
    Requests,   \* slots: requests that may be under way at once
    Families,   \* refresh-token families, one a login
    Tokens,     \* refresh-token identifiers
    None,       \* no token, no cookie
    AccessTTL,  \* JWT_ACCESS_TTL_SECONDS
    Freshness,  \* JWT_MFA_FRESHNESS_SECONDS
    MaxTime     \* bound: the clock stops there

ASSUME ConstantsAssumption ==
    /\ AccessTTL \in Nat \ {0} /\ Freshness \in Nat \ {0} /\ MaxTime \in Nat
    /\ None \notin Families \cup Tokens \cup [family : Families, token : Tokens]

VARIABLES
    now,      \* the clock of the workers
    revoked,  \* when the admin's row was revoked, Never if it was not
    phase, head, used,  \* the refresh-token families
    jar,      \* the browser's cookies: access, refresh and csrf
    pc,       \* pc[r]: where request r is suspended, or the answer on its way
    access,   \* access[r]: the access token r was sent with, or answers
    refresh,  \* refresh[r]: the refresh token r was sent with, or answers
    totpAt,   \* history: when a code was last found right, Never if none was
    unproved, \* history: a mutation passed without a recent code
    late,     \* history: the revocation fell between a lookup and its token
    hurt,     \* history: families with an exchange the browser may not know of, or
              \* that ended while one of their tokens was exchanged
    replayed, \* history: families a request was refused for as replayed
    out       \* history: the family of a sign-out nothing overlapped

familyVars == <<phase, head, used>>
slot == <<pc, access, refresh>>
history == <<totpAt, unproved, late, hurt, replayed, out>>
vars == <<now, revoked, familyVars, jar, slot, history>>

TF == INSTANCE TokenFamily WITH NoToken <- None

Never == -1

(* Access tokens carry when they expire and when a TOTP code was checked.    *)
AccessTokens == [exp : Int, mfa : Int]
RefreshTokens == [family : Families, token : Tokens]
AccessToken(mfa) == [exp |-> now + AccessTTL, mfa |-> mfa]
EmptyJar == [access |-> None, refresh |-> None, csrf |-> FALSE]

Init ==
    /\ now = 0 /\ revoked = Never
    /\ TF!Init
    /\ jar = EmptyJar
    /\ pc = [r \in Requests |-> "idle"]
    /\ access = [r \in Requests |-> None] /\ refresh = [r \in Requests |-> None]
    /\ totpAt = Never /\ unproved = FALSE /\ late = FALSE
    /\ hurt = {} /\ replayed = {} /\ out = None

Active == revoked = Never
Valid(token) == token # None /\ now < token.exp
MfaFresh(token) == token.mfa # Never /\ now - token.mfa \in 0..(Freshness - 1)

Goes(r, to, a, t) ==
    /\ pc' = [pc EXCEPT ![r] = to]
    /\ access' = [access EXCEPT ![r] = a]
    /\ refresh' = [refresh EXCEPT ![r] = t]

(* An error answer changes no cookie: its way back is not a step.           *)
Refused(r) == Goes(r, "idle", None, None)

-----------------------------------------------------------------------------
(* /login: the row is read, then the tokens are issued.                     *)

SendLogin(r) ==
    /\ pc[r] = "idle"
    /\ Goes(r, "login", None, None)
    /\ out' = None
    /\ UNCHANGED <<now, revoked, familyVars, jar, totpAt, unproved, late, hurt, replayed>>

LoginLookup(r) ==
    /\ pc[r] = "login"
    /\ IF Active THEN Goes(r, "issue", None, None) ELSE Refused(r)
    /\ UNCHANGED <<now, revoked, familyVars, jar, history>>

LoginIssue(r) ==
    /\ pc[r] = "issue"
    /\ \E f \in Families, t \in Tokens :
          /\ TF!Open(f, t)
          /\ Goes(r, "tokens", AccessToken(Never), [family |-> f, token |-> t])
    /\ UNCHANGED <<now, revoked, jar, history>>

-----------------------------------------------------------------------------
(* /mfa/verify: the access token is checked, the row read, then the code. A  *)
(* right one is answered with a new access token; the rest stays.           *)

CsrfPresent == jar.csrf

SendMfa(r) ==
    /\ pc[r] = "idle"
    /\ CsrfPresent
    /\ jar.access # None
    /\ Goes(r, "mfa", jar.access, None)
    /\ UNCHANGED <<now, revoked, familyVars, jar, history>>

MfaLookup(r) ==
    /\ pc[r] = "mfa"
    /\ IF Valid(access[r]) /\ Active THEN Goes(r, "totp", None, None) ELSE Refused(r)
    /\ UNCHANGED <<now, revoked, familyVars, jar, history>>

CodeRight(r) ==
    /\ pc[r] = "totp"
    /\ Goes(r, "access", AccessToken(now), None)
    /\ totpAt' = now
    /\ UNCHANGED <<now, revoked, familyVars, jar, unproved, late, hurt, replayed, out>>

CodeWrong(r) ==
    /\ pc[r] = "totp"
    /\ Refused(r)
    /\ UNCHANGED <<now, revoked, familyVars, jar, history>>

-----------------------------------------------------------------------------
(* /refresh: the refresh token is exchanged before the row is read.         *)

(* Another request of the browser is exchanging a token of this family, or   *)
(* its answer has not arrived.                                              *)
Overlaps(r, f) ==
    \E s \in Requests \ {r} : refresh[s] # None /\ refresh[s].family = f

SendRefresh(r) ==
    /\ pc[r] = "idle"
    /\ CsrfPresent
    /\ jar.refresh # None
    /\ Goes(r, "refresh", None, jar.refresh)
    /\ hurt' = IF Overlaps(r, jar.refresh.family) THEN hurt \cup {jar.refresh.family} ELSE hurt
    /\ UNCHANGED <<now, revoked, familyVars, jar, totpAt, unproved, late, replayed, out>>

(* WATCH and HGETALL: what is read decides what the transaction will write.  *)
Watching == {"swapping", "revoking"}

ReadFamily(r) ==
    LET f == refresh[r].family IN
    /\ pc[r] = "refresh"
    /\ phase[f] = "open"
    /\ Goes(r, IF head[f] = refresh[r].token THEN "swapping" ELSE "revoking", None, refresh[r])
    /\ UNCHANGED <<now, revoked, familyVars, jar, history>>

RotateInvalid(r) ==
    /\ pc[r] = "refresh"
    /\ phase[refresh[r].family] = "closed"
    /\ Refused(r)
    /\ UNCHANGED <<now, revoked, familyVars, jar, history>>

(* Nothing has written the family since it was read: a token that was its     *)
(* head never comes back.                                                   *)
Unwritten(r) == phase[refresh[r].family] = "open" /\ head[refresh[r].family] = refresh[r].token

Rotate(r) ==
    LET f == refresh[r].family IN
    /\ pc[r] = "swapping"
    /\ Unwritten(r)
    /\ \E t \in Tokens :
          /\ TF!Exchange(f, t)
          /\ Goes(r, "rotated", None, [family |-> f, token |-> t])
    /\ UNCHANGED <<now, revoked, jar, history>>

(* A token that was not the head when it was read, or an EXEC that met any    *)
(* other write, a sign-out's and an expiry's too: each is answered           *)
(* refresh_replay, and what is left of the family is revoked.                *)
RotateReplayed(r) ==
    LET f == refresh[r].family IN
    /\ pc[r] \in Watching
    /\ pc[r] = "swapping" => ~Unwritten(r)
    /\ IF phase[f] = "open" THEN TF!Close({f}) ELSE UNCHANGED familyVars
    /\ Refused(r)
    /\ replayed' = replayed \cup {f}
    /\ UNCHANGED <<now, revoked, jar, totpAt, unproved, late, hurt, out>>

(* Variants: the row is not read; the MFA of the session is carried over.    *)
RefreshWithoutLookup(r) ==
    /\ pc[r] = "rotated"
    /\ Goes(r, "tokens", AccessToken(Never), refresh[r])
    /\ UNCHANGED <<now, revoked, familyVars, jar, history>>

RefreshCarriesMfa(r) ==
    /\ pc[r] = "rotated"
    /\ Active
    /\ Goes(r, "tokens", AccessToken(IF totpAt = Never THEN Never ELSE now), refresh[r])
    /\ UNCHANGED <<now, revoked, familyVars, jar, history>>

RefreshLookup(r) ==
    /\ pc[r] = "rotated"
    /\ Active
    /\ Goes(r, "tokens", AccessToken(Never), refresh[r])
    /\ UNCHANGED <<now, revoked, familyVars, jar, history>>

(* The account is revoked or Postgres fails: the browser keeps a token that  *)
(* has been exchanged.                                                      *)
RefreshLookupFails(r) ==
    /\ pc[r] = "rotated"
    /\ Refused(r)
    /\ hurt' = hurt \cup {refresh[r].family}
    /\ UNCHANGED <<now, revoked, familyVars, jar, totpAt, unproved, late, replayed, out>>

-----------------------------------------------------------------------------
(* /logout closes the family of the cookie and clears the jar. Redis may     *)
(* fail: then neither happens.                                              *)

SendLogout(r) ==
    /\ pc[r] = "idle"
    /\ CsrfPresent
    /\ Goes(r, "logout", None, jar.refresh)
    /\ UNCHANGED <<now, revoked, familyVars, jar, history>>

(* The key is gone, under whatever exchange has read it.                     *)
Ends(f) ==
    /\ TF!Close({f})
    /\ hurt' = IF \E s \in Requests : pc[s] \in Watching /\ refresh[s].family = f
               THEN hurt \cup {f} ELSE hurt

(* Variant: the cookies are cleared and the family is left open.             *)
LogoutKeepsFamily(r) ==
    /\ pc[r] = "logout"
    /\ Goes(r, "clear", None, refresh[r])
    /\ UNCHANGED <<now, revoked, familyVars, jar, history>>

Logout(r) ==
    /\ pc[r] = "logout"
    /\ Goes(r, "clear", None, refresh[r])
    /\ IF refresh[r] # None /\ phase[refresh[r].family] = "open"
       THEN Ends(refresh[r].family) ELSE UNCHANGED <<familyVars, hurt>>
    /\ UNCHANGED <<now, revoked, jar, totpAt, unproved, late, replayed, out>>

LogoutFails(r) ==
    /\ pc[r] = "logout" /\ refresh[r] # None
    /\ Refused(r)
    /\ UNCHANGED <<now, revoked, familyVars, jar, history>>

-----------------------------------------------------------------------------
(* The browser                                                              *)

(* Variant: a refresh sets the access cookie only.                           *)
NewJarKeepsRefresh(r) ==
    CASE pc[r] = "tokens" -> [access |-> access[r], csrf |-> TRUE,
                              refresh |-> IF jar.refresh = None THEN refresh[r] ELSE jar.refresh]
      [] pc[r] = "access" -> [jar EXCEPT !.access = access[r]]
      [] pc[r] = "clear"  -> EmptyJar

NewJar(r) ==
    CASE pc[r] = "tokens" -> [access |-> access[r], refresh |-> refresh[r], csrf |-> TRUE]
      [] pc[r] = "access" -> [jar EXCEPT !.access = access[r]]
      [] pc[r] = "clear"  -> EmptyJar

Deliver(r) ==
    /\ pc[r] \in {"tokens", "access", "clear"}
    /\ jar' = NewJar(r)
    /\ Goes(r, "idle", None, None)
    /\ out' = IF pc[r] = "clear" /\ refresh[r] # None /\ \A s \in Requests \ {r} : pc[s] = "idle"
              THEN refresh[r].family ELSE out
    /\ UNCHANGED <<now, revoked, familyVars, totpAt, unproved, late, hurt, replayed>>

(* The request or its answer is lost, at any point: of an exchange that was   *)
(* made the browser does not learn.                                         *)
Lost(r) ==
    /\ pc[r] # "idle"
    /\ Goes(r, "idle", None, None)
    /\ hurt' = IF pc[r] = "rotated" \/ pc[r] = "tokens" THEN hurt \cup {refresh[r].family} ELSE hurt
    /\ UNCHANGED <<now, revoked, familyVars, jar, totpAt, unproved, late, replayed, out>>

(* require_admin, require_super_admin, require_mfa_fresh.                   *)
MayMutate(token) == Valid(token) /\ MfaFresh(token)

Mutate ==
    /\ MayMutate(jar.access)
    /\ unproved' = (unproved \/ totpAt = Never \/ now - totpAt >= Freshness)
    /\ UNCHANGED <<now, revoked, familyVars, jar, slot, totpAt, late, hurt, replayed, out>>

(* Another super-admin revokes this one.                                    *)
RevokeUser ==
    /\ Active
    /\ revoked' = now
    /\ late' = \E r \in Requests : pc[r] \in {"issue", "totp"}
    /\ UNCHANGED <<now, familyVars, jar, slot, totpAt, unproved, hurt, replayed, out>>

ExpireFamily ==
    /\ \E f \in Families : Ends(f)
    /\ UNCHANGED <<now, revoked, jar, slot, totpAt, unproved, late, replayed, out>>

(* The access cookie lives as long as its token.                            *)
Tick ==
    /\ now < MaxTime
    /\ now' = now + 1
    /\ jar' = IF jar.access # None /\ jar.access.exp <= now' THEN [jar EXCEPT !.access = None] ELSE jar
    /\ UNCHANGED <<revoked, familyVars, slot, history>>

Serve(r) ==
    \/ LoginLookup(r) \/ LoginIssue(r)
    \/ MfaLookup(r) \/ CodeRight(r) \/ CodeWrong(r)
    \/ ReadFamily(r) \/ Rotate(r) \/ RotateReplayed(r) \/ RotateInvalid(r)
    \/ RefreshLookup(r) \/ RefreshLookupFails(r)
    \/ Logout(r) \/ LogoutFails(r)

Next ==
    \/ Tick \/ ExpireFamily \/ RevokeUser \/ Mutate
    \/ \E r \in Requests :
          \/ SendLogin(r) \/ SendMfa(r) \/ SendRefresh(r) \/ SendLogout(r)
          \/ Serve(r) \/ Deliver(r) \/ Lost(r)

Spec == Init /\ [][Next]_vars

-----------------------------------------------------------------------------
(* Properties *)

TypeOK ==
    /\ now \in 0..MaxTime /\ revoked \in -1..MaxTime /\ totpAt \in -1..MaxTime
    /\ phase \in [Families -> {"unborn", "open", "closed"}]
    /\ head \in [Families -> Tokens \cup {None}] /\ used \subseteq Tokens
    /\ jar \in [access : AccessTokens \cup {None}, refresh : RefreshTokens \cup {None}, csrf : BOOLEAN]
    /\ access \in [Requests -> AccessTokens \cup {None}]
    /\ refresh \in [Requests -> RefreshTokens \cup {None}]
    /\ hurt \subseteq Families /\ replayed \subseteq Families
    /\ out \in Families \cup {None}

(* However logins, refreshes and late answers interleave, every mutation     *)
(* happens less than Freshness after a code was checked: no refresh or login *)
(* carries an MFA over (decision D7 of the refresh route).                  *)
MutationIsProved == ~unproved

(* "The old access token still works until its TTL expires" (refresh route), *)
(* and nothing longer: a revoked admin never holds a token that outlives the *)
(* revocation by more than a token's life, unless a login or a code was      *)
(* being checked when the row was revoked.                                  *)
RevocationBites ==
    ~Active /\ ~late =>
        \A token \in {jar.access} \cup {access[r] : r \in Requests} :
            token # None => token.exp <= revoked + AccessTTL

(* The browser is told that its token was replayed only after two of its      *)
(* refreshes overlapped, an answer was lost, or the row could not be read    *)
(* after an exchange; or else, though no token was used twice, because a     *)
(* sign-out or the key's expiry fell between the WATCH and the EXEC of one.  *)
NoFalseReplay == replayed \subseteq hurt

(* A sign-out that no other request overlaps leaves no cookie and no family  *)
(* to refresh from, until the next login.                                   *)
SignOutIsFinal ==
    out # None => jar = EmptyJar /\ phase[out] = "closed"

=============================================================================
