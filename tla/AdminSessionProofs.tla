------------------------- MODULE AdminSessionProofs -------------------------
(***************************************************************************)
(* Proofs about the session routes, for any number of overlapping requests,  *)
(* logins and tokens and any lifetimes: what an access token proves, what a  *)
(* revocation leaves, what a sign-out leaves, and whom a replay accuses.     *)
(***************************************************************************)
EXTENDS AdminSession, TLAPS

(* Where a request has a token to exchange, and where it holds one.          *)
Asking == {"refresh", "swapping", "revoking"}
Holding == Asking \cup {"rotated", "tokens"}
Points == Holding \cup {"idle", "login", "issue", "mfa", "totp", "logout", "access", "clear"}

(* Every access token there is: in the jar, sent, or on its way.             *)
Held == {jar.access} \cup {access[r] : r \in Requests}

(* An MFA stamp is no later than the last code that was right.               *)
ProofInv ==
    /\ totpAt <= now
    /\ \A token \in Held : token # None /\ token.mfa # Never =>
          totpAt # Never /\ token.mfa <= totpAt
    /\ ~unproved

(* No token outlives the row by more than its own life, and once the row is  *)
(* revoked nothing that was looked up before is left to be issued.          *)
LifeInv ==
    /\ revoked <= now
    /\ Active => \A token \in Held : token # None => token.exp <= now + AccessTTL
    /\ ~Active /\ ~late =>
          /\ \A token \in Held : token # None => token.exp <= revoked + AccessTTL
          /\ \A r \in Requests : pc[r] \notin {"issue", "totp"}

(* Request r holds what is, or will be, the browser's token of family f.     *)
Carries(r, f) == pc[r] \in Holding /\ refresh[r].family = f

(* Tokens are of families that were opened.                                 *)
BornInv ==
    /\ \A r \in Requests : refresh[r] # None => phase[refresh[r].family] # "unborn"
    /\ jar.refresh # None => phase[jar.refresh.family] # "unborn"

(* In an open family nothing has happened to, one holder has the head.       *)
OneHolder(f) ==
    /\ \A r \in Requests : Carries(r, f) => refresh[r].token = head[f]
    /\ \A r, s \in Requests : Carries(r, f) /\ Carries(s, f) => r = s
    /\ (\A r \in Requests : Carries(r, f) => pc[r] \in Asking) /\ jar.refresh # None /\ jar.refresh.family = f =>
          jar.refresh.token = head[f]

(* A request that read another head, or whose family ended before its EXEC,  *)
(* is of a family that was hurt.                                            *)
Excused(r) ==
    /\ pc[r] = "revoking" => refresh[r].family \in hurt
    /\ pc[r] = "swapping" /\ phase[refresh[r].family] = "closed" =>
          refresh[r].family \in hurt

HolderInv ==
    /\ \A f \in Families : f \notin hurt /\ phase[f] = "open" => OneHolder(f)
    /\ \A r \in Requests : Excused(r)
    /\ NoFalseReplay

(* A sign-out on its way has closed its family; one that arrived alone left  *)
(* nothing that could bring a cookie back.                                  *)
GoneInv ==
    /\ \A r \in Requests : pc[r] = "clear" /\ refresh[r] # None => phase[refresh[r].family] = "closed"
    /\ out # None => \A r \in Requests : pc[r] = "idle"
    /\ SignOutIsFinal

RequestStep(r) ==
    \/ SendLogin(r) \/ SendMfa(r) \/ SendRefresh(r) \/ SendLogout(r)
    \/ Serve(r) \/ Deliver(r) \/ Lost(r)

(* Types, and that a token under exchange is one.                           *)
Typed ==
    /\ TypeOK
    /\ pc \in [Requests -> Points]
    /\ \A r \in Requests : pc[r] \in Holding => refresh[r] # None

SessionInv == Typed /\ ProofInv /\ LifeInv /\ BornInv /\ HolderInv /\ GoneInv

-----------------------------------------------------------------------------
(* Types                                                                    *)

LEMMA GoesMoves ==
    ASSUME Typed, NEW r \in Requests, NEW to, NEW a, NEW t, Goes(r, to, a, t)
    PROVE  /\ pc'[r] = to /\ access'[r] = a /\ refresh'[r] = t
           /\ \A s \in Requests \ {r} : pc'[s] = pc[s] /\ access'[s] = access[s] /\ refresh'[s] = refresh[s]
           /\ to \in Points => pc' \in [Requests -> Points]
           /\ a \in AccessTokens \cup {None} => access' \in [Requests -> AccessTokens \cup {None}]
           /\ t \in RefreshTokens \cup {None} => refresh' \in [Requests -> RefreshTokens \cup {None}]
BY DEF Goes, Typed, TypeOK

LEMMA NewTokens ==
    ASSUME Typed
    PROVE  /\ AccessToken(Never) \in AccessTokens /\ AccessToken(now) \in AccessTokens
           /\ \A f \in Families, t \in Tokens : [family |-> f, token |-> t] \in RefreshTokens \ {None}
BY ConstantsAssumption DEF Typed, TypeOK, AccessToken, AccessTokens, RefreshTokens, Never

(* Requests keep their types when one of them moves to a point.              *)
LEMMA SlotTyped ==
    ASSUME Typed, NEW r \in Requests, NEW to \in Points, NEW a \in AccessTokens \cup {None},
           NEW t \in RefreshTokens \cup {None}, Goes(r, to, a, t),
           to \in Holding => t # None
    PROVE  /\ pc' \in [Requests -> Points]
           /\ access' \in [Requests -> AccessTokens \cup {None}]
           /\ refresh' \in [Requests -> RefreshTokens \cup {None}]
           /\ \A s \in Requests : pc'[s] \in Holding => refresh'[s] # None
BY GoesMoves DEF Typed

(* What a step does to the families keeps their types.                       *)
LEMMA FamiliesTyped ==
    ASSUME Typed,
           \/ UNCHANGED familyVars
           \/ \E f \in Families, t \in Tokens : TF!Open(f, t) \/ TF!Exchange(f, t)
           \/ \E S : TF!Close(S)
    PROVE  /\ phase' \in [Families -> {"unborn", "open", "closed"}]
           /\ head' \in [Families -> Tokens \cup {None}] /\ used' \subseteq Tokens
BY DEF Typed, TypeOK, familyVars, TF!Open, TF!Exchange, TF!Close

(* The same for the requests and what the browser is told, when a request    *)
(* moves.                                                                   *)
LEMMA MovesTyped ==
    ASSUME Typed, NEW r \in Requests, RequestStep(r)
    PROVE  /\ pc' \in [Requests -> Points]
           /\ access' \in [Requests -> AccessTokens \cup {None}]
           /\ refresh' \in [Requests -> RefreshTokens \cup {None}]
           /\ \A s \in Requests : pc'[s] \in Holding => refresh'[s] # None
<1>0. /\ access[r] \in AccessTokens \cup {None} /\ refresh[r] \in RefreshTokens \cup {None}
      /\ jar.access \in AccessTokens \cup {None} /\ jar.refresh \in RefreshTokens \cup {None}
      /\ pc[r] \in Holding => refresh[r] # None /\ refresh[r].family \in Families
  BY DEF Typed, TypeOK, RefreshTokens
<1> USE NewTokens, SlotTyped DEF Points, Holding, Asking
<1>1. CASE SendLogin(r)
  BY <1>1, <1>0 DEF SendLogin
<1>2. CASE SendMfa(r)
  BY <1>2, <1>0 DEF SendMfa
<1>3. CASE SendRefresh(r)
  BY <1>3, <1>0 DEF SendRefresh
<1>4. CASE SendLogout(r)
  BY <1>4, <1>0 DEF SendLogout
<1>5. CASE LoginLookup(r)
  BY <1>5, <1>0 DEF LoginLookup, Refused
<1>6. CASE LoginIssue(r)
  BY <1>6, <1>0 DEF LoginIssue
<1>7. CASE MfaLookup(r)
  BY <1>7, <1>0 DEF MfaLookup, Refused
<1>8. CASE CodeRight(r)
  BY <1>8, <1>0 DEF CodeRight
<1>9. CASE Rotate(r)
  <2>1. PICK t \in Tokens : Goes(r, "rotated", None, [family |-> refresh[r].family, token |-> t])
    BY <1>9 DEF Rotate
  <2> QED BY <2>1, <1>9, <1>0 DEF Rotate
<1>10. CASE RefreshLookup(r)
  BY <1>10, <1>0 DEF RefreshLookup
<1>11. CASE Logout(r)
  BY <1>11, <1>0 DEF Logout
<1>12. CASE CodeWrong(r) \/ RotateReplayed(r) \/ RotateInvalid(r) \/ RefreshLookupFails(r) \/ LogoutFails(r)
  BY <1>12, <1>0 DEF CodeWrong, RotateReplayed, RotateInvalid, RefreshLookupFails, LogoutFails, Refused
<1>13. CASE Deliver(r) \/ Lost(r)
  BY <1>13, <1>0 DEF Deliver, Lost
<1>14. CASE ReadFamily(r)
  BY <1>14, <1>0 DEF ReadFamily
<1> QED BY <1>1, <1>2, <1>3, <1>4, <1>5, <1>6, <1>7, <1>8, <1>9, <1>10, <1>11, <1>12, <1>13, <1>14 DEF Serve, RequestStep

(* Every step of a request changes the families as TokenFamily does, or not. *)
LEMMA RequestsUseFamilies ==
    ASSUME Typed, NEW r \in Requests, RequestStep(r)
    PROVE  \/ UNCHANGED familyVars
           \/ \E f \in Families, t \in Tokens : TF!Open(f, t) \/ TF!Exchange(f, t)
           \/ \E S : TF!Close(S)
<1>1. CASE LoginIssue(r)
  BY <1>1 DEF LoginIssue
<1>2. CASE Rotate(r)
  <2>1. refresh[r].family \in Families
    BY <1>2 DEF Rotate, Typed, TypeOK, RefreshTokens, Holding, Asking
  <2> QED BY <1>2, <2>1 DEF Rotate
<1>3. CASE RotateReplayed(r)
  BY <1>3 DEF RotateReplayed
<1>4. CASE Logout(r)
  BY <1>4 DEF Logout, Ends
<1>5. CASE SendLogin(r) \/ SendMfa(r) \/ SendRefresh(r) \/ SendLogout(r) \/ Deliver(r) \/ Lost(r)
  BY <1>5 DEF SendLogin, SendMfa, SendRefresh, SendLogout, Deliver, Lost
<1>6. CASE LoginLookup(r) \/ MfaLookup(r) \/ CodeRight(r) \/ CodeWrong(r) \/ ReadFamily(r) \/ RotateInvalid(r)
           \/ RefreshLookup(r) \/ RefreshLookupFails(r) \/ LogoutFails(r)
  BY <1>6 DEF LoginLookup, MfaLookup, CodeRight, CodeWrong, ReadFamily, RotateInvalid, RefreshLookup,
              RefreshLookupFails, LogoutFails
<1> QED BY <1>1, <1>2, <1>3, <1>4, <1>5, <1>6 DEF Serve, RequestStep

(* The clock, the row and the history keep theirs.                           *)
LEMMA FrameTyped ==
    ASSUME Typed, NEW r \in Requests, RequestStep(r)
    PROVE  /\ now' = now /\ revoked' = revoked /\ (totpAt' = totpAt \/ totpAt' = now)
           /\ hurt' \subseteq Families /\ replayed' \subseteq Families
           /\ out' \in Families \cup {None}
           /\ jar' \in [access : AccessTokens \cup {None}, refresh : RefreshTokens \cup {None}, csrf : BOOLEAN]
<1>0. /\ access[r] \in AccessTokens \cup {None} /\ refresh[r] \in RefreshTokens \cup {None}
      /\ jar \in [access : AccessTokens \cup {None}, refresh : RefreshTokens \cup {None}, csrf : BOOLEAN]
      /\ refresh[r] # None => refresh[r].family \in Families
      /\ jar.refresh # None => jar.refresh.family \in Families
      /\ hurt \subseteq Families /\ replayed \subseteq Families
      /\ out \in Families \cup {None}
      /\ pc[r] \in Holding => refresh[r] # None
  BY DEF Typed, TypeOK, RefreshTokens
<1> USE DEF history, Watching, Holding, Asking
<1>1. CASE SendRefresh(r)
  BY <1>1, <1>0 DEF SendRefresh
<1>2. CASE RotateReplayed(r)
  BY <1>2, <1>0 DEF RotateReplayed
<1>3. CASE RefreshLookupFails(r) \/ Lost(r)
  BY <1>3, <1>0 DEF RefreshLookupFails, Lost
<1>4. CASE Deliver(r)
  BY <1>4, <1>0 DEF Deliver, NewJar, EmptyJar
<1>5. CASE SendLogin(r) \/ SendMfa(r) \/ SendLogout(r) \/ LoginLookup(r) \/ MfaLookup(r) \/ CodeRight(r)
  BY <1>5, <1>0 DEF SendLogin, SendMfa, SendLogout, LoginLookup, MfaLookup, CodeRight
<1>6. CASE \/ LoginIssue(r) \/ CodeWrong(r) \/ ReadFamily(r) \/ Rotate(r) \/ RotateInvalid(r)
           \/ RefreshLookup(r) \/ LogoutFails(r)
  BY <1>6, <1>0 DEF LoginIssue, CodeWrong, ReadFamily, Rotate, RotateInvalid, RefreshLookup, LogoutFails
<1>7. CASE Logout(r)
  BY <1>7, <1>0 DEF Logout, Ends
<1> QED BY <1>1, <1>2, <1>3, <1>4, <1>5, <1>6, <1>7 DEF Serve, RequestStep

LEMMA TypedStep == Typed /\ [Next]_vars => Typed'
<1> SUFFICES ASSUME Typed, [Next]_vars PROVE Typed'
  OBVIOUS
<1> USE DEF history, familyVars, slot
<1>0. /\ now \in 0..MaxTime /\ now \in Int /\ Never = -1 /\ MaxTime \in Nat
      /\ jar \in [access : AccessTokens \cup {None}, refresh : RefreshTokens \cup {None}, csrf : BOOLEAN]
  BY ConstantsAssumption DEF Typed, TypeOK, Never
<1>1. CASE Tick
  <2>1. now' \in 0..MaxTime
    BY <1>0, <1>1 DEF Tick
  <2>2. jar' \in [access : AccessTokens \cup {None}, refresh : RefreshTokens \cup {None}, csrf : BOOLEAN]
    BY <1>0, <1>1 DEF Tick
  <2> QED BY <2>1, <2>2, <1>1 DEF Tick, Typed, TypeOK
<1>2. CASE ExpireFamily
  <2>1. PICK f \in Families : Ends(f)
    BY <1>2 DEF ExpireFamily
  <2>2. (\E S : TF!Close(S)) /\ hurt' \subseteq Families
    BY <2>1 DEF Ends, Typed, TypeOK
  <2> QED BY <1>2, <2>2, FamiliesTyped DEF ExpireFamily, Typed, TypeOK
<1>3. CASE RevokeUser
  BY <1>3, <1>0 DEF RevokeUser, Typed, TypeOK
<1>4. CASE Mutate
  BY <1>4 DEF Mutate, Typed, TypeOK
<1>5. ASSUME NEW r \in Requests, RequestStep(r)
      PROVE  Typed'
  <2>1. totpAt' \in -1..MaxTime /\ now' \in 0..MaxTime /\ revoked' \in -1..MaxTime
    BY <1>0, <1>5, FrameTyped DEF Typed, TypeOK
  <2>2. /\ phase' \in [Families -> {"unborn", "open", "closed"}]
        /\ head' \in [Families -> Tokens \cup {None}] /\ used' \subseteq Tokens
    BY <1>5, RequestsUseFamilies, FamiliesTyped
  <2> QED BY <2>1, <2>2, <1>5, MovesTyped, FrameTyped DEF Typed, TypeOK
<1>6. CASE UNCHANGED vars
  BY <1>6 DEF vars, Typed, TypeOK
<1> QED BY <1>1, <1>2, <1>3, <1>4, <1>5, <1>6 DEF Next, RequestStep

-----------------------------------------------------------------------------
(* Access tokens                                                            *)

(* Where a request's next access token can come from.                        *)
LEMMA AccessMoves ==
    ASSUME Typed, NEW r \in Requests, RequestStep(r)
    PROVE  /\ \A s \in Requests \ {r} : pc'[s] = pc[s] /\ access'[s] = access[s]
           /\ \/ access'[r] \in Held \cup {None} /\ pc'[r] # "issue"
              \/ access'[r] = None /\ Active
              \/ access'[r] \in Held /\ Active
              \/ pc[r] = "issue" /\ access'[r] = AccessToken(Never) /\ pc'[r] = "tokens"
              \/ pc[r] = "rotated" /\ Active /\ access'[r] = AccessToken(Never) /\ pc'[r] = "tokens"
              \/ pc[r] = "totp" /\ totpAt' = now /\ access'[r] = AccessToken(now) /\ pc'[r] = "access"
           /\ pc'[r] = "totp" => Active
           /\ jar'.access \in Held \cup {None}
           /\ totpAt' = totpAt \/ (pc[r] = "totp" /\ totpAt' = now)
           /\ now' = now /\ revoked' = revoked /\ late' = late /\ unproved' = unproved
<1>0. access[r] \in Held /\ jar.access \in Held
  BY DEF Held
<1> USE DEF history, Goes, Typed, TypeOK
<1>1. CASE SendLogin(r) \/ SendLogout(r)
  BY <1>1, <1>0 DEF SendLogin, SendLogout
<1>2. CASE SendMfa(r) \/ SendRefresh(r)
  BY <1>2, <1>0 DEF SendMfa, SendRefresh
<1>3. CASE LoginLookup(r) \/ MfaLookup(r)
  BY <1>3, <1>0 DEF LoginLookup, MfaLookup, Refused
<1>4. CASE LoginIssue(r)
  BY <1>4, <1>0 DEF LoginIssue
<1>5. CASE CodeRight(r)
  BY <1>5, <1>0 DEF CodeRight
<1>6. CASE Rotate(r)
  <2>1. PICK t \in Tokens : Goes(r, "rotated", None, [family |-> refresh[r].family, token |-> t])
    BY <1>6 DEF Rotate
  <2> QED BY <2>1, <1>6, <1>0 DEF Rotate
<1>7. CASE RefreshLookup(r) \/ Logout(r)
  BY <1>7, <1>0 DEF RefreshLookup, Logout
<1>8. CASE CodeWrong(r) \/ RotateReplayed(r) \/ RotateInvalid(r) \/ RefreshLookupFails(r) \/ LogoutFails(r)
  BY <1>8, <1>0 DEF CodeWrong, RotateReplayed, RotateInvalid, RefreshLookupFails, LogoutFails, Refused
<1>9. CASE Deliver(r)
  <2>1. jar' = NewJar(r) /\ pc[r] \in {"tokens", "access", "clear"}
    BY <1>9 DEF Deliver
  <2>2. jar'.access \in {access[r], None}
    BY <2>1 DEF NewJar, EmptyJar, Typed, TypeOK
  <2> QED BY <2>2, <1>9, <1>0 DEF Deliver
<1>10. CASE Lost(r)
  BY <1>10, <1>0 DEF Lost
<1>11. CASE ReadFamily(r)
  BY <1>11, <1>0 DEF ReadFamily
<1> QED BY <1>1, <1>2, <1>3, <1>4, <1>5, <1>6, <1>7, <1>8, <1>9, <1>10, <1>11 DEF Serve, RequestStep

(* The same of a step that is no request's.                                 *)
LEMMA OtherStepsIssueNothing ==
    ASSUME Typed, Tick \/ ExpireFamily \/ RevokeUser \/ Mutate \/ UNCHANGED vars
    PROVE  /\ UNCHANGED slot /\ totpAt' = totpAt
           /\ Held' \subseteq Held \cup {None}
           /\ refresh' = refresh /\ jar'.refresh = jar.refresh
           /\ hurt \subseteq hurt' /\ UNCHANGED <<replayed, out>>
<1> USE DEF Held, history, slot
<1>1. CASE Tick
  BY <1>1 DEF Tick, Typed, TypeOK
<1>2. CASE ExpireFamily \/ RevokeUser \/ Mutate \/ UNCHANGED vars
  BY <1>2 DEF Ends, ExpireFamily, RevokeUser, Mutate, vars
<1> QED BY <1>1, <1>2

LEMMA Clocks ==
    ASSUME Typed
    PROVE  /\ now \in Nat /\ totpAt \in Int /\ revoked \in Int /\ Never = -1
           /\ AccessTTL \in Nat /\ Freshness \in Nat
           /\ \A token \in Held : token # None => token \in AccessTokens /\ token.exp \in Int /\ token.mfa \in Int
           /\ AccessToken(Never).exp = now + AccessTTL /\ AccessToken(now).exp = now + AccessTTL
           /\ AccessToken(Never).mfa = Never /\ AccessToken(now).mfa = now
BY ConstantsAssumption DEF Typed, TypeOK, Never, Held, AccessTokens, AccessToken

LEMMA ProofStep ==
    ASSUME Typed, ProofInv, [Next]_vars
    PROVE  ProofInv'
<1> USE DEF ProofInv
<1>1. CASE Tick \/ ExpireFamily \/ RevokeUser \/ Mutate \/ UNCHANGED vars
  <2>1. totpAt' = totpAt /\ Held' \subseteq Held \cup {None}
    BY <1>1, OtherStepsIssueNothing
  <2>2. now' \in Nat /\ now' >= now
    <3>1. now' = now \/ now' = now + 1
      BY <1>1 DEF Tick, ExpireFamily, RevokeUser, Mutate, vars
    <3> QED BY <3>1, Clocks
  <2>3. ~unproved'
    <3>1. CASE Mutate
      <4>1. jar.access \in Held /\ jar.access # None
        BY <3>1 DEF Mutate, MayMutate, Valid, Held
      <4>2. totpAt # Never /\ jar.access.mfa <= totpAt /\ now - jar.access.mfa < Freshness
        BY <3>1, <4>1, Clocks DEF Mutate, MayMutate, MfaFresh
      <4>3. now - totpAt < Freshness
        BY <4>1, <4>2, Clocks
      <4>4. ~(totpAt = Never \/ now - totpAt >= Freshness)
        BY <4>2, <4>3, Clocks
      <4> QED BY <3>1, <4>4, Zenon DEF Mutate
    <3>2. CASE Tick \/ ExpireFamily \/ RevokeUser \/ UNCHANGED vars
      <4>1. unproved' = unproved
        BY <3>2, Zenon DEF Tick, ExpireFamily, RevokeUser, vars, history
      <4> QED BY <4>1
    <3> QED BY <1>1, <3>1, <3>2
  <2>4. totpAt' <= now'
    BY <2>1, <2>2, Clocks
  <2>5. \A token \in Held' : token # None /\ token.mfa # Never => totpAt' # Never /\ token.mfa <= totpAt'
    BY <2>1
  <2> QED BY <2>3, <2>4, <2>5 DEF Never
<1>2. ASSUME NEW r \in Requests, RequestStep(r)
      PROVE  ProofInv'
  <2>1. totpAt' \in {totpAt, now} /\ now' = now /\ unproved' = unproved
    BY <1>2, AccessMoves
  <2>2. ASSUME NEW token \in Held', token # None
        PROVE  \/ token \in Held
               \/ token = AccessToken(Never)
               \/ token = AccessToken(now) /\ totpAt' = now
    BY <1>2, <2>2, AccessMoves DEF Held
  <2>3. ASSUME NEW token \in Held', token # None, token.mfa # Never
        PROVE  totpAt' # Never /\ token.mfa <= totpAt'
    <3>1. CASE token \in Held
      BY <3>1, <2>1, <2>3, Clocks
    <3>2. CASE token = AccessToken(Never)
      BY <3>2, <2>3, Clocks
    <3>3. CASE token = AccessToken(now) /\ totpAt' = now
      BY <3>3, Clocks
    <3> QED BY <2>2, <2>3, <3>1, <3>2, <3>3
  <2> QED BY <2>1, <2>3, Clocks DEF Never
<1> QED BY <1>1, <1>2 DEF Next, RequestStep

LEMMA LifeStep ==
    ASSUME Typed, LifeInv, [Next]_vars
    PROVE  LifeInv'
<1> USE DEF LifeInv
<1>1. CASE Tick \/ ExpireFamily \/ Mutate \/ UNCHANGED vars
  <2>1. Held' \subseteq Held \cup {None} /\ pc' = pc
    BY <1>1, OtherStepsIssueNothing DEF slot
  <2>2. now' >= now /\ now' \in Nat /\ revoked' = revoked /\ late' = late
    BY <1>1, Clocks DEF Tick, ExpireFamily, Mutate, vars, history
  <2>3. Active' = Active
    BY <2>2 DEF Active, Never
  <2>4. \A token \in Held : token # None /\ token.exp <= now + AccessTTL => token.exp <= now' + AccessTTL
    BY <2>2, Clocks
  <2> QED BY <2>1, <2>2, <2>3, <2>4, Clocks
<1>2. CASE RevokeUser
  <2>1. Held' \subseteq Held \cup {None} /\ pc' = pc
    BY <1>2, OtherStepsIssueNothing DEF slot
  <2>2. Active /\ revoked' = now /\ now' = now /\ ~Active'
    BY <1>2, Clocks DEF RevokeUser, Active, Never
  <2>3. ~late' => \A r \in Requests : pc[r] \notin {"issue", "totp"}
    BY <1>2 DEF RevokeUser
  <2> QED BY <2>1, <2>2, <2>3, Clocks
<1>3. ASSUME NEW r \in Requests, RequestStep(r)
      PROVE  LifeInv'
  <2>1. now' = now /\ revoked' = revoked /\ late' = late /\ Active' = Active
    BY <1>3, AccessMoves DEF Active, Never
  <2>2. ASSUME NEW token \in Held', token # None
        PROVE  \/ token \in Held
               \/ token.exp = now + AccessTTL /\ (Active \/ pc[r] \in {"issue", "totp"})
    BY <1>3, <2>2, AccessMoves, Clocks DEF Held
  <2>3. \A s \in Requests : pc'[s] \in {"issue", "totp"} => Active \/ pc[s] \in {"issue", "totp"}
    BY <1>3, AccessMoves
  <2>4. CASE Active
    BY <2>1, <2>2, <2>4, Clocks
  <2>5. CASE ~Active
    BY <2>1, <2>2, <2>3, <2>5
  <2> QED BY <2>4, <2>5
<1> QED BY <1>1, <1>2, <1>3 DEF Next, RequestStep

-----------------------------------------------------------------------------
(* Refresh tokens                                                           *)

(* A family is opened once and stays closed.                                *)
LEMMA PhasesAdvance ==
    ASSUME Typed, [Next]_vars, NEW f \in Families
    PROVE  /\ phase[f] # "unborn" => phase'[f] # "unborn"
           /\ phase[f] = "closed" => phase'[f] = "closed"
<1>1. \/ UNCHANGED familyVars
      \/ \E g \in Families, t \in Tokens : TF!Open(g, t) \/ TF!Exchange(g, t)
      \/ \E S : TF!Close(S)
  <2>1. CASE Tick \/ RevokeUser \/ Mutate \/ UNCHANGED vars
    BY <2>1 DEF Tick, RevokeUser, Mutate, vars
  <2>2. CASE ExpireFamily
    BY <2>2 DEF ExpireFamily, Ends
  <2>3. CASE \E r \in Requests : RequestStep(r)
    BY <2>3, RequestsUseFamilies
  <2> QED BY <2>1, <2>2, <2>3 DEF Next, RequestStep
<1> QED BY <1>1 DEF TF!Open, TF!Exchange, TF!Close, familyVars, Typed, TypeOK

(* Where a request's next refresh token, and the jar's, can come from.       *)
LEMMA RefreshMoves ==
    ASSUME Typed, NEW r \in Requests, RequestStep(r)
    PROVE  /\ \A s \in Requests \ {r} : refresh'[s] = refresh[s]
           /\ \/ refresh'[r] \in {None, refresh[r], jar.refresh}
              \/ refresh'[r].family \in Families /\ phase'[refresh'[r].family] = "open"
           /\ jar'.refresh \in {None, jar.refresh, refresh[r]}
<1> USE DEF history, Goes, Typed, TypeOK
<1>1. CASE SendLogin(r) \/ SendMfa(r) \/ SendRefresh(r) \/ SendLogout(r)
  BY <1>1 DEF SendLogin, SendMfa, SendRefresh, SendLogout
<1>2. CASE LoginLookup(r) \/ MfaLookup(r) \/ CodeRight(r) \/ RefreshLookup(r) \/ Logout(r)
  BY <1>2 DEF LoginLookup, MfaLookup, CodeRight, RefreshLookup, Logout, Refused
<1>3. CASE LoginIssue(r)
  BY <1>3 DEF LoginIssue, TF!Open
<1>4. CASE Rotate(r)
  BY <1>4 DEF Rotate, TF!Exchange, RefreshTokens, Holding, Asking
<1>5. CASE CodeWrong(r) \/ RotateReplayed(r) \/ RotateInvalid(r) \/ RefreshLookupFails(r) \/ LogoutFails(r)
  BY <1>5 DEF CodeWrong, RotateReplayed, RotateInvalid, RefreshLookupFails, LogoutFails, Refused
<1>6. CASE Deliver(r)
  BY <1>6 DEF Deliver, NewJar, EmptyJar
<1>7. CASE Lost(r) \/ ReadFamily(r)
  BY <1>7 DEF Lost, ReadFamily
<1> QED BY <1>1, <1>2, <1>3, <1>4, <1>5, <1>6, <1>7 DEF Serve, RequestStep

LEMMA BornStep ==
    ASSUME Typed, BornInv, [Next]_vars
    PROVE  BornInv'
<1>0. /\ \A r \in Requests : refresh[r] # None => refresh[r].family \in Families
      /\ jar.refresh # None => jar.refresh.family \in Families
  BY DEF Typed, TypeOK, RefreshTokens
<1>1. CASE Tick \/ ExpireFamily \/ RevokeUser \/ Mutate \/ UNCHANGED vars
  <2>1. refresh' = refresh /\ jar'.refresh = jar.refresh
    BY <1>1, OtherStepsIssueNothing
  <2> QED BY <1>0, <2>1, PhasesAdvance DEF BornInv
<1>2. ASSUME NEW r \in Requests, RequestStep(r)
      PROVE  BornInv'
  BY <1>0, <1>2, RefreshMoves, PhasesAdvance DEF BornInv
<1> QED BY <1>1, <1>2 DEF Next, RequestStep

LEMMA GoneStep ==
    ASSUME Typed, BornInv, GoneInv, [Next]_vars
    PROVE  GoneInv'
<1>0. /\ \A r \in Requests : refresh[r] # None => refresh[r].family \in Families
      /\ out # None => out \in Families
      /\ jar.refresh # None => jar.refresh.family \in Families
  BY DEF Typed, TypeOK, RefreshTokens
<1>1. CASE Tick \/ ExpireFamily \/ RevokeUser \/ Mutate \/ UNCHANGED vars
  <2>1. refresh' = refresh /\ pc' = pc /\ out' = out
    BY <1>1, OtherStepsIssueNothing DEF slot
  <2>2. ASSUME out # None PROVE jar' = jar
    <3>1. jar.access = None
      BY <2>2 DEF GoneInv, SignOutIsFinal, EmptyJar
    <3> QED BY <1>1, <3>1 DEF Tick, ExpireFamily, RevokeUser, Mutate, vars
  <2> QED BY <1>0, <2>1, <2>2, PhasesAdvance DEF GoneInv, SignOutIsFinal, EmptyJar
<1>2. ASSUME NEW r \in Requests, RequestStep(r)
      PROVE  GoneInv'
  <2>1. ASSUME NEW s \in Requests, pc'[s] = "clear", refresh'[s] # None
        PROVE  phase'[refresh'[s].family] = "closed"
    <3>1. CASE s # r
      BY <1>0, <1>2, <2>1, <3>1, AccessMoves, RefreshMoves, PhasesAdvance DEF GoneInv
    <3>2. CASE s = r
      <4>1. Logout(r)
        <5> USE <2>1, <3>2 DEF Goes, Typed, TypeOK, Refused
        <5>1. ~SendLogin(r) /\ ~SendMfa(r) /\ ~SendRefresh(r) /\ ~SendLogout(r)
          BY DEF SendLogin, SendMfa, SendRefresh, SendLogout
        <5>2. ~LoginLookup(r) /\ ~LoginIssue(r) /\ ~MfaLookup(r) /\ ~CodeRight(r) /\ ~CodeWrong(r)
          BY DEF LoginLookup, LoginIssue, MfaLookup, CodeRight, CodeWrong
        <5>3. /\ ~ReadFamily(r) /\ ~Rotate(r) /\ ~RotateReplayed(r) /\ ~RotateInvalid(r)
              /\ ~RefreshLookup(r) /\ ~RefreshLookupFails(r)
          BY DEF ReadFamily, Rotate, RotateReplayed, RotateInvalid, RefreshLookup, RefreshLookupFails
        <5>4. ~LogoutFails(r) /\ ~Deliver(r) /\ ~Lost(r)
          BY DEF LogoutFails, Deliver, Lost
        <5> QED BY <1>2, <5>1, <5>2, <5>3, <5>4 DEF RequestStep, Serve
      <4>2. refresh'[r] = refresh[r] /\ refresh[r].family \in Families /\ phase[refresh[r].family] # "unborn"
        BY <1>0, <2>1, <3>2, <4>1, GoesMoves DEF Logout, BornInv
      <4>3. CASE phase[refresh[r].family] = "open"
        BY <2>1, <3>2, <4>1, <4>2, <4>3 DEF Logout, Ends, TF!Close
      <4>4. CASE phase[refresh[r].family] = "closed"
        BY <1>2, <3>2, <4>2, <4>4, PhasesAdvance
      <4> QED BY <4>2, <4>3, <4>4 DEF Typed, TypeOK
    <3> QED BY <3>1, <3>2
  <2>2. CASE out # None
    <3>1. SendLogin(r)
      <4>1. pc[r] = "idle" /\ ~CsrfPresent
        BY <2>2 DEF GoneInv, SignOutIsFinal, EmptyJar, CsrfPresent
      <4>2. ~SendMfa(r) /\ ~SendRefresh(r) /\ ~SendLogout(r)
        BY <4>1 DEF SendMfa, SendRefresh, SendLogout
      <4>3. ~Serve(r) /\ ~Deliver(r) /\ ~Lost(r)
        BY <4>1 DEF Serve, LoginLookup, LoginIssue, MfaLookup, CodeRight, CodeWrong, ReadFamily, Rotate,
                    RotateReplayed, Watching, RotateInvalid, RefreshLookup, RefreshLookupFails, Logout, LogoutFails, Deliver, Lost
      <4> QED BY <1>2, <4>2, <4>3 DEF RequestStep
    <3> QED BY <2>1, <3>1 DEF SendLogin, GoneInv, SignOutIsFinal
  <2>3. CASE out = None /\ Deliver(r)
    <3>1. ASSUME out' # None
          PROVE  /\ \A s \in Requests : pc'[s] = "idle"
                 /\ jar' = EmptyJar /\ phase'[out'] = "closed"
      <4>1. /\ pc[r] = "clear" /\ refresh[r] # None /\ \A s \in Requests \ {r} : pc[s] = "idle"
            /\ out' = refresh[r].family
        BY <2>3, <3>1 DEF Deliver
      <4>2. \A s \in Requests : pc'[s] = "idle"
        BY <2>3, <4>1, GoesMoves DEF Deliver
      <4>3. jar' = EmptyJar
        BY <2>3, <4>1 DEF Deliver, NewJar
      <4>4. phase'[out'] = "closed"
        BY <2>3, <4>1 DEF Deliver, GoneInv, familyVars
      <4> QED BY <4>2, <4>3, <4>4
    <3> QED BY <2>1, <3>1 DEF GoneInv, SignOutIsFinal, EmptyJar
  <2>4. CASE out = None /\ ~Deliver(r)
    <3>1. out' = None
      BY <1>2, <2>4 DEF RequestStep, Serve, SendLogin, SendMfa, SendRefresh, SendLogout, LoginLookup, LoginIssue,
               MfaLookup, CodeRight, CodeWrong, ReadFamily, Rotate, RotateReplayed, RotateInvalid, RefreshLookup,
               RefreshLookupFails, Logout, LogoutFails, Lost, history
    <3> QED BY <2>1, <3>1 DEF GoneInv, SignOutIsFinal
  <2> QED BY <2>2, <2>3, <2>4
<1> QED BY <1>1, <1>2 DEF Next, RequestStep

(* A step after which r carries no token of f, and either carried none or    *)
(* has hurt f, leaves f as it was.                                          *)
LEMMA StillHeld ==
    ASSUME Typed, NEW r \in Requests, NEW f \in Families, OneHolder(f), RequestStep(r),
           ~Carries(r, f), ~Carries(r, f)', head'[f] = head[f], jar'.refresh \in {jar.refresh, None}
    PROVE  OneHolder(f)'
<1>1. \A s \in Requests \ {r} : refresh'[s] = refresh[s] /\ pc'[s] = pc[s]
  BY AccessMoves, RefreshMoves
<1>2. \A s \in Requests : Carries(s, f)' <=> Carries(s, f)
  BY <1>1 DEF Carries
<1> QED BY <1>1, <1>2 DEF OneHolder

(* The same of a step after which the same requests hold the same tokens.     *)
LEMMA SameHolders ==
    ASSUME NEW f \in Families, OneHolder(f), head' = head, jar' = jar,
           \A s \in Requests : /\ refresh'[s] = refresh[s]
                               /\ pc'[s] \in Holding <=> pc[s] \in Holding
                               /\ pc'[s] \in Asking <=> pc[s] \in Asking
    PROVE  OneHolder(f)'
BY DEF OneHolder, Carries

LEMMA HolderRequestStep ==
    ASSUME Typed, BornInv, HolderInv, NEW r \in Requests, RequestStep(r),
           NEW f \in Families, f \notin hurt', phase'[f] = "open"
    PROVE  OneHolder(f)'
<1>0. /\ \A s \in Requests \ {r} : refresh'[s] = refresh[s] /\ pc'[s] = pc[s]
      /\ \A s \in Requests \ {r} : Carries(s, f)' <=> Carries(s, f)
  BY AccessMoves, RefreshMoves DEF Carries
<1> USE DEF Holding, Asking
<1>1. CASE SendLogin(r) \/ SendMfa(r) \/ SendLogout(r)
  <2>1. f \notin hurt /\ phase[f] = "open" /\ head'[f] = head[f] /\ jar' = jar /\ ~Carries(r, f)
    BY <1>1 DEF SendLogin, SendMfa, SendLogout, history, familyVars, Carries
  <2>2. ~Carries(r, f)'
    BY <1>1 DEF SendLogin, SendMfa, SendLogout, Goes, Typed, TypeOK, Carries
  <2> QED BY <2>1, <2>2, StillHeld DEF HolderInv
<1>2. CASE LoginLookup(r) \/ MfaLookup(r) \/ CodeRight(r) \/ CodeWrong(r) \/ LogoutFails(r)
  <2>1. f \notin hurt /\ phase[f] = "open" /\ head'[f] = head[f] /\ jar' = jar /\ ~Carries(r, f)
    BY <1>2 DEF LoginLookup, MfaLookup, CodeRight, CodeWrong, LogoutFails, history, familyVars, Carries
  <2>2. ~Carries(r, f)'
    BY <1>2 DEF LoginLookup, MfaLookup, CodeRight, CodeWrong, LogoutFails, Refused, Goes, Typed, TypeOK, Carries
  <2> QED BY <2>1, <2>2, StillHeld DEF HolderInv
<1>3. CASE Logout(r)
  <2>1. f \notin hurt /\ phase[f] = "open" /\ head'[f] = head[f] /\ jar' = jar /\ ~Carries(r, f)
    BY <1>3 DEF Logout, Ends, TF!Close, familyVars, Carries
  <2>2. ~Carries(r, f)'
    BY <1>3 DEF Logout, Goes, Typed, TypeOK, Carries
  <2> QED BY <2>1, <2>2, StillHeld DEF HolderInv
<1>4. CASE LoginIssue(r)
  <2>1. PICK g \in Families, t \in Tokens :
             TF!Open(g, t) /\ Goes(r, "tokens", AccessToken(Never), [family |-> g, token |-> t])
    BY <1>4 DEF LoginIssue
  <2>2. /\ pc[r] = "issue" /\ jar' = jar /\ hurt' = hurt
        /\ pc'[r] = "tokens" /\ refresh'[r] = [family |-> g, token |-> t]
    BY <1>4, <2>1 DEF LoginIssue, Goes, history, Typed, TypeOK
  <2>3. CASE g = f
    <3>1. phase[f] = "unborn" /\ head'[f] = t
      BY <2>1, <2>3 DEF TF!Open, Typed, TypeOK
    <3>2. \A s \in Requests : ~Carries(s, f)
      BY <3>1 DEF Carries, BornInv, Typed
    <3> QED BY <1>0, <2>2, <2>3, <3>1, <3>2 DEF OneHolder, Carries
  <2>4. CASE g # f
    <3>1. phase[f] = "open" /\ head'[f] = head[f] /\ ~Carries(r, f)
      BY <2>1, <2>2, <2>4 DEF TF!Open, Typed, TypeOK, Carries
    <3>2. ~Carries(r, f)'
      BY <2>2, <2>4 DEF Carries
    <3> QED BY <2>2, <3>1, <3>2, StillHeld DEF HolderInv
  <2> QED BY <2>3, <2>4
<1>5. CASE SendRefresh(r)
  <2>1. /\ pc[r] = "idle" /\ pc'[r] = "refresh" /\ refresh'[r] = jar.refresh /\ jar.refresh # None
        /\ head' = head /\ phase' = phase /\ jar' = jar
    BY <1>5 DEF SendRefresh, Goes, familyVars, Typed, TypeOK
  <2>2. OneHolder(f)
    BY <1>5, <2>1 DEF SendRefresh, HolderInv
  <2>3. CASE jar.refresh.family = f
    <3>1. \A s \in Requests : ~Carries(s, f)
      BY <1>5, <2>1, <2>3 DEF SendRefresh, Overlaps, Carries, Typed
    <3> QED BY <1>0, <2>1, <2>2, <2>3, <3>1 DEF OneHolder, Carries
  <2>4. CASE jar.refresh.family # f
    BY <2>1, <2>2, <2>4, StillHeld DEF Carries
  <2> QED BY <2>3, <2>4
<1>6. CASE Rotate(r)
  <2> DEFINE g == refresh[r].family
  <2>1. PICK t \in Tokens : TF!Exchange(g, t) /\ Goes(r, "rotated", None, [family |-> g, token |-> t])
    BY <1>6 DEF Rotate
  <2>2. /\ pc[r] = "swapping" /\ jar' = jar /\ hurt' = hurt /\ phase' = phase
        /\ pc'[r] = "rotated" /\ refresh'[r] = [family |-> g, token |-> t]
    BY <1>6, <2>1 DEF Rotate, Goes, history, Typed, TypeOK, TF!Exchange
  <2>3. OneHolder(f)
    BY <2>2 DEF HolderInv
  <2>4. CASE g = f
    <3>1. head'[f] = t /\ Carries(r, f)
      BY <2>1, <2>2, <2>4 DEF TF!Exchange, Carries, Typed, TypeOK
    <3> QED BY <1>0, <2>2, <2>3, <2>4, <3>1 DEF OneHolder, Carries
  <2>5. CASE g # f
    <3>1. head'[f] = head[f]
      BY <2>1, <2>5 DEF TF!Exchange, Typed, TypeOK
    <3> QED BY <2>2, <2>3, <2>5, <3>1, StillHeld DEF Carries
  <2> QED BY <2>4, <2>5
<1>7. CASE RotateReplayed(r) \/ RotateInvalid(r)
  <2>1. /\ pc[r] \in Asking /\ pc'[r] = "idle" /\ jar' = jar /\ hurt' = hurt
    BY <1>7 DEF RotateReplayed, RotateInvalid, Watching, Refused, Goes, history, Typed, TypeOK
  <2>2. refresh[r].family # f /\ phase[f] = "open" /\ head'[f] = head[f]
    BY <1>7 DEF RotateReplayed, RotateInvalid, TF!Close, familyVars, Typed, TypeOK
  <2> QED BY <2>1, <2>2, StillHeld DEF HolderInv, Carries
<1>8. CASE RefreshLookup(r)
  <2>1. /\ pc[r] = "rotated" /\ pc'[r] = "tokens" /\ refresh'[r] = refresh[r]
        /\ jar' = jar /\ hurt' = hurt /\ phase' = phase /\ head' = head
    BY <1>8 DEF RefreshLookup, Goes, history, familyVars, Typed, TypeOK
  <2>2. \A s \in Requests : /\ refresh'[s] = refresh[s]
                            /\ pc'[s] \in Holding <=> pc[s] \in Holding
                            /\ pc'[s] \in Asking <=> pc[s] \in Asking
    BY <1>0, <2>1
  <2>3. OneHolder(f)
    BY <2>1 DEF HolderInv
  <2> QED BY <2>1, <2>2, <2>3, SameHolders
<1>9. CASE RefreshLookupFails(r) \/ Lost(r)
  <2>1. /\ pc'[r] = "idle" /\ jar' = jar /\ head' = head /\ phase' = phase
        /\ hurt \subseteq hurt' /\ (Carries(r, f) => pc[r] \in Asking)
    BY <1>9 DEF RefreshLookupFails, Lost, Refused, Goes, familyVars, Typed, TypeOK, Carries
  <2>2. OneHolder(f)
    BY <2>1 DEF HolderInv
  <2>3. CASE Carries(r, f)
    <3>1. \A s \in Requests : ~Carries(s, f)'
      BY <1>0, <2>1, <2>2, <2>3 DEF OneHolder, Carries
    <3>2. \A s \in Requests : Carries(s, f) => pc[s] \in Asking
      BY <2>1, <2>2, <2>3 DEF OneHolder
    <3> QED BY <2>1, <2>2, <3>1, <3>2 DEF OneHolder
  <2>4. CASE ~Carries(r, f)
    BY <2>1, <2>2, <2>4, StillHeld DEF Carries
  <2> QED BY <2>3, <2>4
<1>10. CASE Deliver(r)
  <2>1. /\ pc[r] \in {"tokens", "access", "clear"} /\ pc'[r] = "idle" /\ jar' = NewJar(r)
        /\ hurt' = hurt /\ phase' = phase /\ head' = head
    BY <1>10 DEF Deliver, Goes, history, familyVars, Typed, TypeOK
  <2>2. OneHolder(f)
    BY <2>1 DEF HolderInv
  <2>3. CASE pc[r] = "tokens"
    <3>1. jar'.refresh = refresh[r]
      BY <2>1, <2>3 DEF NewJar
    <3>2. CASE Carries(r, f)
      BY <1>0, <2>1, <2>2, <3>1, <3>2 DEF OneHolder, Carries
    <3>3. CASE ~Carries(r, f)
      <4>1. refresh[r].family # f
        BY <2>3, <3>3 DEF Carries
      <4> QED BY <1>0, <2>1, <2>2, <3>1, <4>1 DEF OneHolder, Carries
    <3> QED BY <3>2, <3>3
  <2>4. CASE pc[r] # "tokens"
    <3>1. jar'.refresh \in {jar.refresh, None}
      BY <2>1, <2>4 DEF NewJar, EmptyJar, Typed, TypeOK
    <3> QED BY <2>1, <2>2, <2>4, <3>1, StillHeld DEF Carries
  <2> QED BY <2>3, <2>4
<1>11. CASE ReadFamily(r)
  <2>1. /\ pc[r] = "refresh" /\ pc'[r] \in Watching /\ refresh'[r] = refresh[r]
        /\ jar' = jar /\ hurt' = hurt /\ phase' = phase /\ head' = head
    BY <1>11 DEF ReadFamily, Watching, Goes, history, familyVars, Typed, TypeOK
  <2>2. \A s \in Requests : /\ refresh'[s] = refresh[s]
                            /\ pc'[s] \in Holding <=> pc[s] \in Holding
                            /\ pc'[s] \in Asking <=> pc[s] \in Asking
    BY <1>0, <2>1 DEF Watching
  <2>3. OneHolder(f)
    BY <2>1 DEF HolderInv
  <2> QED BY <2>1, <2>2, <2>3, SameHolders
<1> QED BY <1>1, <1>2, <1>3, <1>4, <1>5, <1>6, <1>7, <1>8, <1>9, <1>10, <1>11 DEF Serve, RequestStep

(* Whom a refused request accuses was hurt, or ended under it: in a family     *)
(* nothing has happened to, every token is the head.                         *)
LEMMA AccusedIsExcused ==
    ASSUME Typed, BornInv, HolderInv, NEW r \in Requests, RotateReplayed(r)
    PROVE  /\ refresh[r].family \in Families /\ refresh[r].family \in hurt
           /\ hurt' = hurt /\ replayed' = replayed \cup {refresh[r].family}
<1> DEFINE f == refresh[r].family
<1>1. /\ pc[r] \in Watching /\ (pc[r] = "swapping" => ~Unwritten(r))
      /\ hurt' = hurt /\ replayed' = replayed \cup {f}
  BY DEF RotateReplayed
<1>2. f \in Families /\ Carries(r, f) /\ phase[f] \in {"open", "closed"}
  BY <1>1 DEF Typed, TypeOK, RefreshTokens, BornInv, Carries, Watching, Holding, Asking
<1>3. CASE pc[r] = "revoking" \/ phase[f] = "closed"
  BY <1>1, <1>2, <1>3 DEF HolderInv, Excused, Watching
<1>4. CASE pc[r] = "swapping" /\ phase[f] = "open"
  <2>1. head[f] # refresh[r].token
    BY <1>1, <1>4 DEF Unwritten
  <2> QED BY <1>1, <1>2, <1>4, <2>1 DEF HolderInv, OneHolder
<1> QED BY <1>1, <1>2, <1>3, <1>4 DEF Watching

(* The end of a family marks it for those that have read it.                *)
LEMMA EndsExcuses ==
    ASSUME Typed, HolderInv, NEW f \in Families, Ends(f), NEW r \in Requests,
           pc[r] = "swapping", phase'[refresh[r].family] = "closed"
    PROVE  refresh[r].family \in hurt'
<1>1. refresh[r].family \in Families
  BY DEF Typed, TypeOK, RefreshTokens, Holding, Asking
<1>2. hurt \subseteq hurt'
  BY DEF Ends
<1>3. CASE refresh[r].family = f
  BY <1>3 DEF Ends, Watching
<1>4. CASE refresh[r].family # f
  <2>1. phase[refresh[r].family] = "closed"
    BY <1>1, <1>4 DEF Ends, TF!Close
  <2> QED BY <1>2, <2>1 DEF HolderInv, Excused
<1> QED BY <1>3, <1>4

(* What a step other than an ending or a refusal leaves excused.             *)
LEMMA StillExcused ==
    ASSUME Typed, HolderInv, NEW s \in Requests, pc'[s] = pc[s], refresh'[s] = refresh[s],
           hurt \subseteq hurt',
           pc[s] = "swapping" /\ phase'[refresh[s].family] = "closed" =>
               phase[refresh[s].family] = "closed" \/ refresh[s].family \in hurt'
    PROVE  Excused(s)'
BY DEF HolderInv, Excused

LEMMA ExcusedRequestStep ==
    ASSUME Typed, BornInv, HolderInv, NEW r \in Requests, RequestStep(r), NEW s \in Requests
    PROVE  Excused(s)'
<1>0. /\ \A q \in Requests \ {r} : refresh'[q] = refresh[q] /\ pc'[q] = pc[q]
      /\ pc[s] = "swapping" => refresh[s].family \in Families
      /\ pc[s] = "swapping" => phase[refresh[s].family] # "unborn"
  BY AccessMoves, RefreshMoves DEF Typed, TypeOK, RefreshTokens, BornInv, Holding, Asking
<1>1. CASE Logout(r)
  <2>1. pc'[r] = "clear"
    BY <1>1 DEF Logout, Goes, Typed, TypeOK
  <2>2. CASE refresh[r] # None /\ phase[refresh[r].family] = "open"
    <3>1. Ends(refresh[r].family) /\ refresh[r].family \in Families
      BY <1>1, <2>2 DEF Logout, Typed, TypeOK, RefreshTokens
    <3>2. hurt \subseteq hurt'
      BY <3>1 DEF Ends
    <3> QED BY <1>0, <2>1, <3>1, <3>2, EndsExcuses, StillExcused DEF Excused
  <2>3. CASE ~(refresh[r] # None /\ phase[refresh[r].family] = "open")
    <3>1. phase' = phase /\ hurt' = hurt
      BY <1>1, <2>3 DEF Logout, familyVars
    <3> QED BY <1>0, <2>1, <3>1, StillExcused DEF Excused
  <2> QED BY <2>2, <2>3
<1>2. CASE RotateReplayed(r)
  <2>1. /\ refresh[r].family \in hurt /\ refresh[r].family \in Families
        /\ hurt' = hurt
    BY <1>2, AccusedIsExcused
  <2>2. pc'[r] = "idle"
    BY <1>2 DEF RotateReplayed, Refused, Goes, Typed
  <2>3. \A f \in Families : phase'[f] = "closed" => phase[f] = "closed" \/ f = refresh[r].family
    BY <1>2 DEF RotateReplayed, TF!Close, familyVars
  <2> QED BY <1>0, <2>1, <2>2, <2>3, StillExcused DEF Excused
<1>3. CASE ReadFamily(r)
  <2>1. /\ hurt' = hurt /\ phase' = phase /\ refresh'[r] = refresh[r]
        /\ phase[refresh[r].family] = "open" /\ pc[r] = "refresh"
        /\ pc'[r] = IF head[refresh[r].family] = refresh[r].token THEN "swapping" ELSE "revoking"
    BY <1>3 DEF ReadFamily, Goes, history, familyVars, Typed, TypeOK
  <2>2. refresh[r].family \in Families /\ Carries(r, refresh[r].family)
    BY <2>1 DEF Typed, TypeOK, RefreshTokens, Carries, Holding, Asking
  <2>3. head[refresh[r].family] # refresh[r].token => refresh[r].family \in hurt
    BY <2>1, <2>2 DEF HolderInv, OneHolder
  <2>4. CASE s = r
    BY <2>1, <2>3, <2>4 DEF Excused
  <2>5. CASE s # r
    BY <1>0, <2>1, <2>5, StillExcused
  <2> QED BY <2>4, <2>5
<1>4. CASE ~Logout(r) /\ ~RotateReplayed(r) /\ ~ReadFamily(r)
  <2>1. hurt \subseteq hurt' /\ pc'[r] \notin {"swapping", "revoking"}
    <3>1. CASE SendLogin(r) \/ SendMfa(r) \/ SendRefresh(r) \/ SendLogout(r) \/ Deliver(r) \/ Lost(r)
      BY <3>1 DEF SendLogin, SendMfa, SendRefresh, SendLogout, Deliver, Lost, Goes, history, Typed, TypeOK
    <3>2. CASE \/ LoginLookup(r) \/ LoginIssue(r) \/ MfaLookup(r) \/ CodeRight(r) \/ CodeWrong(r)
               \/ Rotate(r) \/ RotateInvalid(r) \/ RefreshLookup(r) \/ RefreshLookupFails(r) \/ LogoutFails(r)
      BY <3>2 DEF LoginLookup, LoginIssue, MfaLookup, CodeRight, CodeWrong, Rotate, RotateInvalid, RefreshLookup,
                  RefreshLookupFails, LogoutFails, Refused, Goes, history, Typed, TypeOK
    <3> QED BY <1>4, <3>1, <3>2 DEF RequestStep, Serve
  <2>2. \A f \in Families : phase'[f] = "closed" => phase[f] = "closed"
    <3>1. CASE LoginIssue(r)
      BY <3>1 DEF LoginIssue, TF!Open, Typed, TypeOK
    <3>2. CASE Rotate(r)
      BY <3>2 DEF Rotate, TF!Exchange
    <3>3. CASE ~LoginIssue(r) /\ ~Rotate(r)
      BY <1>4, <3>3 DEF RequestStep, Serve, SendLogin, SendMfa, SendRefresh, SendLogout, LoginLookup, MfaLookup,
           CodeRight, CodeWrong, RotateInvalid, RefreshLookup, RefreshLookupFails, LogoutFails, Deliver, Lost,
           familyVars
    <3> QED BY <3>1, <3>2, <3>3
  <2> QED BY <1>0, <2>1, <2>2, StillExcused DEF Excused
<1> QED BY <1>1, <1>2, <1>3, <1>4

LEMMA HolderStep ==
    ASSUME Typed, BornInv, HolderInv, [Next]_vars
    PROVE  HolderInv'
<1>1. CASE Tick \/ ExpireFamily \/ RevokeUser \/ Mutate \/ UNCHANGED vars
  <2>1. refresh' = refresh /\ pc' = pc /\ jar'.refresh = jar.refresh /\ hurt \subseteq hurt' /\ replayed' = replayed
    BY <1>1, OtherStepsIssueNothing DEF slot
  <2>2. \A f \in Families : phase'[f] = "open" => phase[f] = "open" /\ head'[f] = head[f]
    BY <1>1 DEF Tick, ExpireFamily, RevokeUser, Mutate, vars, familyVars, Ends, TF!Close
  <2>3. \A r \in Requests, f \in Families : Carries(r, f)' <=> Carries(r, f)
    BY <2>1 DEF Carries
  <2>4. ASSUME NEW r \in Requests PROVE Excused(r)'
    <3>1. CASE ExpireFamily
      BY <2>1, <3>1, EndsExcuses, StillExcused DEF ExpireFamily
    <3>2. CASE ~ExpireFamily
      <4>1. phase' = phase
        BY <1>1, <3>2 DEF Tick, RevokeUser, Mutate, vars, familyVars
      <4> QED BY <2>1, <4>1, StillExcused
    <3> QED BY <3>1, <3>2
  <2>5. NoFalseReplay'
    BY <2>1 DEF HolderInv, NoFalseReplay
  <2> QED BY <2>1, <2>2, <2>3, <2>4, <2>5 DEF HolderInv, OneHolder
<1>2. ASSUME NEW r \in Requests, RequestStep(r)
      PROVE  HolderInv'
  <2>1. NoFalseReplay'
    <3>1. CASE RotateReplayed(r)
      BY <3>1, AccusedIsExcused DEF HolderInv, NoFalseReplay
    <3>2. CASE ~RotateReplayed(r)
      <4>1. replayed' = replayed /\ hurt \subseteq hurt'
        BY <1>2, <3>2 DEF RequestStep, Serve, SendLogin, SendMfa, SendRefresh, SendLogout, LoginLookup, LoginIssue,
               MfaLookup, CodeRight, CodeWrong, ReadFamily, Rotate, RotateInvalid, RefreshLookup,
               RefreshLookupFails, Logout, Ends, LogoutFails, Deliver, Lost, history
      <4> QED BY <4>1 DEF HolderInv, NoFalseReplay
    <3> QED BY <3>1, <3>2
  <2> QED BY <1>2, <2>1, HolderRequestStep, ExcusedRequestStep DEF HolderInv
<1> QED BY <1>1, <1>2 DEF Next, RequestStep

-----------------------------------------------------------------------------

(* Whatever requests overlap, are lost or fail: the invariant holds.        *)
THEOREM SessionInvariant == Spec => []SessionInv
<1>1. Init => SessionInv
  <2> SUFFICES ASSUME Init PROVE SessionInv
    OBVIOUS
  <2> USE DEF Init, TF!Init, EmptyJar, Never
  <2>1. Typed
    BY ConstantsAssumption DEF Typed, TypeOK, Points, Holding, Asking
  <2>2. ProofInv /\ LifeInv
    BY DEF ProofInv, LifeInv, Held, Active
  <2>3. BornInv /\ HolderInv /\ GoneInv
    BY DEF BornInv, HolderInv, Excused, NoFalseReplay, GoneInv, SignOutIsFinal
  <2> QED BY <2>1, <2>2, <2>3 DEF SessionInv
<1>2. SessionInv /\ [Next]_vars => SessionInv'
  BY TypedStep, ProofStep, LifeStep, BornStep, HolderStep, GoneStep DEF SessionInv
<1> QED BY <1>1, <1>2, PTL DEF Spec

(* A mutation is never further than Freshness from a code that was right: no *)
(* login, refresh or late answer carries an MFA over.                       *)
THEOREM MutationsAreProved == Spec => []MutationIsProved
<1>1. SessionInv => MutationIsProved
  BY DEF SessionInv, ProofInv, MutationIsProved
<1> QED BY <1>1, SessionInvariant, PTL

(* After a revocation no access token outlives it by more than a token's     *)
(* life, unless one was between lookup and issue.                           *)
THEOREM RevocationsBite == Spec => []RevocationBites
<1>1. SessionInv => RevocationBites
  BY DEF SessionInv, LifeInv, RevocationBites, Held
<1> QED BY <1>1, SessionInvariant, PTL

(* Only of a family with overlapping refreshes, a lost answer or a failed     *)
(* lookup, or one that ended between the WATCH and the EXEC of an exchange,   *)
(* is a request ever refused as a replay.                                   *)
THEOREM ReplaysAreEarned == Spec => []NoFalseReplay
<1>1. SessionInv => NoFalseReplay
  BY DEF SessionInv, HolderInv
<1> QED BY <1>1, SessionInvariant, PTL

(* A sign-out nothing overlapped leaves no cookie and no open family.        *)
THEOREM SignOutsAreFinal == Spec => []SignOutIsFinal
<1>1. SessionInv => SignOutIsFinal
  BY DEF SessionInv, GoneInv
<1> QED BY <1>1, SessionInvariant, PTL

=============================================================================
