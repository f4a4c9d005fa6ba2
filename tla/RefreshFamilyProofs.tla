------------------------ MODULE RefreshFamilyProofs ------------------------
(***************************************************************************)
(* Proofs about RefreshFamily for any number of families, tokens and       *)
(* requests, any TTL and any clock bound.                                  *)
(***************************************************************************)
EXTENDS RefreshFamily, TLAPS

(* The HSET of a login creates a family no client can name yet. *)
LEMMA IssueWriteStep ==
    ASSUME RotationInv, NEW f \in Families, NEW t \in Tokens, IssueWrite(f, t)
    PROVE  RotationInv'
<1> USE ConstantsAssumption DEF RotationInv, Watching, Answered, Never, requests
<1>1. TypeOK'
  BY SMTT(20) DEF TypeOK, LoginInv, LoginOK, WatchInv, RequestOK, IssueWrite
<1>2. LoginInv'
  BY <1>1, SMTT(20) DEF LoginInv, LoginOK, TypeOK, WatchInv, RequestOK, IssueWrite
<1>3. WatchInv'
  BY <1>1, SMTT(20) DEF WatchInv, RequestOK, TypeOK, LoginInv, LoginOK, Live, IssueWrite
<1>4. WinnersDiffer'
  BY <1>1, SMTT(20) DEF WinnersDiffer, TypeOK, WatchInv, RequestOK, IssueWrite
<1>5. ExchangeInv'
  BY <1>1, SMTT(20) DEF ExchangeInv, TypeOK, LoginInv, LoginOK, WatchInv, RequestOK, SingleUse, Live, IssueWrite
<1> QED BY <1>1, <1>2, <1>3, <1>4, <1>5

(* The EXPIRE of a login starts the window and hands out the first token. *)
LEMMA IssueExpireStep ==
    ASSUME RotationInv, NEW f \in Families, IssueExpire(f)
    PROVE  RotationInv'
<1> USE ConstantsAssumption DEF RotationInv, Watching, Answered, Never, requests
<1>1. TypeOK'
  BY SMTT(20) DEF TypeOK, LoginInv, LoginOK, WatchInv, RequestOK, IssueExpire
<1>2. LoginInv'
  BY <1>1, SMTT(20) DEF LoginInv, LoginOK, TypeOK, WatchInv, RequestOK, IssueExpire
<1>3. WatchInv'
  BY <1>1, SMTT(20) DEF WatchInv, RequestOK, TypeOK, LoginInv, LoginOK, Live, IssueExpire
<1>4. WinnersDiffer'
  BY <1>1, SMTT(20) DEF WinnersDiffer, TypeOK, WatchInv, RequestOK, IssueExpire
<1>5. ExchangeInv'
  BY <1>1, SMTT(20) DEF ExchangeInv, TypeOK, LoginInv, LoginOK, WatchInv, RequestOK, SingleUse, Live, IssueExpire
<1> QED BY <1>1, <1>2, <1>3, <1>4, <1>5

(* A login that dies leaves a family nobody holds a token of. *)
LEMMA IssueDiesStep ==
    ASSUME RotationInv, NEW f \in Families, IssueDies(f)
    PROVE  RotationInv'
<1> USE ConstantsAssumption DEF RotationInv, Watching, Answered, Never, requests
<1>1. TypeOK'
  BY SMTT(20) DEF TypeOK, LoginInv, LoginOK, WatchInv, RequestOK, IssueDies, store
<1>2. LoginInv'
  BY <1>1, SMTT(20) DEF LoginInv, LoginOK, TypeOK, WatchInv, RequestOK, IssueDies, store
<1>3. WatchInv'
  BY <1>1, SMTT(20) DEF WatchInv, RequestOK, TypeOK, LoginInv, LoginOK, Live, IssueDies, store
<1>4. WinnersDiffer'
  BY <1>1, SMTT(20) DEF WinnersDiffer, TypeOK, WatchInv, RequestOK, IssueDies, store
<1>5. ExchangeInv'
  BY <1>1, SMTT(20) DEF ExchangeInv, TypeOK, LoginInv, LoginOK, WatchInv, RequestOK, SingleUse, Live, IssueDies, store
<1> QED BY <1>1, <1>2, <1>3, <1>4, <1>5

(* A request that only watches changes no family. *)
LEMMA WatchStep ==
    ASSUME RotationInv, NEW r \in Requests, NEW f \in Families, NEW t \in Tokens, Watch(r, f, t)
    PROVE  RotationInv'
<1> USE ConstantsAssumption DEF RotationInv, Watching, Answered, Never, requests
<1>1. TypeOK'
  BY SMTT(20) DEF TypeOK, LoginInv, LoginOK, WatchInv, RequestOK, Watch, store, Moves
<1>2. LoginInv'
  BY <1>1, SMTT(20) DEF LoginInv, LoginOK, TypeOK, WatchInv, RequestOK, Watch, store, Moves
<1>3. WatchInv'
  BY <1>1, SMTT(20) DEF WatchInv, RequestOK, TypeOK, LoginInv, LoginOK, Live, Watch, store, Moves
<1>4. WinnersDiffer'
  BY <1>1, SMTT(20) DEF WinnersDiffer, TypeOK, WatchInv, RequestOK, Watch, store, Moves
<1>5. ExchangeInv'
  BY <1>1, SMTT(20) DEF ExchangeInv, TypeOK, LoginInv, LoginOK, WatchInv, RequestOK, SingleUse, Live, Watch, store, Moves
<1> QED BY <1>1, <1>2, <1>3, <1>4, <1>5

(* The branch taken after HGETALL is true of the store at that instant. *)
LEMMA ReadFamilyStep ==
    ASSUME RotationInv, NEW r \in Requests, ReadFamily(r)
    PROVE  RotationInv'
<1> USE ConstantsAssumption DEF RotationInv, Watching, Answered, Never, requests
<1>1. TypeOK'
  BY SMTT(20) DEF TypeOK, LoginInv, LoginOK, WatchInv, RequestOK, ReadFamily, store, Moves, Live
<1>2. LoginInv'
  BY <1>1, SMTT(20) DEF LoginInv, LoginOK, TypeOK, WatchInv, RequestOK, ReadFamily, store, Moves, Live
<1>3. WatchInv'
  BY <1>1, SMTT(20) DEF WatchInv, RequestOK, TypeOK, LoginInv, LoginOK, Live, ReadFamily, store, Moves
<1>4. WinnersDiffer'
  BY <1>1, SMTT(20) DEF WinnersDiffer, TypeOK, WatchInv, RequestOK, ReadFamily, store, Moves, Live
<1>5. ExchangeInv'
  BY <1>1, SMTT(20) DEF ExchangeInv, TypeOK, LoginInv, LoginOK, WatchInv, RequestOK, SingleUse, Live, ReadFamily, store, Moves
<1> QED BY <1>1, <1>2, <1>3, <1>4, <1>5

(* A replay revokes the family it found live and touches its other watchers. *)
LEMMA ExecRevokeStep ==
    ASSUME RotationInv, NEW r \in Requests, ExecRevoke(r)
    PROVE  RotationInv'
<1> USE ConstantsAssumption DEF RotationInv, Watching, Answered, Never, requests
<1>1. TypeOK'
  BY SMTT(20) DEF TypeOK, LoginInv, LoginOK, WatchInv, RequestOK, ExecRevoke, HsetRevoked, Moves, Touched, Live
<1>2. LoginInv'
  BY <1>1, SMTT(20) DEF LoginInv, LoginOK, TypeOK, WatchInv, RequestOK, ExecRevoke, HsetRevoked, Moves, Touched, Live
<1>3. WatchInv'
  <2> SUFFICES ASSUME NEW q \in Requests
               PROVE  RequestOK(q)'
    BY DEF WatchInv
  <2>1. RequestOK(q) /\ RequestOK(r) /\ LoginOK(fam[r])
    BY DEF WatchInv, LoginInv, RequestOK, ExecRevoke
  <2>2. CASE q = r
    BY <1>1, <2>1, <2>2, SMTT(20) DEF RequestOK, LoginOK, TypeOK, Live, ExecRevoke, HsetRevoked, Moves
  <2>3. CASE q # r
    <3>1. pc'[q] = pc[q]
      BY <2>3 DEF TypeOK, ExecRevoke, HsetRevoked, Moves
    <3>2. pc[q] \in Watching /\ fam[q] = fam[r] => dirty'[q]
      BY DEF Touched, ExecRevoke, HsetRevoked, Moves
    <3>3. ~dirty'[q] => ~dirty[q]
      BY DEF Touched, ExecRevoke, HsetRevoked, Moves
    <3> QED BY <2>1, <2>3, <3>1, <3>2, <3>3, SMTT(20) DEF RequestOK, LoginOK, TypeOK, Live, ExecRevoke, HsetRevoked, Moves
  <2> QED BY <2>2, <2>3
<1>4. WinnersDiffer'
  BY <1>1, SMTT(20) DEF WinnersDiffer, TypeOK, WatchInv, RequestOK, ExecRevoke, HsetRevoked, Moves, Touched, Live
<1>5. ExchangeInv'
  BY <1>1, SMTT(20) DEF ExchangeInv, TypeOK, LoginInv, LoginOK, WatchInv, RequestOK, SingleUse, Live, ExecRevoke, HsetRevoked, Moves, Touched
<1> QED BY <1>1, <1>2, <1>3, <1>4, <1>5

(* A swap that was not disturbed replaces the very token it presented. *)
LEMMA ExecSwapStep ==
    ASSUME RotationInv, NEW r \in Requests, NEW t \in Tokens, ExecSwap(r, t)
    PROVE  RotationInv'
<1> USE ConstantsAssumption DEF RotationInv, Watching, Answered, Never, requests
<1>1. TypeOK'
  BY SMTT(20) DEF TypeOK, LoginInv, LoginOK, WatchInv, RequestOK, ExecSwap, Moves, Touched, Live
<1>2. LoginInv'
  BY <1>1, SMTT(20) DEF LoginInv, LoginOK, TypeOK, WatchInv, RequestOK, ExecSwap, Moves, Touched, Live
<1>3. WatchInv'
  <2> SUFFICES ASSUME NEW q \in Requests
               PROVE  RequestOK(q)'
    BY DEF WatchInv
  <2>1. RequestOK(q) /\ RequestOK(r) /\ LoginOK(fam[r])
    BY DEF WatchInv, LoginInv, RequestOK, ExecSwap
  <2>2. CASE q = r
    BY <1>1, <2>1, <2>2, SMTT(20) DEF RequestOK, LoginOK, TypeOK, Live, ExecSwap, Moves
  <2>3. CASE q # r
    <3>1. pc'[q] = pc[q]
      BY <2>3 DEF TypeOK, ExecSwap, Moves
    <3>2. pc[q] \in Watching /\ fam[q] = fam[r] => dirty'[q]
      BY DEF Touched, ExecSwap, Moves
    <3>3. ~dirty'[q] => ~dirty[q]
      BY DEF Touched, ExecSwap, Moves
    <3> QED BY <2>1, <2>3, <3>1, <3>2, <3>3, SMTT(20) DEF RequestOK, LoginOK, TypeOK, Live, ExecSwap, Moves
  <2> QED BY <2>2, <2>3
<1>4. WinnersDiffer'
  BY <1>1, SMTT(20) DEF WinnersDiffer, TypeOK, WatchInv, RequestOK, ExecSwap, Moves, Touched, Live
<1>5. ExchangeInv'
  BY <1>1, SMTT(20) DEF ExchangeInv, TypeOK, LoginInv, LoginOK, WatchInv, RequestOK, SingleUse, Live, ExecSwap, Moves, Touched
<1> QED BY <1>1, <1>2, <1>3, <1>4, <1>5

(* An aborted EXEC writes nothing. *)
LEMMA ExecAbortsStep ==
    ASSUME RotationInv, NEW r \in Requests, ExecAborts(r)
    PROVE  RotationInv'
<1> USE ConstantsAssumption DEF RotationInv, Watching, Answered, Never, requests
<1>1. TypeOK'
  BY SMTT(20) DEF TypeOK, LoginInv, LoginOK, WatchInv, RequestOK, ExecAborts, store, Moves
<1>2. LoginInv'
  BY <1>1, SMTT(20) DEF LoginInv, LoginOK, TypeOK, WatchInv, RequestOK, ExecAborts, store, Moves
<1>3. WatchInv'
  BY <1>1, SMTT(20) DEF WatchInv, RequestOK, TypeOK, LoginInv, LoginOK, Live, ExecAborts, store, Moves
<1>4. WinnersDiffer'
  BY <1>1, SMTT(20) DEF WinnersDiffer, TypeOK, WatchInv, RequestOK, ExecAborts, store, Moves
<1>5. ExchangeInv'
  BY <1>1, SMTT(20) DEF ExchangeInv, TypeOK, LoginInv, LoginOK, WatchInv, RequestOK, SingleUse, Live, ExecAborts, store, Moves
<1> QED BY <1>1, <1>2, <1>3, <1>4, <1>5

(* The except branch leaves no live family behind. *)
LEMMA RevokeOnConflictStep ==
    ASSUME RotationInv, NEW r \in Requests, RevokeOnConflict(r)
    PROVE  RotationInv'
<1> USE ConstantsAssumption DEF RotationInv, Watching, Answered, Never, requests
<1>1. TypeOK'
  BY SMTT(20) DEF TypeOK, LoginInv, LoginOK, WatchInv, RequestOK, RevokeOnConflict, HsetRevoked, Moves, Touched
<1>2. LoginInv'
  BY <1>1, SMTT(20) DEF LoginInv, LoginOK, TypeOK, WatchInv, RequestOK, RevokeOnConflict, HsetRevoked, Moves, Touched
<1>3. WatchInv'
  <2> SUFFICES ASSUME NEW q \in Requests
               PROVE  RequestOK(q)'
    BY DEF WatchInv
  <2>1. RequestOK(q) /\ RequestOK(r) /\ LoginOK(fam[r])
    BY DEF WatchInv, LoginInv, RequestOK, RevokeOnConflict
  <2>2. CASE q = r
    BY <1>1, <2>1, <2>2, SMTT(20) DEF RequestOK, LoginOK, TypeOK, Live, RevokeOnConflict, HsetRevoked, Moves
  <2>3. CASE q # r
    <3>1. pc'[q] = pc[q]
      BY <2>3 DEF TypeOK, RevokeOnConflict, HsetRevoked, Moves
    <3>2. pc[q] \in Watching /\ fam[q] = fam[r] => dirty'[q]
      BY DEF Touched, RevokeOnConflict, HsetRevoked, Moves
    <3>3. ~dirty'[q] => ~dirty[q]
      BY DEF Touched, RevokeOnConflict, HsetRevoked, Moves
    <3> QED BY <2>1, <2>3, <3>1, <3>2, <3>3, SMTT(20) DEF RequestOK, LoginOK, TypeOK, Live, RevokeOnConflict, HsetRevoked, Moves
  <2> QED BY <2>2, <2>3
<1>4. WinnersDiffer'
  BY <1>1, SMTT(20) DEF WinnersDiffer, TypeOK, WatchInv, RequestOK, RevokeOnConflict, HsetRevoked, Moves, Touched
<1>5. ExchangeInv'
  BY <1>1, SMTT(20) DEF ExchangeInv, TypeOK, LoginInv, LoginOK, WatchInv, RequestOK, SingleUse, Live, RevokeOnConflict, HsetRevoked, Moves, Touched
<1> QED BY <1>1, <1>2, <1>3, <1>4, <1>5

(* A cancelled request writes nothing. *)
LEMMA RequestDiesStep ==
    ASSUME RotationInv, NEW r \in Requests, RequestDies(r)
    PROVE  RotationInv'
<1> USE ConstantsAssumption DEF RotationInv, Watching, Answered, Never, requests
<1>1. TypeOK'
  BY SMTT(20) DEF TypeOK, LoginInv, LoginOK, WatchInv, RequestOK, RequestDies, store, Moves
<1>2. LoginInv'
  BY <1>1, SMTT(20) DEF LoginInv, LoginOK, TypeOK, WatchInv, RequestOK, RequestDies, store, Moves
<1>3. WatchInv'
  BY <1>1, SMTT(20) DEF WatchInv, RequestOK, TypeOK, LoginInv, LoginOK, Live, RequestDies, store, Moves
<1>4. WinnersDiffer'
  BY <1>1, SMTT(20) DEF WinnersDiffer, TypeOK, WatchInv, RequestOK, RequestDies, store, Moves
<1>5. ExchangeInv'
  BY <1>1, SMTT(20) DEF ExchangeInv, TypeOK, LoginInv, LoginOK, WatchInv, RequestOK, SingleUse, Live, RequestDies, store, Moves
<1> QED BY <1>1, <1>2, <1>3, <1>4, <1>5

(* A logout leaves no live family behind, and may create a bare tombstone. *)
LEMMA LogoutStep ==
    ASSUME RotationInv, NEW f \in Families, Logout(f)
    PROVE  RotationInv'
<1> USE ConstantsAssumption DEF RotationInv, Watching, Answered, Never, requests
<1>1. TypeOK'
  BY SMTT(20) DEF TypeOK, LoginInv, LoginOK, WatchInv, RequestOK, Logout, HsetRevoked, Touched
<1>2. LoginInv'
  BY <1>1, SMTT(20) DEF LoginInv, LoginOK, TypeOK, WatchInv, RequestOK, Logout, HsetRevoked, Touched
<1>3. WatchInv'
  <2> SUFFICES ASSUME NEW q \in Requests
               PROVE  RequestOK(q)'
    BY DEF WatchInv
  <2>1. RequestOK(q) /\ pc'[q] = pc[q]
    BY DEF WatchInv, Logout, HsetRevoked
  <2>2. ~dirty'[q] => ~dirty[q]
    BY DEF Touched, Logout, HsetRevoked
  <2>3. pc[q] \in Watching /\ fam[q] = f => dirty'[q]
    BY DEF Touched, Logout, HsetRevoked
  <2> QED BY <2>1, <2>2, <2>3, SMTT(20) DEF RequestOK, LoginInv, LoginOK, TypeOK, Live, Logout, HsetRevoked
<1>4. WinnersDiffer'
  BY <1>1, SMTT(20) DEF WinnersDiffer, TypeOK, WatchInv, RequestOK, Logout, HsetRevoked, Touched
<1>5. ExchangeInv'
  BY <1>1, SMTT(20) DEF ExchangeInv, TypeOK, LoginInv, LoginOK, WatchInv, RequestOK, SingleUse, Live, Logout, HsetRevoked, Touched
<1> QED BY <1>1, <1>2, <1>3, <1>4, <1>5

(* Keys whose time has come vanish together with what their watchers knew. *)
LEMMA TickStep ==
    ASSUME RotationInv, Tick
    PROVE  RotationInv'
<1> USE ConstantsAssumption DEF RotationInv, Watching, Answered, Never, requests
<1> DEFINE gone == {f \in Families : key[f] # "absent" /\ expireAt[f] <= now + 1}
<1>1. TypeOK'
  <2>1. now' \in 0..MaxTime
    BY DEF TypeOK, Tick
  <2>2. Never \in 0..Never
    BY SMT
  <2>3. /\ key' \in [Families -> {"absent", "family", "tombstone"}]
        /\ current' \in [Families -> Tokens \cup {NoToken}]
        /\ revoked' \in [Families -> BOOLEAN]
        /\ expireAt' \in [Families -> 0..Never]
    BY <2>2 DEF TypeOK, Tick
  <2>4. dirty' \in [Requests -> BOOLEAN]
    BY DEF TypeOK, Tick, Touched
  <2> QED BY <2>1, <2>3, <2>4 DEF TypeOK, Tick
<1>2. LoginInv'
  BY <1>1, SMTT(20) DEF LoginInv, LoginOK, TypeOK, WatchInv, RequestOK, Tick, Touched
<1>3. WatchInv'
  <2> SUFFICES ASSUME NEW q \in Requests
               PROVE  RequestOK(q)'
    BY DEF WatchInv
  <2>1. RequestOK(q) /\ pc'[q] = pc[q]
    BY DEF WatchInv, Tick
  <2>2. ~dirty'[q] => ~dirty[q]
    BY DEF Touched, Tick
  <2>3. pc[q] \in Watching /\ fam[q] \in gone => dirty'[q]
    BY DEF Touched, Tick
  <2>4. \A f \in Families : f \notin gone => Live(f)' = Live(f) /\ current'[f] = current[f]
    BY DEF Tick, Live
  <2>5. \A f \in Families : f \in gone => ~Live(f)' /\ current'[f] = NoToken
    BY DEF Tick, Live
  <2> QED BY <2>1, <2>2, <2>3, <2>4, <2>5, SMTT(20) DEF RequestOK, TypeOK, Tick
<1>4. WinnersDiffer'
  BY <1>1, SMTT(20) DEF WinnersDiffer, TypeOK, WatchInv, RequestOK, Tick, Touched
<1>5. ExchangeInv'
  BY <1>1, SMTT(20) DEF ExchangeInv, TypeOK, LoginInv, LoginOK, WatchInv, RequestOK, SingleUse, Live, Tick, Touched
<1> QED BY <1>1, <1>2, <1>3, <1>4, <1>5

(* The invariant holds initially and along every step. *)
LEMMA RotationInvInit == Init => RotationInv
BY ConstantsAssumption, SMTT(20)
   DEF Init, RotationInv, TypeOK, LoginInv, LoginOK, WatchInv, RequestOK, WinnersDiffer,
       ExchangeInv, SingleUse, Never, Watching, Answered

(* Every step of the specification keeps the invariant. *)
LEMMA RotationInvStep == RotationInv /\ [Next]_vars => RotationInv'
<1> SUFFICES ASSUME RotationInv, [Next]_vars PROVE RotationInv'
  OBVIOUS
<1>1. CASE UNCHANGED vars
  BY <1>1 DEF vars, store, requests, RotationInv, TypeOK, LoginInv, LoginOK, WatchInv,
              RequestOK, WinnersDiffer, ExchangeInv, SingleUse, Live
<1>2. CASE \E f \in Families : Issuing(f) \/ Logout(f)
  BY <1>2, IssueWriteStep, IssueExpireStep, IssueDiesStep, LogoutStep DEF Issuing
<1>3. CASE \E r \in Requests, f \in Families, t \in Tokens : Watch(r, f, t)
  BY <1>3, WatchStep
<1>4. CASE \E r \in Requests : Rotating(r) \/ RequestDies(r)
  BY <1>4, ReadFamilyStep, ExecRevokeStep, ExecSwapStep, ExecAbortsStep,
     RevokeOnConflictStep, RequestDiesStep DEF Rotating
<1>5. CASE Tick
  BY <1>5, TickStep
<1> QED BY <1>1, <1>2, <1>3, <1>4, <1>5 DEF Next

(* rotate_refresh_token under any interleaving of requests, logouts, deaths  *)
(* and key expiry: the inductive invariant RotationInv.                      *)
THEOREM RotationInvariant == Spec => []RotationInv
BY RotationInvInit, RotationInvStep, PTL DEF Spec

(* Every variable of the rotation protocol keeps its type. *)
THEOREM TypeCorrect == Spec => []TypeOK
<1>1. RotationInv => TypeOK
  BY DEF RotationInv
<1> QED BY <1>1, RotationInvariant, PTL

(* A refresh token is traded at most once, for any number of concurrent     *)
(* presentations of it (the WATCH/EXEC of rotate_refresh_token).            *)
THEOREM TokensAreSingleUse == Spec => []SingleUse
<1>1. RotationInv => SingleUse
  BY DEF RotationInv, ExchangeInv
<1> QED BY <1>1, RotationInvariant, PTL

(* When two requests that presented one token have both been answered, the  *)
(* family accepts nothing any more (the replay branches of                  *)
(* rotate_refresh_token).                                                   *)
THEOREM ReuseClosesTheFamily == Spec => []ReuseClosesFamily
<1>1. RotationInv => ReuseClosesFamily
  BY DEF RotationInv, TypeOK, WatchInv, RequestOK, WinnersDiffer, ReuseClosesFamily, Answered
<1> QED BY <1>1, RotationInvariant, PTL

(* A session never outlives the window its login opened: rotation keeps the *)
(* TTL of the family key.                                                   *)
THEOREM WindowIsFixed == Spec => []FixedWindow
<1>1. RotationInv => FixedWindow
  BY DEF RotationInv, ExchangeInv, LoginInv, LoginOK, FixedWindow, Live
<1> QED BY <1>1, RotationInvariant, PTL

-----------------------------------------------------------------------------
(* The store implements the atomic token family. *)

(* Closing the live ones of a set of families is a Close step, or a stutter. *)
LEMMA ClosingStep ==
    ASSUME RotationInv, NEW S \in SUBSET Families,
           minted' = minted,
           \A f \in Families : login[f] = "none" <=> login'[f] = "none",
           \A f \in S : ~Live(f)' /\ login[f] # "none",
           \A f \in Families \ S : Live(f)' = Live(f) /\ current'[f] = current[f]
    PROVE  [TF!Next]_(TF!familyVars)
<1>1. PICK C \in SUBSET Families : C = {f \in S : Live(f)}
  OBVIOUS
<1>2. TF!Close(C)
  BY <1>1 DEF TF!Close
<1> QED BY <1>1, <1>2 DEF TF!Next

(* A step that leaves the hash fields alone is invisible to the family. *)
LEMMA InvisibleStep ==
    ASSUME UNCHANGED <<store, minted, login>>
    PROVE  UNCHANGED TF!familyVars
BY DEF store, TF!familyVars, Live

(* Each step of the rotation protocol is a step of the atomic family or     *)
(* leaves it unchanged.                                                     *)
LEMMA FamilyStep ==
    ASSUME RotationInv, [Next]_vars
    PROVE  [TF!Next]_(TF!familyVars)
<1> USE DEF RotationInv
<1>1. CASE UNCHANGED vars
  BY <1>1, InvisibleStep DEF vars
<1>2. ASSUME NEW f \in Families, NEW t \in Tokens, IssueWrite(f, t)
      PROVE  TF!Open(f, t)
  <2>1. ~Live(f) /\ Live(f)' /\ current'[f] = t
    BY <1>2 DEF IssueWrite, TypeOK, LoginInv, LoginOK, Live
  <2>2. \A g \in Families \ {f} : /\ Live(g)' = Live(g) /\ current'[g] = current[g]
                                 /\ login'[g] = login[g]
    BY <1>2 DEF IssueWrite, TypeOK, Live
  <2> QED BY <1>2, <2>1, <2>2 DEF IssueWrite, TF!Open
<1>3. ASSUME NEW f \in Families, IssueExpire(f) \/ IssueDies(f)
      PROVE  [TF!Next]_(TF!familyVars)
  <2>1. UNCHANGED <<key, current, revoked, minted>>
    BY <1>3 DEF IssueExpire, IssueDies, store
  <2>2. \A g \in Families : login[g] = "none" <=> login'[g] = "none"
    BY <1>3 DEF IssueExpire, IssueDies, TypeOK
  <2> QED BY <2>1, <2>2 DEF TF!familyVars, Live
<1>4. ASSUME NEW r \in Requests, NEW t \in Tokens, ExecSwap(r, t)
      PROVE  \E f \in Families : TF!Exchange(f, t)
  <2>1. PICK f \in Families : f = fam[r]
    BY <1>4 DEF ExecSwap, WatchInv, RequestOK
  <2>2. Live(f) /\ Live(f)' /\ current'[f] = t
    BY <1>4, <2>1 DEF ExecSwap, TypeOK, WatchInv, RequestOK, Live
  <2>3. \A g \in Families \ {f} : Live(g)' = Live(g) /\ current'[g] = current[g]
    BY <1>4, <2>1 DEF ExecSwap, TypeOK, Live
  <2>4. TF!Exchange(f, t)
    BY <1>4, <2>2, <2>3 DEF ExecSwap, TF!Exchange
  <2> QED BY <2>4
<1>5. ASSUME NEW f \in Families, login[f] = "done", HsetRevoked(f), UNCHANGED <<minted, login>>
      PROVE  [TF!Next]_(TF!familyVars)
  <2>1. \A g \in {f} : ~Live(g)' /\ login[g] # "none"
    BY <1>5 DEF HsetRevoked, TypeOK, Live
  <2>2. \A g \in Families \ {f} : Live(g)' = Live(g) /\ current'[g] = current[g]
    BY <1>5 DEF HsetRevoked, TypeOK, Live
  <2>3. /\ {f} \in SUBSET Families /\ minted' = minted
        /\ \A g \in Families : login[g] = "none" <=> login'[g] = "none"
    BY <1>5
  <2> QED BY <2>1, <2>2, <2>3, ClosingStep
<1>6. ASSUME NEW r \in Requests, ExecRevoke(r) \/ RevokeOnConflict(r)
      PROVE  [TF!Next]_(TF!familyVars)
  <2>1. fam[r] \in Families /\ login[fam[r]] = "done"
    BY <1>6 DEF ExecRevoke, RevokeOnConflict, WatchInv, RequestOK
  <2> QED BY <1>6, <2>1, <1>5 DEF ExecRevoke, RevokeOnConflict
<1>7. ASSUME NEW f \in Families, Logout(f)
      PROVE  [TF!Next]_(TF!familyVars)
  <2>1. login[f] = "done"
    BY <1>7 DEF Logout, TypeOK, LoginInv, LoginOK
  <2> QED BY <1>7, <2>1, <1>5 DEF Logout
<1>8. CASE Tick
  <2> DEFINE gone == {f \in Families : key[f] # "absent" /\ expireAt[f] <= now + 1}
  <2>1. \A f \in gone : ~Live(f)' /\ login[f] # "none"
    BY <1>8 DEF Tick, TypeOK, LoginInv, LoginOK, Live
  <2>2. \A f \in Families \ gone : Live(f)' = Live(f) /\ current'[f] = current[f]
    BY <1>8 DEF Tick, TypeOK, Live
  <2> QED BY <1>8, <2>1, <2>2, ClosingStep DEF Tick
<1>9. ASSUME NEW r \in Requests,
             \/ \E f \in Families, t \in Tokens : Watch(r, f, t)
             \/ ReadFamily(r) \/ ExecAborts(r) \/ RequestDies(r)
      PROVE  UNCHANGED TF!familyVars
  BY <1>9, InvisibleStep DEF Watch, ReadFamily, ExecAborts, RequestDies
<1>10. CASE \E f \in Families : Issuing(f) \/ Logout(f)
  BY <1>10, <1>2, <1>3, <1>7 DEF Issuing, TF!Next
<1>11. CASE \E r \in Requests : Rotating(r) \/ RequestDies(r)
  BY <1>11, <1>4, <1>6, <1>9 DEF Rotating, TF!Next
<1>12. CASE \E r \in Requests, f \in Families, t \in Tokens : Watch(r, f, t)
  BY <1>12, <1>9
<1> QED BY <1>1, <1>8, <1>10, <1>11, <1>12 DEF Next

(* rotate_refresh_token, issue_refresh_token and revoke_refresh_token        *)
(* together implement TokenFamily: check-and-swap is one indivisible step.   *)
THEOREM RotationImplementsTokenFamily == Spec => ImplementsTokenFamily
<1>1. Init => TF!Init
  BY DEF Init, TF!Init, Live
<1>2. RotationInv /\ [Next]_vars => [TF!Next]_(TF!familyVars)
  BY FamilyStep
<1> QED BY <1>1, <1>2, RotationInvariant, PTL DEF Spec, ImplementsTokenFamily, TF!Spec

=============================================================================
