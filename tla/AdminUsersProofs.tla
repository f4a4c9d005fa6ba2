-------------------------- MODULE AdminUsersProofs --------------------------
(***************************************************************************)
(* Proofs about AdminUsers for any finite table and any number of boots    *)
(* and requests.                                                           *)
(***************************************************************************)
EXTENDS AdminUsers, FiniteSetTheorems, TLAPS

(* If the count exceeds one, a super-admin other than the target is active. *)
LEMMA AnotherSuper ==
    ASSUME NEW a \in Rows, Cardinality(ActiveSupers) > 1
    PROVE  ActiveSupers \ {a} # {}
<1> SUFFICES ASSUME ActiveSupers \subseteq {a} PROVE FALSE
  OBVIOUS
<1>1. IsFiniteSet({a}) /\ Cardinality({a}) = 1
  BY FS_Singleton
<1>2. IsFiniteSet(ActiveSupers) /\ Cardinality(ActiveSupers) <= 1
  BY <1>1, FS_Subset
<1>3. Cardinality(ActiveSupers) \in Nat
  BY <1>2, FS_CardinalityType
<1> QED BY <1>2, <1>3

(* An insert takes a free row: nothing that was active stops being so.      *)
LEMMA InsertKeeps ==
    ASSUME TypeOK, NEW a \in Rows, NEW e \in Emails, NEW super \in BOOLEAN, Insert(a, e, super)
    PROVE  /\ \A b \in Rows : status[b] # "free" =>
                 status'[b] = status[b] /\ isSuper'[b] = isSuper[b]
           /\ ActiveSupers \subseteq ActiveSupers'
           /\ status'[a] = "active" /\ isSuper'[a] = super
           /\ \A b \in Rows : b # a => isSuper'[b] = isSuper[b]
           /\ status' \in [Rows -> {"free", "active", "revoked"}]
           /\ email' \in [Rows -> Emails] /\ isSuper' \in [Rows -> BOOLEAN]
BY DEF Insert, TypeOK, ActiveSupers, Active

(* Inserts, whoever makes them, keep the invariant: they only add active    *)
(* rows, and the requests past SELECT ... FOR UPDATE do not move.           *)
LEMMA InsertStep ==
    ASSUME RevokeInv, NEW a \in Rows, NEW e \in Emails, NEW super \in BOOLEAN,
           Insert(a, e, super),
           UNCHANGED <<lock, sessions, target, wanted, overlapped>>,
           boot' \in [Boots -> {"start", "insert", "up", "failed"}],
           \/ UNCHANGED pc
           \/ \E r \in Requests : pc[r] = "inserting" /\ Moves(r, "created")
    PROVE  RevokeInv'
<1> USE DEF RevokeInv
<1>1. \A r \in Requests : \/ pc'[r] = pc[r]
                          \/ pc[r] = "inserting" /\ pc'[r] = "created"
  <2>1. CASE UNCHANGED pc
    BY <2>1
  <2>2. ASSUME NEW q \in Requests, pc[q] = "inserting", Moves(q, "created")
        PROVE  \A r \in Requests : \/ pc'[r] = pc[r]
                                   \/ pc[r] = "inserting" /\ pc'[r] = "created"
    BY <2>2 DEF Moves, TypeOK
  <2> QED BY <2>1, <2>2
<1>2. pc' \in [Requests -> {"idle", "in_use", "inserting", "created", "error", "not_found",
                            "locked", "last_super", "updating", "ok"}]
  BY DEF Moves, TypeOK
<1>3. TypeOK'
  BY <1>1, <1>2, InsertKeeps DEF TypeOK, Chosen
<1>4. TargetStable'
  BY <1>1, InsertKeeps DEF TypeOK, TargetStable, InTransaction, Active, Chosen
<1>5. CountStillHolds'
  <2> SUFFICES ASSUME NEW r \in Requests, pc'[r] = "updating", isSuper'[target'[r]], ~overlapped'
               PROVE  (ActiveSupers \ {target[r]} # {})'
    BY DEF CountStillHolds
  <2>1. pc[r] = "updating" /\ target[r] \in Active /\ target[r] \in Rows
    BY <1>1 DEF TargetStable, InTransaction, Active
  <2>2. isSuper[target[r]]
    BY <2>1, InsertKeeps DEF Active
  <2>3. ActiveSupers \ {target[r]} # {}
    BY <2>1, <2>2 DEF CountStillHolds
  <2> QED BY <2>3, InsertKeeps
<1>6. OkMeansRevoked' /\ RevokedOnce'
  BY <1>1, InsertKeeps DEF OkMeansRevoked, RevokedOnce, TypeOK, Chosen
<1>7. SuperRemainsUnlessOverlapped'
  <2>1. CASE ActiveSupers # {}
    BY <2>1, InsertKeeps DEF SuperRemainsUnlessOverlapped, SuperRemains
  <2>2. CASE ActiveSupers = {} /\ ~overlapped
    <3>1. \A b \in Rows : ~isSuper[b]
      BY <2>2 DEF SuperRemainsUnlessOverlapped, SuperRemains
    <3>2. ASSUME super PROVE a \in ActiveSupers'
      <4>1. status'[a] = "active" /\ isSuper'[a] = super
        BY InsertKeeps
      <4> QED BY <3>2, <4>1 DEF ActiveSupers, Active
    <3> QED BY <3>1, <3>2, InsertKeeps DEF SuperRemainsUnlessOverlapped, SuperRemains, TypeOK
  <2> QED BY <2>1, <2>2 DEF SuperRemainsUnlessOverlapped
<1> QED BY <1>3, <1>4, <1>5, <1>6, <1>7

(* Steps that write no row and move no transaction. *)
LEMMA QuietStep ==
    ASSUME RevokeInv, UNCHANGED <<table, lock, overlapped>>,
           TypeOK',
           \A r \in Requests : \/ pc'[r] = pc[r] /\ target'[r] = target[r]
                               \/ ~InTransaction(r)' /\ pc'[r] # "ok"
    PROVE  RevokeInv'
BY DEF RevokeInv, table, TypeOK, TargetStable, InTransaction, CountStillHolds, OkMeansRevoked,
       RevokedOnce, SuperRemainsUnlessOverlapped, SuperRemains, ActiveSupers, Active

(* SELECT ... FOR UPDATE: the lock is new, the row was just seen active.    *)
LEMMA LockStep ==
    ASSUME RevokeInv, NEW r \in Requests, NEW a \in Rows, RevokeLock(r, a)
    PROVE  RevokeInv'
<1> USE ConstantsAssumption DEF RevokeInv, RevokeLock, Moves, table
<1>1. TypeOK'
  BY DEF TypeOK, Chosen
<1>2. CASE a \notin Active
  <2>1. pc'[r] = "not_found"
    BY <1>2 DEF TypeOK
  <2>2. \A q \in Requests \ {r} : pc'[q] = pc[q] /\ target'[q] = target[q]
    BY <1>2 DEF TypeOK
  <2>3. \A q \in Requests : \/ pc'[q] = pc[q] /\ target'[q] = target[q]
                            \/ ~InTransaction(q)' /\ pc'[q] # "ok"
    BY <2>1, <2>2 DEF InTransaction
  <2> QED BY <1>1, <1>2, <2>3, QuietStep
<1>3. CASE a \in Active
  <2>1. \A q \in Requests \ {r} : pc'[q] = pc[q] /\ target'[q] = target[q]
    BY <1>3 DEF TypeOK
  <2>2. pc'[r] = "locked" /\ target'[r] = a /\ lock'[a] = r
    BY <1>3 DEF TypeOK
  <2>3. \A b \in Rows : b # a => lock'[b] = lock[b]
    BY <1>3 DEF TypeOK
  <2>4. TargetStable'
    BY <1>3, <2>1, <2>2, <2>3 DEF TargetStable, InTransaction, Active, TypeOK
  <2>5. ActiveSupers' = ActiveSupers
    BY DEF ActiveSupers, Active
  <2>6. CountStillHolds' /\ OkMeansRevoked' /\ RevokedOnce'
    BY <2>1, <2>2, <2>5 DEF CountStillHolds, OkMeansRevoked, RevokedOnce
  <2>7. SuperRemainsUnlessOverlapped'
    BY <2>5 DEF SuperRemainsUnlessOverlapped, SuperRemains
  <2> QED BY <1>1, <2>4, <2>6, <2>7
<1> QED BY <1>2, <1>3

(* Passing the count: another super-admin is active at this instant.        *)
LEMMA AllowedStep ==
    ASSUME RevokeInv, NEW r \in Requests, RevokeAllowed(r)
    PROVE  RevokeInv'
<1> USE DEF RevokeInv, RevokeAllowed, Moves, table
<1>1. TypeOK'
  BY DEF TypeOK, Chosen
<1>2. \A q \in Requests \ {r} : pc'[q] = pc[q]
  BY DEF TypeOK
<1>3. pc'[r] = "updating" /\ target[r] \in Rows
  BY DEF TypeOK, TargetStable, InTransaction, Active
<1>4. TargetStable'
  BY <1>2, <1>3 DEF TargetStable, InTransaction, Active
<1>5. ActiveSupers' = ActiveSupers
  BY DEF ActiveSupers, Active
<1>6. isSuper[target[r]] => ActiveSupers \ {target[r]} # {}
  BY <1>3, AnotherSuper
<1>7. CountStillHolds'
  BY <1>2, <1>3, <1>5, <1>6 DEF CountStillHolds
<1>8. OkMeansRevoked' /\ RevokedOnce' /\ SuperRemainsUnlessOverlapped'
  BY <1>2, <1>3, <1>5 DEF OkMeansRevoked, RevokedOnce, SuperRemainsUnlessOverlapped, SuperRemains
<1> QED BY <1>1, <1>4, <1>7, <1>8

(* Leaving a transaction without a write releases its own row only.         *)
LEMMA LeaveStep ==
    ASSUME RevokeInv, NEW r \in Requests, RevokeRefused(r) \/ Rollback(r)
    PROVE  RevokeInv'
<1> USE ConstantsAssumption DEF RevokeInv, RevokeRefused, Rollback, Release, Moves, table
<1>1. TypeOK'
  BY DEF TypeOK, Chosen
<1>2. \A q \in Requests \ {r} : pc'[q] = pc[q]
  BY DEF TypeOK
<1>3. ~InTransaction(r)' /\ pc'[r] # "ok" /\ target[r] \in Rows /\ lock[target[r]] = r
  BY DEF TypeOK, InTransaction, TargetStable, Active
<1>4. \A b \in Rows : b # target[r] => lock'[b] = lock[b]
  BY DEF TypeOK
<1>5. TargetStable'
  <2> SUFFICES ASSUME NEW q \in Requests, InTransaction(q)'
               PROVE  target[q] \in Active' /\ lock'[target[q]] = q
    BY DEF TargetStable
  <2>1. q # r /\ InTransaction(q)
    BY <1>2, <1>3 DEF InTransaction
  <2>2. target[q] \in Active /\ lock[target[q]] = q /\ target[q] # target[r]
    BY <1>3, <2>1 DEF TargetStable
  <2> QED BY <2>2, <1>4 DEF Active
<1>6. ActiveSupers' = ActiveSupers
  BY DEF ActiveSupers, Active
<1>7. CountStillHolds' /\ OkMeansRevoked' /\ RevokedOnce' /\ SuperRemainsUnlessOverlapped'
  BY <1>2, <1>3, <1>6 DEF CountStillHolds, OkMeansRevoked, RevokedOnce, InTransaction,
                          SuperRemainsUnlessOverlapped, SuperRemains
<1> QED BY <1>1, <1>5, <1>7

(* COMMIT: the row leaves the table; unless another transaction is past its *)
(* count too, the super-admin this one counted is still there.              *)
LEMMA CommitStep ==
    ASSUME RevokeInv, NEW r \in Requests, RevokeCommit(r)
    PROVE  RevokeInv'
<1> USE ConstantsAssumption DEF RevokeInv, RevokeCommit, Release, Moves
<1>1. TypeOK'
  BY DEF TypeOK, Chosen
<1>2. \A q \in Requests \ {r} : pc'[q] = pc[q]
  BY DEF TypeOK
<1>3. /\ pc'[r] = "ok" /\ target[r] \in Rows /\ lock[target[r]] = r
      /\ target[r] \in Active /\ status'[target[r]] = "revoked"
  BY DEF TypeOK, InTransaction, TargetStable, Active
<1>4. \A b \in Rows : b # target[r] => lock'[b] = lock[b] /\ status'[b] = status[b]
  BY DEF TypeOK
<1>5. TargetStable'
  <2> SUFFICES ASSUME NEW q \in Requests, InTransaction(q)'
               PROVE  target[q] \in Active' /\ lock'[target[q]] = q
    BY DEF TargetStable
  <2>1. q # r /\ InTransaction(q)
    BY <1>2, <1>3 DEF InTransaction
  <2>2. target[q] \in Active /\ lock[target[q]] = q /\ target[q] # target[r]
    BY <1>3, <2>1 DEF TargetStable
  <2> QED BY <2>2, <1>4 DEF Active
<1>6. CountStillHolds'
  BY <1>2, <1>3 DEF CountStillHolds
<1>7. OkMeansRevoked'
  BY <1>2, <1>3, <1>4 DEF OkMeansRevoked, TypeOK, Chosen
<1>8. RevokedOnce'
  BY <1>2, <1>3 DEF RevokedOnce, OkMeansRevoked, Active
<1>9. SuperRemainsUnlessOverlapped'
  <2> SUFFICES ASSUME ~overlapped', \E a \in Rows : isSuper[a]
               PROVE  (ActiveSupers # {})'
    BY DEF SuperRemainsUnlessOverlapped, SuperRemains
  <2>1. ActiveSupers \ {target[r]} \subseteq ActiveSupers'
    BY <1>4 DEF ActiveSupers, Active
  <2>2. CASE isSuper[target[r]]
    BY <2>1, <2>2 DEF CountStillHolds
  <2>3. CASE ~isSuper[target[r]]
    BY <2>1, <2>3 DEF SuperRemainsUnlessOverlapped, SuperRemains, ActiveSupers
  <2> QED BY <2>2, <2>3
<1> QED BY <1>1, <1>5, <1>6, <1>7, <1>8, <1>9

(* Every step of the specification keeps the invariant. *)
LEMMA RevokeInvStep == RevokeInv /\ [Next]_vars => RevokeInv'
<1> SUFFICES ASSUME RevokeInv, [Next]_vars PROVE RevokeInv'
  OBVIOUS
<1>1. CASE UNCHANGED vars
  <2>1. TypeOK'
    BY <1>1 DEF vars, table, request, RevokeInv, TypeOK, Chosen
  <2> QED BY <1>1, <2>1, QuietStep DEF vars, table, request
<1>2. ASSUME NEW b \in Boots, SeedCount(b) \/ SeedRefused(b)
      PROVE  RevokeInv'
  <2>1. TypeOK'
    BY <1>2 DEF SeedCount, SeedRefused, table, request, RevokeInv, TypeOK, Chosen
  <2> QED BY <1>2, <2>1, QuietStep DEF SeedCount, SeedRefused, request
<1>3. ASSUME NEW b \in Boots, NEW a \in Rows, SeedInsert(b, a)
      PROVE  RevokeInv'
  <2>1. boot' \in [Boots -> {"start", "insert", "up", "failed"}]
    BY <1>3 DEF SeedInsert, RevokeInv, TypeOK
  <2> QED BY <1>3, <2>1, InsertStep, ConstantsAssumption DEF SeedInsert, request
<1>4. ASSUME NEW a \in Rows, SignIn(a) \/ TokenExpires(a)
      PROVE  RevokeInv'
  <2>1. TypeOK'
    BY <1>4 DEF SignIn, TokenExpires, table, request, RevokeInv, TypeOK, Chosen,
                ActiveSupers, Active
  <2> QED BY <1>4, <2>1, QuietStep DEF SignIn, TokenExpires, request
<1>5. ASSUME NEW a \in Rows, NEW e \in Emails, OperatorInsert(a, e)
      PROVE  RevokeInv'
  <2>1. boot' \in [Boots -> {"start", "insert", "up", "failed"}]
    BY <1>5 DEF OperatorInsert, RevokeInv, TypeOK
  <2> QED BY <1>5, <2>1, InsertStep DEF OperatorInsert, request
<1>6. ASSUME NEW r \in Requests, CreateRefused(r) \/ \E e \in Emails : CreateCheck(r, e)
      PROVE  RevokeInv'
  <2>1. TypeOK'
    BY <1>6 DEF CreateRefused, CreateCheck, Moves, table, RevokeInv, TypeOK, Chosen
  <2>2. pc'[r] \in {"error", "in_use", "inserting"} /\ UNCHANGED target
    BY <1>6 DEF CreateRefused, CreateCheck, Moves, RevokeInv, TypeOK
  <2>3. \A q \in Requests \ {r} : pc'[q] = pc[q]
    BY <1>6 DEF CreateRefused, CreateCheck, Moves, RevokeInv, TypeOK
  <2>4. \A q \in Requests : \/ pc'[q] = pc[q] /\ target'[q] = target[q]
                            \/ ~InTransaction(q)' /\ pc'[q] # "ok"
    BY <2>2, <2>3 DEF InTransaction
  <2> QED BY <1>6, <2>1, <2>4, QuietStep DEF CreateRefused, CreateCheck
<1>7. ASSUME NEW r \in Requests, NEW a \in Rows, CreateInsert(r, a)
      PROVE  RevokeInv'
  <2>1. PICK e \in Emails : e = wanted[r]
    BY <1>7 DEF RevokeInv, TypeOK
  <2>2. Insert(a, e, FALSE)
    BY <1>7, <2>1 DEF CreateInsert, Insert, EmailInUse
  <2>3. boot' \in [Boots -> {"start", "insert", "up", "failed"}]
    BY <1>7 DEF CreateInsert, RevokeInv, TypeOK
  <2> QED BY <1>7, <2>2, <2>3, InsertStep DEF CreateInsert
<1>8. ASSUME NEW r \in Requests, Revoking(r)
      PROVE  RevokeInv'
  BY <1>8, AllowedStep, LeaveStep, CommitStep DEF Revoking
<1> QED BY <1>1, <1>2, <1>3, <1>4, <1>5, <1>6, <1>7, <1>8, LockStep DEF Next

(* The invariant of the revoke protocol. *)
THEOREM RevokeInvariant == Spec => []RevokeInv
<1>1. Init => RevokeInv
  <2> SUFFICES ASSUME Init PROVE RevokeInv
    OBVIOUS
  <2>1. \A r \in Requests : pc[r] = "idle"
    BY DEF Init
  <2>2. TypeOK
    BY <2>1, ConstantsAssumption DEF Init, TypeOK, Chosen
  <2>3. TargetStable /\ CountStillHolds /\ OkMeansRevoked /\ RevokedOnce
    BY <2>1 DEF TargetStable, InTransaction, CountStillHolds, OkMeansRevoked, RevokedOnce
  <2>4. \A a \in Rows : ~isSuper[a]
    BY DEF Init
  <2>5. SuperRemainsUnlessOverlapped
    BY <2>4 DEF SuperRemainsUnlessOverlapped, SuperRemains
  <2> QED BY <2>2, <2>3, <2>5 DEF RevokeInv
<1> QED BY <1>1, RevokeInvStep, PTL DEF Spec

(* revoke_if_not_last_super keeps an active super-admin as long as no two   *)
(* revokes overlap between their count and their COMMIT.                    *)
THEOREM LastSuperProtectedWithoutOverlap == Spec => []SuperRemainsUnlessOverlapped
BY RevokeInvariant, PTL DEF RevokeInv

(* Of any number of concurrent revokes of one admin, one answers ok.        *)
THEOREM RevokesAreExclusive == Spec => []RevokedOnce
BY RevokeInvariant, PTL DEF RevokeInv

=============================================================================
