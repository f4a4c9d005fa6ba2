------------------------ MODULE SharedCountersProofs ------------------------
(***************************************************************************)
(* Proofs about the counters in Redis, for any limits, times-to-live and     *)
(* number of requests: the token bucket, the lockout (with a counter that    *)
(* lives shorter than the lock), the sliding window and the session cost.   *)
(***************************************************************************)
EXTENDS SharedCounters, TLAPS

(* What a step of the whole can be for one of the counters.                  *)
LEMMA OneCounterMoves ==
    ASSUME [SharedNext]_allVars
    PROVE  /\ [Next]_vars /\ [LockoutNext]_lockoutVars /\ [CostNext]_costVars
           /\ [W!Next]_windowVars
BY DEF SharedNext, BucketStep, WindowStep, LockoutStep, CostStep, allVars


-----------------------------------------------------------------------------
(* The token bucket                                                         *)

LEMMA Init_BucketInv ==
    ASSUME Init
    PROVE  BucketInv
<1>1. /\ now = 0 /\ present = FALSE /\ tokens = Burst /\ refill = 0 /\ written = 0
      /\ start \in 0..MaxTime /\ spent = 0 /\ latest = 0 /\ skewed = FALSE
  BY DEF Init
<1>2. /\ pc \in [Requests -> {"idle", "asking", "refused", "reporting", "admitted", "denied"}]
      /\ stamp = [r \in Requests |-> 0]
  BY DEF Init
<1>3. stamp \in [Requests -> Nat] /\ \A r \in Requests : stamp[r] <= now
  BY <1>1, <1>2
<1>4. present \in BOOLEAN /\ skewed \in BOOLEAN
  BY <1>1
<1>5. /\ now \in 0..MaxTime /\ start \in 0..MaxTime /\ tokens \in 0..Burst
      /\ refill \in Nat /\ written \in Nat /\ latest \in Nat /\ spent \in Nat
      /\ latest <= now /\ written <= now
      /\ spent <= (IF latest > start THEN latest - start ELSE 0)
  BY <1>1, ConstantsAssumption
<1>6. TypeOK
  BY <1>2, <1>3, <1>4, <1>5 DEF TypeOK
<1> QED BY <1>1, <1>3, <1>5, <1>6 DEF BucketInv

(* What a stamp finds in the bucket is at most a burst, and at most what the *)
(* bucket held and what the time since then refills.                        *)
LEMMA AvailableBounds ==
    ASSUME NEW t \in Nat, present \in BOOLEAN, tokens \in 0..Burst, refill \in Nat
    PROVE  /\ Available(t) \in 0..Burst
           /\ ~present => Available(t) = Burst
           /\ present /\ t >= refill => Available(t) <= tokens + (t - refill)
BY ConstantsAssumption DEF Available, Smaller, Elapsed

LEMMA StampStep ==
    ASSUME BucketInv, NEW r \in Requests, Stamp(r)
    PROVE  BucketInv'
<1> USE DEF BucketInv, TypeOK
<1>1. stamp' \in [Requests -> Nat] /\ \A q \in Requests : stamp'[q] <= now
  BY ConstantsAssumption DEF Stamp
<1>2. pc' \in [Requests -> {"idle", "asking", "refused", "reporting", "admitted", "denied"}]
  BY DEF Stamp, Moves
<1> QED BY <1>1, <1>2 DEF Stamp, bucket, count

LEMMA TakeStep ==
    ASSUME BucketInv, NEW r \in Requests, Take(r)
    PROVE  BucketInv'
<1> DEFINE t == stamp[r]
<1>1. /\ t \in Nat /\ t <= now
      /\ present \in BOOLEAN /\ tokens \in 0..Burst /\ refill \in Nat
      /\ now \in 0..MaxTime /\ start \in 0..MaxTime /\ latest \in Nat /\ spent \in Nat
      /\ skewed \in BOOLEAN /\ latest <= now
      /\ Cost \in Nat \ {0} /\ Burst \in Nat
  BY ConstantsAssumption DEF BucketInv, TypeOK
<1>2. /\ Available(t) \in 0..Burst
      /\ ~present => Available(t) = Burst
      /\ present /\ t >= refill => Available(t) <= tokens + (t - refill)
  <2> HIDE DEF t
  <2> QED BY <1>1, AvailableBounds
<1>3. /\ Available(t) >= Cost
      /\ present' = TRUE /\ tokens' = Available(t) - Cost
      /\ refill' = t /\ written' = now
      /\ spent' = (IF t >= start THEN spent + Cost ELSE spent)
      /\ latest' = (IF t > latest THEN t ELSE latest)
      /\ skewed' = (skewed \/ t < latest)
      /\ UNCHANGED <<now, stamp, start>>
  BY DEF Take
<1>4. pc' \in [Requests -> {"idle", "asking", "refused", "reporting", "admitted", "denied"}]
  BY DEF Take, Answers, Moves, BucketInv, TypeOK
<1>5. stamp' \in [Requests -> Nat] /\ \A q \in Requests : stamp'[q] <= now'
  BY <1>3 DEF BucketInv, TypeOK
<1>6. ~skewed =>
         /\ present => refill = latest
         /\ ~present => spent <= (IF latest > start THEN latest - start ELSE 0)
         /\ present => spent + tokens <= Burst + (IF refill > start THEN refill - start ELSE 0)
         /\ latest < start => spent = 0
  BY DEF BucketInv
<1> HIDE DEF t
<1>7. /\ now' \in 0..MaxTime /\ start' \in 0..MaxTime
      /\ tokens' \in 0..Burst /\ refill' \in Nat /\ written' \in Nat /\ latest' \in Nat
      /\ spent' \in Nat /\ latest' <= now' /\ written' <= now' /\ refill' <= written'
  BY <1>1, <1>2, <1>3
<1>8. skewed' \in BOOLEAN /\ present' \in BOOLEAN
  BY <1>1, <1>3
<1>9. ASSUME ~skewed'
      PROVE  /\ refill' = latest'
             /\ spent' + tokens' <= Burst' + (IF refill' > start' THEN refill' - start' ELSE 0)
             /\ latest' < start' => spent' = 0
  <2>1. ~skewed /\ t >= latest
    <3>1. ~(skewed \/ t < latest)
      BY <1>3, <1>9, Zenon
    <3> QED BY <3>1, <1>1
  <2>2. CASE present
    BY <2>1, <2>2, <1>1, <1>2, <1>3, <1>6
  <2>3. CASE ~present
    BY <2>1, <2>3, <1>1, <1>2, <1>3, <1>6
  <2> QED BY <2>2, <2>3
<1>10. TypeOK'
  BY <1>4, <1>5, <1>7, <1>8 DEF TypeOK
<1> QED BY <1>3, <1>5, <1>7, <1>9, <1>10 DEF BucketInv

LEMMA AnswerStep ==
    ASSUME BucketInv, NEW r \in Requests, Refuse(r) \/ RedisFails(r)
    PROVE  BucketInv'
<1>1. pc' \in [Requests -> {"idle", "asking", "refused", "reporting", "admitted", "denied"}]
  BY DEF Refuse, RedisFails, Answers, Moves, BucketInv, TypeOK
<1>2. UNCHANGED <<now, bucket, stamp, start, count>>
  BY DEF Refuse, RedisFails
<1> QED BY <1>1, <1>2 DEF BucketInv, TypeOK, bucket, count

(* The facts about the integers in BucketInv.                               *)
LEMMA Figures ==
    ASSUME BucketInv
    PROVE  /\ now \in Nat /\ start \in Nat /\ latest \in Nat /\ spent \in Nat
           /\ tokens \in Nat /\ refill \in Nat /\ written \in Nat
           /\ now <= MaxTime /\ start <= MaxTime /\ latest <= now /\ written <= now
           /\ MaxTime \in Nat /\ Burst \in Nat /\ IdleTTL \in Nat /\ IdleTTL >= Burst
           /\ present => refill <= written
           /\ ~skewed =>
                 /\ present => refill = latest
                 /\ ~present => spent <= (IF latest > start THEN latest - start ELSE 0)
                 /\ present => spent + tokens <= Burst + (IF refill > start THEN refill - start ELSE 0)
                 /\ latest < start => spent = 0
BY ConstantsAssumption DEF BucketInv, TypeOK

LEMMA TickStep ==
    ASSUME BucketInv, Tick
    PROVE  BucketInv'
<1>1. /\ now < MaxTime /\ now' = now + 1
      /\ UNCHANGED <<present, tokens, refill, written, pc, stamp, start, spent, latest, skewed>>
  BY DEF Tick, bucket, count
<1>2. \A r \in Requests : stamp'[r] <= now'
  BY <1>1, Figures DEF BucketInv, TypeOK
<1>3. now' \in 0..MaxTime /\ latest' <= now' /\ written' <= now'
  BY <1>1, Figures
<1>4. TypeOK'
  BY <1>1, <1>3 DEF BucketInv, TypeOK
<1> QED BY <1>1, <1>2, <1>3, <1>4 DEF BucketInv

(* By the time the key expires the wait has paid for all the bucket gave.   *)
LEMMA ExpireStep ==
    ASSUME BucketInv, Expire
    PROVE  BucketInv'
<1>1. /\ present /\ now >= written + IdleTTL /\ present' = FALSE /\ latest' = now
      /\ UNCHANGED <<now, tokens, refill, written, pc, stamp, start, spent, skewed>>
  BY DEF Expire
<1>2. TypeOK' /\ \A r \in Requests : stamp'[r] <= now'
  <2>1. present' \in BOOLEAN /\ latest' \in Nat
    BY <1>1, Figures
  <2>2. TypeOK /\ \A r \in Requests : stamp[r] <= now
    BY DEF BucketInv
  <2>3. \A r \in Requests : stamp'[r] <= now'
    BY <1>1, <2>2
  <2> QED BY <1>1, <2>1, <2>2, <2>3, ZenonT(30) DEF TypeOK
<1>3. ASSUME ~skewed
      PROVE  /\ spent <= (IF now > start THEN now - start ELSE 0)
             /\ now < start => spent = 0
  <2>1. /\ refill = latest /\ (latest < start => spent = 0)
        /\ spent + tokens <= Burst + (IF refill > start THEN refill - start ELSE 0)
        /\ now >= refill + Burst
    BY <1>1, <1>3, Figures
  <2>2. CASE refill < start
    BY <2>1, <2>2, Figures
  <2>3. CASE refill >= start
    BY <2>1, <2>3, Figures
  <2> QED BY <2>2, <2>3, Figures
<1>4. latest' <= now' /\ written' <= now'
  BY <1>1, Figures
<1> QED BY <1>1, <1>2, <1>3, <1>4 DEF BucketInv

LEMMA ResetStep ==
    ASSUME BucketInv, Reset
    PROVE  BucketInv'
<1>1. /\ present' = FALSE /\ latest' = now /\ spent' = 0
      /\ start' = (IF start < now THEN now ELSE start)
      /\ UNCHANGED <<now, tokens, refill, written, pc, stamp, skewed>>
  BY DEF Reset
<1>2. start' \in 0..MaxTime /\ latest' <= now' /\ written' <= now'
  BY <1>1, Figures
<1>3. TypeOK' /\ \A r \in Requests : stamp'[r] <= now'
  <2>1. present' \in BOOLEAN /\ latest' \in Nat /\ spent' \in Nat
    BY <1>1, Figures
  <2>2. TypeOK /\ \A r \in Requests : stamp[r] <= now
    BY DEF BucketInv
  <2>3. \A r \in Requests : stamp'[r] <= now'
    BY <1>1, <2>2
  <2> QED BY <1>1, <1>2, <2>1, <2>2, <2>3, ZenonT(30) DEF TypeOK
<1>4. spent' <= (IF latest' > start' THEN latest' - start' ELSE 0)
  BY <1>1, Figures
<1> QED BY <1>1, <1>2, <1>3, <1>4 DEF BucketInv

(* The ledger of a bucket, what it holds and what it gave away, stays within *)
(* one burst and the refill, whatever requests, resets and expiries do.     *)
THEOREM BucketInvariant == SharedSpec => []BucketInv
<1>1. BucketInv /\ [Next]_vars => BucketInv'
  <2> SUFFICES ASSUME BucketInv, [Next]_vars PROVE BucketInv'
    OBVIOUS
  <2>1. CASE Tick \/ Expire \/ Reset
    BY <2>1, TickStep, ExpireStep, ResetStep
  <2>2. ASSUME NEW r \in Requests, Stamp(r) PROVE BucketInv'
    BY <2>2, StampStep
  <2>3. ASSUME NEW r \in Requests, Take(r) PROVE BucketInv'
    BY <2>3, TakeStep
  <2>4. ASSUME NEW r \in Requests, Refuse(r) \/ RedisFails(r) PROVE BucketInv'
    BY <2>4, AnswerStep
  <2>5. CASE UNCHANGED vars
    BY <2>5 DEF vars, BucketInv, TypeOK, bucket, count
  <2> QED BY <2>1, <2>2, <2>3, <2>4, <2>5 DEF Next
<1>2. SharedInit => BucketInv
  BY Init_BucketInv DEF SharedInit
<1>3. BucketInv /\ [SharedNext]_allVars => BucketInv'
  BY <1>1, OneCounterMoves
<1> QED BY <1>2, <1>3, PTL DEF SharedSpec

(* No interval yields more than one burst and its refill, as long as stamps  *)
(* reach the bucket in order.                                               *)
THEOREM BurstIsBounded == SharedSpec => []BurstBounded
<1>1. BucketInv => BurstBounded
  <2> SUFFICES ASSUME BucketInv, ~skewed
               PROVE  spent <= Burst + (IF now > start THEN now - start ELSE 0)
    BY DEF BurstBounded
  <2>1. CASE ~present
    BY <2>1, Figures
  <2>2. CASE present
    BY <2>2, Figures
  <2> QED BY <2>1, <2>2
<1> QED BY <1>1, BucketInvariant, PTL

-----------------------------------------------------------------------------
(* The lockout                                                              *)

(* Steps that write neither key keep the invariant if they bring nobody to  *)
(* the EXEC with a clean WATCH while the marker is there.                   *)
LEMMA QuietStep ==
    ASSUME LockoutInv, UNCHANGED <<clock, counter, marker>>, LockoutTypeOK',
           \A r \in Attempts : verifying'[r] = "striking" /\ ~touched'[r] => ~locked
    PROVE  LockoutInv'
BY DEF LockoutInv, counter, marker, InvalidAnswersBounded, CounterDiesFirst

(* A strike renews the counter's window; its WATCH says no marker is there. *)
LEMMA StrikeStep ==
    ASSUME LockoutInv, NEW r \in Attempts, Strike(r)
    PROVE  LockoutInv'
<1> USE LockoutAssumption DEF LockoutInv, Strike, Struck, marker, Goes
<1>1. ~locked /\ ~locked'
  OBVIOUS
<1>2. LockoutTypeOK'
  BY DEF LockoutTypeOK
<1>3. InvalidAnswersBounded' /\ (told <= failures)'
  BY DEF LockoutTypeOK, InvalidAnswersBounded
<1>4. CounterDiesFirst' /\ (failures > 0 => counterEnds <= clock + CounterTTL)'
  BY <1>1 DEF LockoutTypeOK, CounterDiesFirst
<1> QED BY <1>1, <1>2, <1>3, <1>4

(* Every step of the specification keeps the invariant. *)
LEMMA LockoutInvStep == LockoutInv /\ [LockoutNext]_lockoutVars => LockoutInv'
<1> SUFFICES ASSUME LockoutInv, [LockoutNext]_lockoutVars PROVE LockoutInv'
  OBVIOUS
<1> USE LockoutAssumption
<1>1. CASE UNCHANGED lockoutVars
  BY <1>1 DEF lockoutVars, counter, marker, LockoutInv, LockoutTypeOK, InvalidAnswersBounded, CounterDiesFirst
<1>2. CASE ClockTicks
  BY <1>2 DEF ClockTicks, LockoutInv, LockoutTypeOK, Touched, InvalidAnswersBounded, CounterDiesFirst
<1>3. ASSUME NEW r \in Attempts,
             Begin(r) \/ Watch(r) \/ Recheck(r) \/ StrikeAborts(r) \/ RequestDies(r)
      PROVE  LockoutInv'
  <2>1. LockoutTypeOK'
    BY <1>3 DEF Begin, Watch, Recheck, StrikeAborts, RequestDies, Goes, counter, marker,
                LockoutInv, LockoutTypeOK
  <2>2. \A q \in Attempts \ {r} : verifying'[q] = verifying[q] /\ touched'[q] = touched[q]
    BY <1>3 DEF Begin, Watch, Recheck, StrikeAborts, RequestDies, Goes, LockoutInv, LockoutTypeOK
  <2>3. verifying'[r] = "striking" => ~locked
    BY <1>3 DEF Begin, Watch, Recheck, StrikeAborts, RequestDies, Goes, LockoutInv, LockoutTypeOK
  <2>4. \A q \in Attempts : verifying'[q] = "striking" /\ ~touched'[q] => ~locked
    BY <2>2, <2>3 DEF LockoutInv
  <2>5. UNCHANGED <<clock, counter, marker>>
    BY <1>3 DEF Begin, Watch, Recheck, StrikeAborts, RequestDies
  <2> QED BY <2>1, <2>4, <2>5, QuietStep
<1>4. ASSUME NEW r \in Attempts, ClearCounter(r)
      PROVE  LockoutInv'
  <2>1. LockoutTypeOK'
    BY <1>4 DEF ClearCounter, Goes, marker, LockoutInv, LockoutTypeOK
  <2>2. \A q \in Attempts : verifying'[q] = "striking" => verifying[q] = "striking"
    BY <1>4 DEF ClearCounter, Goes, LockoutInv, LockoutTypeOK
  <2>3. UNCHANGED <<locked, touched>> /\ failures' = 0 /\ told' = 0
    BY <1>4 DEF ClearCounter, marker
  <2>4. InvalidAnswersBounded' /\ CounterDiesFirst'
    BY <2>3 DEF InvalidAnswersBounded, CounterDiesFirst
  <2> QED BY <2>1, <2>2, <2>3, <2>4 DEF LockoutInv
<1>5. ASSUME NEW r \in Attempts, ClearLock(r)
      PROVE  LockoutInv'
  BY <1>5 DEF ClearLock, Goes, Touched, counter, LockoutInv, LockoutTypeOK, InvalidAnswersBounded,
              CounterDiesFirst
<1>6. ASSUME NEW r \in Attempts, Lock(r)
      PROVE  LockoutInv'
  <2>1. LockoutTypeOK' /\ InvalidAnswersBounded' /\ (told <= failures)'
    BY <1>6 DEF Lock, Goes, Touched, counter, LockoutInv, LockoutTypeOK, InvalidAnswersBounded
  <2>2. CounterDiesFirst' /\ (failures > 0 => counterEnds <= clock + CounterTTL)'
    BY <1>6 DEF Lock, counter, LockoutInv, LockoutTypeOK, CounterDiesFirst
  <2>3. \A q \in Attempts : touched'[q]
    BY <1>6 DEF Lock, Touched
  <2> QED BY <2>1, <2>2, <2>3 DEF LockoutInv
<1> QED BY <1>1, <1>2, <1>3, <1>4, <1>5, <1>6, StrikeStep DEF LockoutNext, Verifying

(* The invariant of the lockout protocol. *)
THEOREM LockoutInvariant == SharedSpec => []LockoutInv
<1>1. LockoutInit => LockoutInv
  <2> SUFFICES ASSUME LockoutInit PROVE LockoutInv
    OBVIOUS
  <2>1. LockoutTypeOK
    <3>1. clock \in 0..MaxClock /\ failures \in Nat /\ counterEnds \in Nat /\ told \in Nat
          /\ lockEnds \in Nat
      BY LockoutAssumption DEF LockoutInit
    <3>2. locked \in BOOLEAN /\ excused \in BOOLEAN /\ touched \in [Attempts -> BOOLEAN]
      BY DEF LockoutInit
    <3>3. verifying \in [Attempts -> {"idle"}]
      BY DEF LockoutInit
    <3> QED BY <3>1, <3>2, <3>3 DEF LockoutTypeOK
  <2>2. InvalidAnswersBounded /\ CounterDiesFirst
    BY LockoutAssumption DEF LockoutInit, InvalidAnswersBounded, CounterDiesFirst
  <2>3. ~locked
    BY DEF LockoutInit
  <2>4. ~(failures > 0) /\ told <= failures
    BY DEF LockoutInit
  <2> QED BY <2>1, <2>2, <2>3, <2>4 DEF LockoutInv
<1>2. SharedInit => LockoutInv
  BY <1>1 DEF SharedInit
<1>3. LockoutInv /\ [SharedNext]_allVars => LockoutInv'
  BY LockoutInvStep, OneCounterMoves
<1> QED BY <1>2, <1>3, PTL DEF SharedSpec

(* At most MaxFailures - 1 wrong codes are answered "invalid code" in the    *)
(* life of one counter.                                                     *)
THEOREM InvalidAnswersAreBounded == SharedSpec => []InvalidAnswersBounded
BY LockoutInvariant, PTL DEF LockoutInv

(* A lock outlives the counter that caused it. *)
THEOREM LockOutlivesCounter == SharedSpec => []CounterDiesFirst
BY LockoutInvariant, PTL DEF LockoutInv

(* No step counts a failure while the marker is there.                      *)
THEOREM LockedAttemptsAreNotCounted == SharedSpec => NoStrikeWhileLocked
<1>1. LockoutInv /\ [LockoutNext]_lockoutVars => [locked => failures' <= failures]_lockoutVars
  <2> SUFFICES ASSUME LockoutInv, LockoutNext, locked PROVE failures' <= failures
    BY DEF lockoutVars
  <2>1. CASE ClockTicks
    BY <2>1 DEF ClockTicks, LockoutInv, LockoutTypeOK
  <2>2. ASSUME NEW r \in Attempts, Verifying(r) \/ RequestDies(r)
        PROVE  failures' <= failures
    BY <2>2 DEF Verifying, Begin, ClearCounter, ClearLock, Watch, Recheck, Strike, StrikeAborts,
                Lock, RequestDies, counter, LockoutInv, LockoutTypeOK
  <2> QED BY <2>1, <2>2 DEF LockoutNext
<1>2. LockoutInv /\ [SharedNext]_allVars => [locked => failures' <= failures]_lockoutVars
  BY <1>1, OneCounterMoves
<1> QED BY <1>2, LockoutInvariant, PTL DEF SharedSpec, NoStrikeWhileLocked

(* A step that leaves the keys and the excuse alone, and takes nobody away    *)
(* from the SET of the marker.                                              *)
LEMMA LockStillDue ==
    ASSUME StrikesLock, UNCHANGED <<failures, locked>>, excused => excused',
           \A q \in Attempts : verifying[q] = "locking" => verifying'[q] = "locking"
    PROVE  StrikesLock'
BY DEF StrikesLock

LEMMA StrikesLockStep ==
    ASSUME LockoutInv, StrikesLock, [LockoutNext]_lockoutVars
    PROVE  StrikesLock'
<1>1. CASE UNCHANGED lockoutVars
  BY <1>1 DEF lockoutVars, counter, marker, StrikesLock
<1>2. CASE ClockTicks
  <2>1. /\ failures' = (IF failures > 0 /\ counterEnds <= clock + 1 THEN 0 ELSE failures)
        /\ locked' = (locked /\ ~(locked /\ lockEnds <= clock + 1))
        /\ excused' = (excused /\ ~(failures > 0 /\ counterEnds <= clock + 1))
        /\ verifying' = verifying
    BY <1>2 DEF ClockTicks
  <2>2. /\ clock \in Nat /\ failures \in Nat /\ counterEnds \in Nat /\ lockEnds \in Nat
        /\ MaxFailures \in Nat \ {0}
        /\ locked /\ failures > 0 => counterEnds < lockEnds
    BY LockoutAssumption DEF LockoutInv, LockoutTypeOK, CounterDiesFirst
  <2>3. CASE failures > 0 /\ counterEnds <= clock + 1
    BY <2>1, <2>2, <2>3 DEF StrikesLock
  <2>4. CASE ~(failures > 0 /\ counterEnds <= clock + 1)
    (* A marker that ends now ends after the counter, so there is none.      *)
    <3>1. failures' = failures /\ (excused => excused')
      BY <2>1, <2>4
    <3>2. failures > 0 /\ locked => ~(lockEnds <= clock + 1)
      BY <2>2, <2>4
    <3>3. failures > 0 /\ locked => locked'
      BY <2>1, <3>2
    <3> QED BY <2>1, <2>2, <3>1, <3>3 DEF StrikesLock
  <2> QED BY <2>3, <2>4
<1>3. ASSUME NEW r \in Attempts, Begin(r) \/ Watch(r) \/ Recheck(r) \/ StrikeAborts(r)
      PROVE  StrikesLock'
  BY <1>3, LockStillDue DEF Begin, Watch, Recheck, StrikeAborts, Goes, counter, marker,
                            LockoutInv, LockoutTypeOK
<1>4. ASSUME NEW r \in Attempts, ClearCounter(r)
      PROVE  StrikesLock'
  BY <1>4, LockoutAssumption DEF ClearCounter, StrikesLock
<1>5. ASSUME NEW r \in Attempts, ClearLock(r)
      PROVE  StrikesLock'
  <2>1. \A q \in Attempts : verifying[q] = "locking" => verifying'[q] = "locking"
    BY <1>5 DEF ClearLock, Goes, LockoutInv, LockoutTypeOK
  <2>2. failures' = failures /\ excused' = (excused \/ (locked /\ failures > 0))
    BY <1>5 DEF ClearLock, counter
  <2>3. failures >= MaxFailures => failures > 0
    BY LockoutAssumption DEF LockoutInv, LockoutTypeOK
  <2> QED BY <2>1, <2>2, <2>3 DEF StrikesLock
<1>6. ASSUME NEW r \in Attempts, Strike(r)
      PROVE  StrikesLock'
  <2>1. verifying'[r] = IF failures' >= MaxFailures THEN "locking" ELSE "invalid"
    BY <1>6 DEF Strike, Struck, Goes, LockoutInv, LockoutTypeOK
  <2> QED BY <2>1 DEF StrikesLock
<1>7. ASSUME NEW r \in Attempts, Lock(r)
      PROVE  StrikesLock'
  BY <1>7 DEF Lock, StrikesLock
<1>8. ASSUME NEW r \in Attempts, RequestDies(r)
      PROVE  StrikesLock'
  <2>1. \A q \in Attempts : verifying[q] = "locking" => verifying'[q] = "locking" \/ excused'
    BY <1>8 DEF RequestDies, Goes, LockoutInv, LockoutTypeOK
  <2>2. UNCHANGED <<failures, locked>> /\ (excused => excused')
    BY <1>8 DEF RequestDies, counter, marker
  <2> QED BY <2>1, <2>2 DEF StrikesLock
<1> QED BY <1>1, <1>2, <1>3, <1>4, <1>5, <1>6, <1>7, <1>8 DEF LockoutNext, Verifying

(* Once the counter has reached the limit the account is locked or about to   *)
(* be, unless a valid code in flight lifted the lock or its writer died.     *)
THEOREM StrikesDoLock == SharedSpec => []StrikesLock
<1>1. SharedInit => StrikesLock
  BY LockoutAssumption DEF SharedInit, LockoutInit, StrikesLock
<1>2. LockoutInv /\ StrikesLock /\ [SharedNext]_allVars => StrikesLock'
  BY StrikesLockStep, OneCounterMoves
<1> QED BY <1>1, <1>2, LockoutInvariant, PTL DEF SharedSpec

-----------------------------------------------------------------------------
(* The sliding window *)

(* A time is so many whole windows and a rest of one.                       *)
LEMMA Division ==
    ASSUME NEW t \in Nat
    PROVE  /\ t \div Window \in Nat /\ t % Window \in 0..Window - 1
           /\ t = Window * (t \div Window) + (t % Window)
BY WindowAssumption

LEMMA Scaled ==
    ASSUME NEW a \in Int, NEW b \in Int, a * Window < b * Window
    PROVE  a < b
<1>1. CASE b <= a
  <2>1. PICK k \in Nat : a = b + k
    BY <1>1
  <2>2. a * Window = b * Window + k * Window
    BY <2>1, WindowAssumption
  <2>3. k * Window >= 0
    BY WindowAssumption
  <2> QED BY <2>2, <2>3, WindowAssumption
<1> QED BY <1>1

LEMMA Quotients ==
    ASSUME NEW a \in Nat, NEW b \in Nat, a <= b
    PROVE  a \div Window <= b \div Window
<1>1. PICK p \in Nat, i \in 0..Window - 1 : p = a \div Window /\ a = Window * p + i
  BY Division, Zenon
<1>2. PICK q \in Nat, j \in 0..Window - 1 : q = b \div Window /\ b = Window * q + j
  BY Division, Zenon
<1>3. p * Window < (q + 1) * Window
  BY <1>1, <1>2, WindowAssumption
<1> QED BY <1>1, <1>2, <1>3, Scaled

(* Times no more than a window apart lie in one window or in two adjacent    *)
(* ones, the later no deeper in its own than they are apart.                *)
LEMMA Neighbours ==
    ASSUME NEW a \in Nat, NEW b \in Nat, a <= b, b - a <= Window
    PROVE  /\ b \div Window \in {a \div Window, a \div Window + 1}
           /\ b \div Window # a \div Window => b % Window <= b - a
<1>1. PICK p \in Nat, i \in 0..Window - 1 : p = a \div Window /\ a = Window * p + i
  BY Division, Zenon
<1>2. PICK q \in Nat, j \in 0..Window - 1 :
          q = b \div Window /\ j = b % Window /\ b = Window * q + j
  BY Division, Zenon
<1>3. p <= q
  BY <1>1, <1>2, Quotients
<1>4. q * Window < (p + 2) * Window
  BY <1>1, <1>2, WindowAssumption
<1>5. q < p + 2
  BY <1>4, Scaled
<1>6. CASE q = p + 1
  BY <1>1, <1>2, <1>6, WindowAssumption
<1> QED BY <1>1, <1>2, <1>3, <1>5, <1>6

(* What a grant that weighed both windows says of the two counts.           *)
LEMMA TwoWindows ==
    ASSUME NEW g \in Nat, NEW c \in 0..Max, NEW p \in 0..Max, NEW m \in 0..Window - 1,
           NEW d \in 0..Window, g <= c + p, m <= d,
           (c - 1) * Window + p * (Window - m) < Max * Window
    PROVE  g * Window <= Max * Window + Max * d + Window
<1> USE WindowAssumption
<1>1. g * Window <= (c + p) * Window
  <2>1. PICK k \in Nat : c + p = g + k
    OBVIOUS
  <2>2. (g + k) * Window = g * Window + k * Window /\ k * Window >= 0
    OBVIOUS
  <2> QED BY <2>1, <2>2
<1>2. (c + p) * Window = c * Window + p * Window
  OBVIOUS
<1>3. (c - 1) * Window = c * Window - Window /\ p * (Window - m) = p * Window - p * m
  OBVIOUS
<1>4. p * m <= Max * d
  <2>1. PICK k \in Nat : Max = p + k
    OBVIOUS
  <2>2. PICK n \in Nat : d = m + n
    OBVIOUS
  <2>3. Max * d = p * m + p * n + k * m + k * n
    BY <2>1, <2>2
  <2>4. p * n >= 0 /\ k * m >= 0 /\ k * n >= 0
    OBVIOUS
  <2> QED BY <2>3, <2>4
<1> QED BY <1>1, <1>2, <1>3, <1>4

(* The clock is ahead of every stamp.                                       *)
StampsPast == newest <= second /\ \A r \in Slots : brought[r] <= second

(* While the interval is no longer than a window, its grants are counted in   *)
(* the window it began in and the next, neither of which expires with one,   *)
(* and the last grant in the next weighed both.                             *)
GrantsCounted ==
    LET l == newest \div Window
        s == from \div Window IN
    ~late /\ ~mixed /\ second - from <= Window /\ granted > 0 =>
        /\ from <= newest /\ incremented[l] >= from /\ counts[l] > 0
        /\ l = s => granted <= counts[l]
        /\ l # s =>
              /\ l = s + 1 /\ granted <= counts[l] + counts[s]
              /\ granted <= counts[l] \/ incremented[s] >= from
              /\ (counts[l] - 1) * Window + counts[s] * (Window - (newest % Window))
                    < Max * Window

(* The inductive strengthening of NoDoubleBurst.                            *)
WindowInv == W!TypeOK /\ StampsPast /\ GrantsCounted

LEMMA WindowsAreBounded ==
    ASSUME NEW t \in 0..MaxSeconds
    PROVE  t \div Window \in W!Windows
BY Quotients, Division, WindowAssumption DEF W!Windows

LEMMA WindowsFromZero ==
    /\ W!Windows \subseteq Nat /\ 0 \in W!Windows
    /\ \A w \in W!Windows : w # 0 => w - 1 \in W!Windows
<1>1. PICK n \in Nat : n = MaxSeconds \div Window
  BY Division, WindowAssumption, Zenon
<1> QED BY <1>1 DEF W!Windows

LEMMA WindowTickStep ==
    ASSUME WindowInv, W!Tick
    PROVE  WindowInv'
<1> USE WindowAssumption DEF WindowInv, W!Tick
<1>1. W!TypeOK'
  BY DEF W!TypeOK, W!Windows, W!count
<1>2. StampsPast'
  BY DEF StampsPast, W!TypeOK, W!count
<1>3. GrantsCounted'
  BY DEF GrantsCounted, W!TypeOK, W!count
<1> QED BY <1>1, <1>2, <1>3

LEMMA WindowStampStep ==
    ASSUME WindowInv, NEW r \in Slots, W!Stamp(r)
    PROVE  WindowInv'
<1> USE WindowAssumption DEF WindowInv, W!Stamp
<1>1. PICK t \in {second, second - 1} \cap Nat : brought' = [brought EXCEPT ![r] = t]
  OBVIOUS
<1>2. t \in 0..MaxSeconds /\ t <= second
  BY <1>1 DEF W!TypeOK
<1>3. second \div Window \in W!Windows
  BY WindowsAreBounded DEF W!TypeOK
<1>4. W!TypeOK'
  BY <1>1, <1>2, <1>3 DEF W!TypeOK, W!Moves, W!count
<1>5. StampsPast'
  BY <1>1, <1>2 DEF StampsPast, W!TypeOK, W!count
<1>6. GrantsCounted'
  BY DEF GrantsCounted, W!count
<1> QED BY <1>4, <1>5, <1>6

LEMMA WindowAnswerStep ==
    ASSUME WindowInv, NEW r \in Slots, NEW to \in {"idle", "refused"}, W!Answers(r, to)
    PROVE  /\ asking' \in [Slots -> {"idle", "asking", "refused", "reporting"}]
           /\ brought' \in [Slots -> 0..MaxSeconds] /\ key' \in [Slots -> W!Windows]
           /\ \A u \in Slots : brought'[u] <= second
<1> USE WindowAssumption DEF WindowInv, W!TypeOK, W!Answers, W!Moves
<1>1. 0 \in W!Windows
  BY WindowsFromZero
<1> QED BY <1>1 DEF StampsPast

(* What the script found when it granted.                                   *)
LEMMA GrantWeighs ==
    ASSUME WindowInv, NEW r \in Slots, W!Grants(r)
    PROVE  /\ counts[key[r]] < Max
           /\ key[r] > 0 =>
                 (counts[key[r]]) * Window
                 + counts[key[r] - 1] * (Window - (brought[r] % Window)) < Max * Window
<1> USE WindowAssumption
<1>1. PICK w \in Nat, c \in 0..Max, t \in Nat :
          /\ w = key[r] /\ w \in W!Windows /\ c = counts[w] /\ t = brought[r]
  <2>1. key[r] \in W!Windows
    BY DEF WindowInv, W!TypeOK
  <2>2. key[r] \in Nat
    BY <2>1, WindowsFromZero
  <2>3. counts[key[r]] \in 0..Max
    BY <2>1 DEF WindowInv, W!TypeOK
  <2>4. brought[r] \in 0..MaxSeconds /\ 0..MaxSeconds \subseteq Nat
    BY DEF WindowInv, W!TypeOK
  <2> QED BY <2>1, <2>2, <2>3, <2>4
<1>2. PICK p \in 0..Max : p = IF w = 0 THEN 0 ELSE counts[w - 1]
  BY <1>1, WindowsFromZero DEF WindowInv, W!TypeOK
<1>3. PICK m \in 0..Window - 1 : m = t % Window
  BY Division, Zenon
<1>4. c * Window + p * (Window - m) < Max * Window
  BY <1>1, <1>2, <1>3 DEF W!Grants, W!Weighed
<1>5. p * (Window - m) \in Nat
  <2>1. \A a, b \in Nat : a * b \in Nat
    OBVIOUS
  <2> QED BY <2>1
<1>6. c * Window < Max * Window
  BY <1>4, <1>5
<1>7. c < Max
  BY <1>6, Scaled
<1> QED BY <1>1, <1>2, <1>3, <1>4, <1>7

LEMMA WindowTakeStep ==
    ASSUME WindowInv, NEW r \in Slots, W!Take(r)
    PROVE  WindowInv'
<1> USE WindowAssumption
<1>1. PICK w \in W!Windows, t \in 0..MaxSeconds : w = key[r] /\ t = brought[r] /\ t <= second
  BY DEF WindowInv, W!TypeOK, StampsPast
<1>2. /\ counts' = [counts EXCEPT ![w] = @ + 1]
      /\ incremented' = [incremented EXCEPT ![w] = second]
      /\ granted' = IF t >= from THEN granted + 1 ELSE granted
      /\ newest' = IF t > newest THEN t ELSE newest
      /\ late' = (late \/ t < newest)
      /\ mixed' = (mixed \/ t \div Window # w)
      /\ second' = second /\ from' = from
  BY <1>1 DEF W!Take
<1>3. /\ counts[w] < Max
      /\ w > 0 => counts[w] * Window + counts[w - 1] * (Window - (t % Window)) < Max * Window
  BY <1>1, GrantWeighs DEF W!Take
<1>4. /\ counts \in [W!Windows -> 0..Max] /\ incremented \in [W!Windows -> 0..MaxSeconds]
      /\ second \in 0..MaxSeconds /\ from \in 0..MaxSeconds /\ newest \in 0..MaxSeconds
      /\ second \in Nat /\ from \in Nat /\ newest \in Nat /\ t \in Nat
      /\ granted \in Nat /\ late \in BOOLEAN /\ mixed \in BOOLEAN /\ newest <= second
      /\ W!Windows \subseteq Nat
  BY WindowsFromZero DEF WindowInv, W!TypeOK, StampsPast
<1>5. /\ asking' \in [Slots -> {"idle", "asking", "refused", "reporting"}]
      /\ brought' \in [Slots -> 0..MaxSeconds] /\ key' \in [Slots -> W!Windows]
      /\ \A u \in Slots : brought'[u] <= second
  BY WindowAnswerStep DEF W!Take
<1>6. W!TypeOK'
  <2>1. late' \in BOOLEAN /\ mixed' \in BOOLEAN
    BY <1>2, <1>4
  <2>2. counts' \in [W!Windows -> 0..Max] /\ incremented' \in [W!Windows -> 0..MaxSeconds]
    BY <1>2, <1>3, <1>4
  <2>3. newest' \in 0..MaxSeconds /\ granted' \in Nat
    BY <1>2, <1>4
  <2>4. W!Windows' = W!Windows
    BY DEF W!Windows
  <2> QED BY <1>2, <1>4, <1>5, <2>1, <2>2, <2>3, <2>4 DEF W!TypeOK
<1>7. StampsPast'
  BY <1>1, <1>2, <1>4, <1>5 DEF StampsPast
<1>8. GrantsCounted'
  <2> SUFFICES ASSUME ~late', ~mixed', second - from <= Window, granted' > 0
               PROVE  GrantsCounted'
    BY <1>2 DEF GrantsCounted
  <2>1. ~late /\ ~mixed /\ ~(t < newest) /\ w = t \div Window
    BY <1>2, Zenon
  <2>2. ~late /\ ~mixed /\ newest <= t /\ w = t \div Window /\ newest' = t
    BY <1>2, <1>4, <2>1
  <2>3. PICK l \in Nat, s \in Nat : l = newest \div Window /\ s = from \div Window
    BY <1>4, Division, Zenon
  <2>4. l \in W!Windows /\ s \in W!Windows
    BY <1>4, <2>3, WindowsAreBounded
  <2>5. granted > 0 =>
            /\ from <= newest /\ incremented[l] >= from /\ counts[l] > 0
            /\ l = s => granted <= counts[l]
            /\ l # s =>
                  /\ l = s + 1 /\ granted <= counts[l] + counts[s]
                  /\ granted <= counts[l] \/ incremented[s] >= from
    BY <1>4, <2>2, <2>3 DEF WindowInv, GrantsCounted
  <2>6. t >= from /\ granted' = granted + 1
    BY <1>2, <1>4, <2>2, <2>5
  <2>7. w \in {s, s + 1}
    BY <1>1, <1>4, <2>2, <2>3, <2>6, Neighbours
  <2>8. granted > 0 => l <= w
    BY <1>4, <2>2, <2>3, Quotients
  <2>9. incremented'[w] >= from /\ counts'[w] > 0 /\ counts'[w] = counts[w] + 1
    BY <1>1, <1>2, <1>4, <2>6
  <2>10. w = s => granted' <= counts'[w]
    BY <1>4, <2>4, <2>5, <2>6, <2>8, <2>9
  <2>11. ASSUME w # s
         PROVE  /\ w = s + 1 /\ granted' <= counts'[w] + counts'[s]
                /\ granted' <= counts'[w] \/ incremented'[s] >= from
                /\ (counts'[w] - 1) * Window + counts'[s] * (Window - (t % Window))
                      < Max * Window
    <3>1. w = s + 1 /\ counts'[s] = counts[s] /\ incremented'[s] = incremented[s]
      BY <1>2, <1>4, <2>4, <2>7, <2>11
    <3>2. counts[w] \in 0..Max /\ counts[s] \in 0..Max
      BY <1>4, <2>4
    <3>3. /\ granted' <= counts'[w] + counts'[s]
          /\ granted' <= counts'[w] \/ incremented'[s] >= from
      BY <1>4, <2>4, <2>5, <2>6, <2>8, <2>9, <3>1, <3>2
    <3>4. w > 0 /\ w - 1 = s /\ counts'[w] - 1 = counts[w]
      BY <1>4, <2>9, <3>1, <3>2
    <3>5. counts[w] * Window + counts[s] * (Window - (t % Window)) < Max * Window
      BY <1>3, <3>4
    <3> QED BY <3>1, <3>3, <3>4, <3>5
  <2> QED BY <1>2, <1>4, <2>2, <2>3, <2>6, <2>9, <2>10, <2>11 DEF GrantsCounted
<1> QED BY <1>6, <1>7, <1>8 DEF WindowInv

LEMMA WindowExpireStep ==
    ASSUME WindowInv, NEW w \in W!Windows, W!Expire(w)
    PROVE  WindowInv'
<1> USE WindowAssumption
<1>1. /\ counts[w] > 0 /\ second >= incremented[w] + 2 * Window
      /\ counts' = [counts EXCEPT ![w] = 0]
      /\ incremented' = [incremented EXCEPT ![w] = 0]
      /\ UNCHANGED <<second, asking, brought, key, from, granted, newest, late, mixed>>
  BY DEF W!Expire, W!Life, W!count
<1>2. /\ counts \in [W!Windows -> 0..Max] /\ incremented \in [W!Windows -> 0..MaxSeconds]
      /\ second \in 0..MaxSeconds /\ from \in 0..MaxSeconds /\ newest \in 0..MaxSeconds
      /\ newest \in Nat /\ from \in Nat /\ granted \in Nat
  BY DEF WindowInv, W!TypeOK
<1>3. W!TypeOK'
  BY <1>1, <1>2 DEF WindowInv, W!TypeOK, W!Windows
<1>4. StampsPast'
  BY <1>1 DEF WindowInv, StampsPast
<1>5. GrantsCounted'
  <2> SUFFICES ASSUME ~late, ~mixed, second - from <= Window, granted > 0
               PROVE  GrantsCounted'
    BY <1>1 DEF GrantsCounted
  <2>1. PICK l \in Nat, s \in Nat : l = newest \div Window /\ s = from \div Window
    BY <1>2, Division, Zenon
  <2>2. l \in W!Windows /\ s \in W!Windows
    BY <1>2, <2>1, WindowsAreBounded
  <2>3. PICK m \in 0..Window - 1 : m = newest % Window
    BY <1>2, Division, Zenon
  <2>4. /\ from <= newest /\ incremented[l] >= from /\ counts[l] > 0
        /\ l = s => granted <= counts[l]
        /\ l # s =>
              /\ l = s + 1 /\ granted <= counts[l] + counts[s]
              /\ granted <= counts[l] \/ incremented[s] >= from
              /\ (counts[l] - 1) * Window + counts[s] * (Window - m) < Max * Window
    BY <2>1, <2>3 DEF WindowInv, GrantsCounted
  <2>5. w # l /\ counts'[l] = counts[l] /\ incremented'[l] = incremented[l]
    BY <1>1, <1>2, <2>2, <2>4
  <2>6. CASE w # s \/ l = s
    BY <1>1, <1>2, <2>1, <2>2, <2>3, <2>4, <2>5, <2>6 DEF GrantsCounted
  <2>7. CASE w = s /\ l # s
    <3>1. counts'[s] = 0 /\ granted <= counts[l]
      BY <1>1, <1>2, <2>2, <2>4, <2>7
    <3>2. PICK c \in 0..Max : c = counts[l]
      BY <1>2, <2>2
    <3>3. (c - 1) * Window + 0 * (Window - m) < Max * Window
      <4>1. PICK k \in Nat : Max = c + k
        OBVIOUS
      <4>2. Max * Window = (c - 1) * Window + Window + k * Window /\ k * Window >= 0
        BY <4>1
      <4> QED BY <4>2
    <3> QED BY <1>1, <1>2, <2>1, <2>3, <2>4, <2>5, <3>1, <3>2, <3>3 DEF GrantsCounted
  <2> QED BY <2>6, <2>7
<1> QED BY <1>3, <1>4, <1>5 DEF WindowInv

LEMMA WindowResetStep ==
    ASSUME WindowInv, W!Reset
    PROVE  WindowInv'
<1> USE WindowAssumption DEF WindowInv
<1>1. PICK w \in W!Windows :
          /\ counts' = [v \in W!Windows |-> IF v \in {w, w - 1} THEN 0 ELSE counts[v]]
          /\ from' = (IF from < second THEN second ELSE from)
          /\ granted' = 0 /\ newest' = second
          /\ UNCHANGED <<second, incremented, asking, brought, key, late, mixed>>
  BY DEF W!Reset
<1>2. W!TypeOK'
  BY <1>1 DEF W!TypeOK, W!Windows
<1>3. StampsPast'
  BY <1>1 DEF StampsPast, W!TypeOK
<1>4. GrantsCounted'
  BY <1>1 DEF GrantsCounted
<1> QED BY <1>2, <1>3, <1>4

LEMMA WindowStarts == W!Init => WindowInv
<1> USE WindowAssumption
<1> SUFFICES ASSUME W!Init PROVE WindowInv
  OBVIOUS
<1>1. 0 \in W!Windows
  BY WindowsFromZero
<1>2. W!TypeOK
  <2>1. 0 \in 0..Max /\ 0 \in 0..MaxSeconds
    OBVIOUS
  <2>2. /\ second \in 0..MaxSeconds /\ from \in 0..MaxSeconds /\ newest \in 0..MaxSeconds
        /\ granted \in Nat /\ late \in BOOLEAN /\ mixed \in BOOLEAN
    BY <2>1 DEF W!Init
  <2>3. counts \in [W!Windows -> 0..Max] /\ incremented \in [W!Windows -> 0..MaxSeconds]
    BY <2>1, Zenon DEF W!Init
  <2>4. /\ asking \in [Slots -> {"idle", "asking", "refused", "reporting"}]
        /\ brought \in [Slots -> 0..MaxSeconds] /\ key \in [Slots -> W!Windows]
    BY <1>1, <2>1, Zenon DEF W!Init
  <2> QED BY <2>2, <2>3, <2>4, Zenon DEF W!TypeOK
<1>3. StampsPast /\ GrantsCounted
  BY DEF W!Init, StampsPast, GrantsCounted
<1> QED BY <1>2, <1>3 DEF WindowInv

LEMMA WindowStays == WindowInv /\ [W!Next]_windowVars => WindowInv'
<1> SUFFICES ASSUME WindowInv, [W!Next]_windowVars PROVE WindowInv'
  OBVIOUS
<1>1. ASSUME NEW r \in Slots, W!Refuse(r) \/ W!RedisFails(r) PROVE WindowInv'
  <2>1. UNCHANGED <<second, counts, incremented, from, granted, newest, late, mixed>>
    BY <1>1 DEF W!Refuse, W!RedisFails, W!count
  <2>2. PICK to \in {"idle", "refused"} : W!Answers(r, to)
    BY <1>1 DEF W!Refuse, W!RedisFails, W!Denied
  <2>3. /\ asking' \in [Slots -> {"idle", "asking", "refused", "reporting"}]
        /\ brought' \in [Slots -> 0..MaxSeconds] /\ key' \in [Slots -> W!Windows]
        /\ \A u \in Slots : brought'[u] <= second
    BY <2>2, WindowAnswerStep
  <2>4. W!TypeOK' /\ StampsPast'
    BY <2>1, <2>3 DEF WindowInv, W!TypeOK, StampsPast, W!Windows
  <2>5. GrantsCounted'
    BY <2>1 DEF WindowInv, GrantsCounted
  <2> QED BY <2>4, <2>5 DEF WindowInv
<1>2. CASE UNCHANGED windowVars
  BY <1>2 DEF windowVars, WindowInv, W!TypeOK, W!Windows, StampsPast, GrantsCounted
<1> QED
  BY <1>1, <1>2, WindowTickStep, WindowResetStep, WindowExpireStep, WindowStampStep,
     WindowTakeStep DEF W!Next

(* The keys of the sliding window hold every grant of an interval that may   *)
(* still count, whatever expires, is reset or fails.                        *)
THEOREM WindowInvariant == SharedSpec => []WindowInv
<1>1. SharedInit => WindowInv
  BY WindowStarts DEF SharedInit
<1>2. WindowInv /\ [SharedNext]_allVars => WindowInv'
  BY WindowStays, OneCounterMoves
<1> QED BY <1>1, <1>2, PTL DEF SharedSpec

(* For any window, limit, number of requests under way and reset: an         *)
(* interval no longer than a window grants the limit, what slides in with it *)
(* and one more, as long as stamps reach the script in order and with the    *)
(* keys of their own window.                                                *)
THEOREM NoBurstIsDoubled == SharedSpec => []NoDoubleBurst
<1>1. ASSUME WindowInv PROVE NoDoubleBurst
  <2> USE WindowAssumption
  <2> SUFFICES ASSUME ~late, ~mixed, second - from \in 0..Window
               PROVE  granted * Window <= Max * Window + Max * (second - from) + Window
    BY DEF NoDoubleBurst, W!NoDoubleBurst
  <2>1. /\ counts \in [W!Windows -> 0..Max] /\ second \in Nat /\ from \in 0..MaxSeconds
        /\ newest \in 0..MaxSeconds /\ newest <= second /\ granted \in Nat
        /\ newest \in Nat /\ from \in Nat
    BY <1>1 DEF WindowInv, W!TypeOK, StampsPast
  <2>2. PICK d \in 0..Window : d = second - from
    OBVIOUS
  <2>3. Max * d >= 0 /\ Max * Window >= 0
    OBVIOUS
  <2>4. CASE granted = 0
    BY <2>2, <2>3, <2>4
  <2>5. CASE granted > 0
    <3>1. PICK l \in Nat, s \in Nat, m \in 0..Window - 1 :
              l = newest \div Window /\ s = from \div Window /\ m = newest % Window
      BY <2>1, Division, Zenon
    <3>2. /\ from <= newest
          /\ l = s => granted <= counts[l]
          /\ l # s => /\ l = s + 1 /\ granted <= counts[l] + counts[s]
                      /\ (counts[l] - 1) * Window + counts[s] * (Window - m) < Max * Window
      BY <1>1, <2>1, <2>5, <3>1 DEF WindowInv, GrantsCounted
    <3>3. PICK c \in 0..Max, p \in 0..Max : c = counts[l] /\ p = counts[s]
      BY <2>1, <3>1, WindowsAreBounded
    <3>4. CASE l = s
      <4>1. PICK k \in Nat : Max = granted + k
        BY <2>1, <3>2, <3>3, <3>4
      <4>2. Max * Window = granted * Window + k * Window /\ k * Window >= 0
        BY <2>1, <4>1
      <4> QED BY <2>1, <2>2, <2>3, <4>2
    <3>5. CASE l # s
      <4>1. newest - from <= Window
        BY <2>1
      <4>2. newest % Window <= newest - from
        BY <2>1, <3>1, <3>2, <3>5, <4>1, Neighbours
      <4>3. m <= d
        BY <2>1, <2>2, <3>1, <4>2
      <4> QED BY <2>1, <2>2, <3>2, <3>3, <3>5, <4>3, TwoWindows
    <3> QED BY <3>4, <3>5
  <2> QED BY <2>1, <2>4, <2>5
<1> QED BY <1>1, WindowInvariant, PTL

-----------------------------------------------------------------------------
(* The session cost                                                         *)

(* Pushing an entry on a list and trimming the list keeps the newest ones.  *)
LEMMA PushAndTrim ==
    ASSUME NEW list \in Seq(Adds), NEW a \in Adds
    PROVE  /\ FirstOf(<<a>> \o list, HistoryMax) \in Seq(Adds)
           /\ Len(FirstOf(<<a>> \o list, HistoryMax)) \in 1..HistoryMax
           /\ Len(FirstOf(<<a>> \o list, HistoryMax)) <= Len(list) + 1
           /\ FirstOf(<<a>> \o list, HistoryMax)[1] = a
           /\ \A i \in 2..Len(FirstOf(<<a>> \o list, HistoryMax)) :
                 FirstOf(<<a>> \o list, HistoryMax)[i] = list[i - 1]
<1> DEFINE whole == <<a>> \o list
           n == IF Len(whole) < HistoryMax THEN Len(whole) ELSE HistoryMax
<1>1. /\ whole \in Seq(Adds) /\ Len(whole) = Len(list) + 1 /\ Len(list) \in Nat
      /\ whole[1] = a
      /\ \A i \in 2..Len(whole) : whole[i] = list[i - 1]
  OBVIOUS
<1>2. n \in 1..Len(whole) /\ n <= HistoryMax /\ HistoryMax \in Nat
  BY <1>1, CostAssumption
<1>3. FirstOf(whole, HistoryMax) = SubSeq(whole, 1, n)
  BY DEF FirstOf
<1> HIDE DEF whole, n
<1>4. /\ FirstOf(whole, HistoryMax) \in Seq(Adds) /\ Len(FirstOf(whole, HistoryMax)) = n
      /\ \A i \in 1..n : FirstOf(whole, HistoryMax)[i] = whole[i]
  BY <1>1, <1>2, <1>3
<1>5. /\ FirstOf(whole, HistoryMax) \in Seq(Adds)
      /\ Len(FirstOf(whole, HistoryMax)) \in 1..HistoryMax
      /\ Len(FirstOf(whole, HistoryMax)) <= Len(list) + 1
      /\ FirstOf(whole, HistoryMax)[1] = a
      /\ \A i \in 2..Len(FirstOf(whole, HistoryMax)) :
            FirstOf(whole, HistoryMax)[i] = list[i - 1]
  BY <1>1, <1>2, <1>4
<1> QED BY <1>5 DEF whole

LEMMA WriteStep ==
    ASSUME CostInv, NEW a \in Adds, Write(a)
    PROVE  CostInv'
<1> USE DEF CostInv, Write, Written
<1>1. /\ history' \in Seq(Adds)
      /\ Len(history') \in 1..HistoryMax /\ Len(history') <= Len(history) + 1
      /\ history'[1] = a
      /\ \A i \in 2..Len(history') : history'[i] = history[i - 1]
  <2>1. history \in Seq(Adds) /\ history' = FirstOf(<<a>> \o history, HistoryMax)
    BY DEF CostTypeOK
  <2> HIDE DEF CostInv, Write, Written
  <2> QED BY <2>1, PushAndTrim
<1>2. /\ since' \in Seq(Adds) /\ Len(since') = Len(since) + 1
      /\ since'[1] = a
      /\ \A i \in 2..Len(since') : since'[i] = since[i - 1]
  BY DEF CostTypeOK
<1>3. CostTypeOK'
  BY <1>1, <1>2 DEF CostTypeOK, AllDirty
<1>4. \A b \in Adds : ~(adding'[b] = "read" /\ ~dirty'[b])
  BY DEF AllDirty
<1>5. HistoryIsRecent'
  <2>1. /\ Len(history) \in Nat /\ Len(since) \in Nat /\ Len(history) <= Len(since)
        /\ \A i \in 1..Len(history) : history[i] = since[i]
    BY DEF HistoryIsRecent, CostTypeOK
  <2>2. ASSUME NEW i \in 1..Len(history') PROVE history'[i] = since'[i]
    <3>1. CASE i = 1
      BY <3>1, <1>1, <1>2
    <3>2. CASE i # 1
      <4>1. i \in 2..Len(history') /\ i \in 2..Len(since') /\ i - 1 \in 1..Len(history)
        BY <3>2, <1>1, <1>2, <2>1
      <4> QED BY <4>1, <1>1, <1>2, <2>1
    <3> QED BY <3>1, <3>2
  <2>3. Len(history') <= Len(since')
    BY <1>1, <1>2, <2>1
  <2> HIDE DEF CostInv, Write, Written
  <2> QED BY <2>2, <2>3 DEF HistoryIsRecent
<1>6. NewestIsCounted'
  BY <1>1 DEF NewestIsCounted
<1>7. ExactUnlessStale'
  <2> SUFFICES ASSUME ~stale' PROVE totals' = Range(since')
    BY DEF ExactUnlessStale
  <2>1. totals' = Range(since) \cup {a}
    BY DEF CostTypeOK, ExactUnlessStale
  <2>2. Range(since') = Range(since) \cup {a}
    <3>1. DOMAIN since = 1..Len(since) /\ DOMAIN since' = 1..(Len(since) + 1) /\ Len(since) \in Nat
      BY <1>2 DEF CostTypeOK
    <3>2. ASSUME NEW i \in DOMAIN since PROVE since[i] \in Range(since')
      <4>1. i + 1 \in DOMAIN since' /\ since'[i + 1] = since[i]
        BY <1>2, <3>1
      <4> QED BY <4>1 DEF Range
    <3>3. ASSUME NEW i \in DOMAIN since' PROVE since'[i] \in Range(since) \cup {a}
      <4>1. CASE i = 1
        BY <4>1, <1>2
      <4>2. CASE i # 1
        <5>1. i - 1 \in DOMAIN since /\ since'[i] = since[i - 1]
          BY <1>2, <3>1, <4>2
        <5> QED BY <5>1 DEF Range
      <4> QED BY <4>1, <4>2
    <3>4. a \in Range(since')
      <4>1. 1 \in DOMAIN since' /\ since'[1] = a
        BY <1>2, <3>1
      <4> QED BY <4>1 DEF Range
    <3>5. Range(since) \cup {a} \subseteq Range(since')
      BY <3>2, <3>4 DEF Range
    <3>6. Range(since') \subseteq Range(since) \cup {a}
      BY <3>3 DEF Range
    <3> QED BY <3>5, <3>6
  <2> QED BY <2>1, <2>2
<1> QED BY <1>3, <1>4, <1>5, <1>6, <1>7

(* A deletion of the totals leaves an empty history and only dirty adds.    *)
LEMMA EmptiedStep ==
    ASSUME CostInv, Emptied, totals' = {}, resets' \in 0..MaxResets
    PROVE  CostInv'
<1> USE DEF CostInv, Emptied
<1>1. CostTypeOK'
  <2>1. history' \in Seq(Adds) /\ Len(history') <= HistoryMax /\ since' \in Seq(Adds)
    BY CostAssumption
  <2>2. dirty' \in [Adds -> BOOLEAN]
    BY DEF AllDirty
  <2> QED BY <2>1, <2>2 DEF CostTypeOK
<1>2. \A b \in Adds : dirty'[b]
  BY DEF AllDirty
<1>3. HistoryIsRecent' /\ NewestIsCounted'
  BY DEF HistoryIsRecent, NewestIsCounted
<1>4. ExactUnlessStale'
  BY DEF ExactUnlessStale, Range
<1> QED BY <1>1, <1>2, <1>3, <1>4

LEMMA CostInvStep == CostInv /\ [CostNext]_costVars => CostInv'
<1> SUFFICES ASSUME CostInv, [CostNext]_costVars PROVE CostInv'
  OBVIOUS
<1> USE DEF CostInv, CostTypeOK, HistoryIsRecent, NewestIsCounted, ExactUnlessStale, keys
<1>1. ASSUME NEW a \in Adds, ReadTotals(a) PROVE CostInv'
  BY <1>1 DEF ReadTotals
<1>2. ASSUME NEW a \in Adds, Write(a) PROVE CostInv'
  BY <1>2, WriteStep
<1>3. ASSUME NEW a \in Adds, AddFails(a) PROVE CostInv'
  BY <1>3 DEF AddFails
<1>4. CASE ResetCost
  BY <1>4, EmptiedStep, CostAssumption DEF ResetCost
<1>5. CASE HistoryExpires
  BY <1>5, CostAssumption DEF HistoryExpires
<1>6. CASE TotalsExpire
  BY <1>6, EmptiedStep DEF TotalsExpire
<1>7. CASE UNCHANGED costVars
  BY <1>7 DEF costVars
<1> QED BY <1>1, <1>2, <1>3, <1>4, <1>5, <1>6, <1>7 DEF CostNext

(* However turns, resets and expiries interleave, the two keys stay          *)
(* consistent with each other and with the adds.                            *)
THEOREM CostInvariant == SharedSpec => []CostInv
<1>1. CostInit => CostInv
  <2> SUFFICES ASSUME CostInit PROVE CostInv
    OBVIOUS
  <2>1. Len(history) <= HistoryMax /\ history \in Seq(Adds) /\ since \in Seq(Adds)
    BY CostAssumption DEF CostInit
  <2>2. resets \in 0..MaxResets
    BY CostAssumption DEF CostInit
  <2>3. adding \in [Adds -> {"idle", "read", "added", "failed"}] /\ dirty \in [Adds -> BOOLEAN]
    BY DEF CostInit
  <2>4. CostTypeOK
    BY <2>1, <2>2, <2>3 DEF CostInit, CostTypeOK
  <2>5. HistoryIsRecent /\ NewestIsCounted
    BY DEF CostInit, HistoryIsRecent, NewestIsCounted
  <2>6. ExactUnlessStale
    BY DEF CostInit, ExactUnlessStale, Range
  <2>7. \A a \in Adds : adding[a] # "read"
    BY DEF CostInit
  <2> QED BY <2>4, <2>5, <2>6, <2>7 DEF CostInv
<1>2. SharedInit => CostInv
  BY <1>1 DEF SharedInit
<1>3. CostInv /\ [SharedNext]_allVars => CostInv'
  BY CostInvStep, OneCounterMoves
<1> QED BY <1>2, <1>3, PTL DEF SharedSpec

(* The newest entry of the history is always in the aggregate.              *)
THEOREM NewestAddIsCounted == SharedSpec => []NewestIsCounted
<1>1. CostInv => NewestIsCounted
  BY DEF CostInv
<1> QED BY <1>1, CostInvariant, PTL

(* An aggregate that no overlapping add has written is exact.               *)
THEOREM TotalsAreExactUnlessStale == SharedSpec => []ExactUnlessStale
<1>1. CostInv => ExactUnlessStale
  BY DEF CostInv
<1> QED BY <1>1, CostInvariant, PTL

=============================================================================
