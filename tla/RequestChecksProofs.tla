------------------------- MODULE RequestChecksProofs -------------------------
(***************************************************************************)
(* Proofs about the checks of a request, for any number of requests,         *)
(* prompts, addresses, visits and turns: what the guard decides was judged,  *)
(* a listed address is refused in time, a session keeps its device and is    *)
(* denied an impossible trip, and it pays with its own keys.                *)
(***************************************************************************)
EXTENDS RequestChecks, FiniteSetTheorems, TLAPS

(* What a step of the whole can be for one of the checks: its own step, or   *)
(* none.                                                                    *)
LEMMA OneCheckMoves ==
    ASSUME [ChecksNext]_checkVars
    PROVE  [Next]_vars /\ [ExitNext]_exitVars /\ [RiskNext]_riskVars /\ [SettingsNext]_settingsVars
BY DEF ChecksNext, GuardStep, ExitStep, RiskStep, SettingsStep, checkVars,
       vars, rotation, exitVars, riskVars, settingsVars

-----------------------------------------------------------------------------
(* The guard. The documents and the write-backs are verdicts, and a verdict   *)
(* is not taken back.                                                       *)

GuardTypes ==
    /\ verdicts \subseteq Judged
    /\ pc \in [Requests -> {"idle", "lookup", "key", "probe", "classify", "decided"}]
    /\ prompt \in [Requests -> Prompts \cup {None}]
    /\ \A r \in Requests : pc[r] # "idle" => prompt[r] \in Prompts
    /\ decision \in [Requests -> {"allow", "block", "degraded", None}]
    /\ version \in Releases

GuardInv ==
    /\ GuardTypes
    /\ cache \subseteq verdicts /\ writes \subseteq verdicts
    /\ DecisionIsJudged

(* With pgvector, what the search returns is like the prompt that was asked. *)
LEMMA ClosestIsNear ==
    ASSUME Backend = "pgvector", NEW p \in Prompts, NEW doc \in Closest(p)
    PROVE  doc \in cache /\ doc.prompt \in Near[p]
BY GuardAssumption DEF Closest

LEMMA GuardStarts ==
    ASSUME Init
    PROVE  GuardInv
BY DEF Init, GuardInv, GuardTypes, DecisionIsJudged, Releases

(* A request that decides leaves the others as they are.                     *)
LEMMA DecidingKeepsOthers ==
    ASSUME GuardInv, NEW r \in Requests, NEW what \in {"allow", "block", "degraded"},
           pc[r] # "idle", Decides(r, what), verdicts \subseteq verdicts', verdicts' \subseteq Judged,
           cache' \subseteq verdicts', writes' \subseteq verdicts',
           UNCHANGED <<version, prompt>>,
           \/ \E v \in verdicts' : /\ v.prompt \in Near[prompt[r]]
                                   /\ v.version = version /\ v.verdict = what
           \/ what = "degraded" /\ prompt[r] \notin Risky
           \/ what = "block" /\ prompt[r] \in Risky
    PROVE  GuardInv'
<1>1. GuardTypes'
  BY DEF GuardInv, GuardTypes, Decides, Goes
<1>2. DecisionIsJudged'
  <2> SUFFICES ASSUME NEW s \in Requests, pc'[s] = "decided"
               PROVE  \/ \E v \in verdicts' : /\ v.prompt \in Near[prompt[s]]
                                              /\ v.version = version /\ v.verdict = decision'[s]
                      \/ decision'[s] = "degraded" /\ prompt[s] \notin Risky
                      \/ decision'[s] = "block" /\ prompt[s] \in Risky
    BY DEF DecisionIsJudged
  <2>1. CASE s = r
    <3>1. decision'[r] = what
      BY DEF GuardInv, GuardTypes, Decides
    <3> QED BY <2>1, <3>1
  <2>2. CASE s # r
    <3>1. decision'[s] = decision[s] /\ pc[s] = "decided"
      BY <2>2 DEF GuardInv, GuardTypes, Decides, Goes
    <3> QED BY <3>1 DEF GuardInv, DecisionIsJudged
  <2> QED BY <2>1, <2>2
<1> QED BY <1>1, <1>2 DEF GuardInv

LEMMA GuardStays ==
    ASSUME Backend = "pgvector", GuardInv, [Next]_vars
    PROVE  GuardInv'
<1>1. CASE \/ WriteBack \/ Ages \/ ClaimMany \/ MarkKeyCooling \/ Warms \/ UNCHANGED vars
  <2>1. /\ UNCHANGED <<version, pc, prompt, decision, verdicts>>
        /\ cache' \subseteq verdicts /\ writes' \subseteq verdicts
    BY <1>1 DEF GuardInv, WriteBack, Ages, ClaimMany, MarkKeyCooling, Warms, vars, rotation
  <2> QED BY <2>1 DEF GuardInv, GuardTypes, DecisionIsJudged
<1>2. CASE Deploy
  <2>1. /\ cache' = cache /\ verdicts' = verdicts /\ writes' = {}
        /\ pc' = [r \in Requests |-> "idle"]
        /\ prompt' = [r \in Requests |-> None] /\ decision' = [r \in Requests |-> None]
        /\ version' \in Releases
    BY <1>2 DEF Deploy, Releases
  <2> QED BY <2>1 DEF GuardInv, GuardTypes, DecisionIsJudged
<1>3. ASSUME NEW r \in Requests,
             Ask(r) \/ Miss(r) \/ TakeSlot(r) \/ Probe(r) \/ Leave(r)
      PROVE  GuardInv'
  <2>1. /\ UNCHANGED <<version, cache, writes, verdicts>>
        /\ \A s \in Requests : pc'[s] = "decided" =>
              pc[s] = "decided" /\ prompt'[s] = prompt[s] /\ decision'[s] = decision[s]
    BY <1>3 DEF GuardInv, GuardTypes, Ask, Miss, TakeSlot, Probe, Leave, Goes, rotation
  <2>2. GuardTypes'
    BY <1>3 DEF GuardInv, GuardTypes, Ask, Miss, TakeSlot, Probe, Leave, Goes, rotation
  <2>3. DecisionIsJudged'
    BY <2>1 DEF GuardInv, DecisionIsJudged
  <2> QED BY <2>1, <2>2, <2>3 DEF GuardInv
<1>4. ASSUME NEW r \in Requests, Hit(r)
      PROVE  GuardInv'
  <2>1. PICK doc \in Closest(prompt[r]) : Usable(doc) /\ Decides(r, doc.verdict)
    BY <1>4 DEF Hit
  <2>2. prompt[r] \in Prompts /\ pc[r] = "lookup"
    BY <1>4 DEF Hit, GuardInv, GuardTypes
  <2>3. doc \in verdicts /\ doc.prompt \in Near[prompt[r]]
    BY <2>1, <2>2, ClosestIsNear DEF GuardInv
  <2>4. doc.version = version /\ doc.verdict \in {"allow", "block"}
    BY <2>1, <2>3 DEF Usable, GuardInv, GuardTypes, Judged
  <2> QED
    BY <1>4, <2>1, <2>2, <2>3, <2>4, DecidingKeepsOthers DEF Hit, GuardInv, GuardTypes
<1>5. ASSUME NEW r \in Requests, Classify(r)
      PROVE  GuardInv'
  <2>1. PICK verdict \in {"allow", "block"} :
           LET said == [prompt |-> prompt[r], verdict |-> verdict, version |-> version] IN
           /\ verdicts' = verdicts \cup {said}
           /\ writes' = writes \cup {said}
           /\ Decides(r, verdict)
    BY <1>5 DEF Classify
  <2> DEFINE said == [prompt |-> prompt[r], verdict |-> verdict, version |-> version]
  <2>2. prompt[r] \in Prompts /\ pc[r] = "classify" /\ UNCHANGED <<version, cache, prompt>>
    BY <1>5 DEF Classify, GuardInv, GuardTypes
  <2>3. said \in Judged /\ said \in verdicts' /\ verdicts' \subseteq Judged
    BY <2>1, <2>2 DEF GuardInv, GuardTypes, Judged
  <2>4. said.prompt \in Near[prompt[r]] /\ said.version = version /\ said.verdict = verdict
    BY <2>2, GuardAssumption
  <2>5. cache' \subseteq verdicts' /\ writes' \subseteq verdicts' /\ verdicts \subseteq verdicts'
    BY <2>1, <2>2 DEF GuardInv
  <2> HIDE DEF said
  <2> QED
    BY <2>1, <2>2, <2>3, <2>4, <2>5, DecidingKeepsOthers
<1>6. ASSUME NEW r \in Requests, Fails(r)
      PROVE  GuardInv'
  <2> DEFINE what == IF prompt[r] \in Risky THEN "block" ELSE "degraded"
  <2>1. pc[r] # "idle" /\ Decides(r, what) /\ UNCHANGED <<version, prompt, verdicts, cache, writes>>
    BY <1>6 DEF Fails
  <2>2. /\ what \in {"allow", "block", "degraded"}
        /\ \/ what = "degraded" /\ prompt[r] \notin Risky
           \/ what = "block" /\ prompt[r] \in Risky
    OBVIOUS
  <2> HIDE DEF what
  <2>3. verdicts' \subseteq Judged /\ cache' \subseteq verdicts' /\ writes' \subseteq verdicts'
    BY <2>1 DEF GuardInv, GuardTypes
  <2> QED
    BY <2>1, <2>2, <2>3, DecidingKeepsOthers
<1> QED
  BY <1>1, <1>2, <1>3, <1>4, <1>5, <1>6 DEF Next

(* Whatever is written back late, served from the cache, judged under one     *)
(* release or the next: what the guard decides for good was said by the      *)
(* running classifier of the prompt or one like it.                         *)
THEOREM DecisionsAreJudged ==
    ASSUME Backend = "pgvector"
    PROVE  ChecksSpec => []DecisionIsJudged
<1>1. ChecksInit => GuardInv
  BY GuardStarts DEF ChecksInit
<1>2. GuardInv /\ [ChecksNext]_checkVars => GuardInv'
  BY OneCheckMoves, GuardStays
<1>3. GuardInv => DecisionIsJudged
  BY DEF GuardInv
<1> QED BY <1>1, <1>2, <1>3, PTL DEF ChecksSpec

-----------------------------------------------------------------------------
(* The exit list. What the negative cache says of an address was true until   *)
(* the list last lacked it; an address not in the list lacks it now.        *)

ExitTypes ==
    /\ tick \in Nat
    /\ cleared \in [Addresses -> Nat]
    /\ absent \in [Addresses -> Nat]
    /\ checks \in Nat
    /\ served = NoCaller \/ served.address \in Addresses

EntriesEnd ==
    \A a \in Addresses :
        /\ absent[a] <= tick
        /\ a \notin exits => absent[a] = tick
        /\ cleared[a] <= absent[a] + NegativeTTL

ExitInv == ExitTypes /\ EntriesEnd /\ ListedIsRefused

LEMMA ExitStarts ==
    ASSUME ExitInit
    PROVE  ExitInv
BY ExitAssumption DEF ExitInit, ExitInv, ExitTypes, EntriesEnd, ListedIsRefused

(* The cleanup only drops entries.                                          *)
LEMMA CleanedIsEntry ==
    ASSUME ExitInv, NEW a \in Addresses
    PROVE  /\ Cleaned \in [Addresses -> Nat]
           /\ Cleaned[a] \in Nat /\ Cleaned[a] <= cleared[a]
BY DEF ExitInv, ExitTypes, Cleaned

LEMMA ServeStays ==
    ASSUME ExitInv, NEW a \in Addresses, Serve(a)
    PROVE  ExitInv'
<1>1. PICK mode \in {"critical", "monitored"} :
         served' = [address |-> a, mode |-> mode, refused |-> mode = "critical" /\ IsTor(a)]
  BY DEF Serve
<1>2. /\ UNCHANGED <<tick, exits, absent>>
      /\ checks' = (checks + 1) % CleanupEvery
      /\ cleared' = IF Cleaned[a] <= tick /\ a \notin exits
                    THEN [Cleaned EXCEPT ![a] = tick + NegativeTTL] ELSE Cleaned
  BY DEF Serve, LookUp
<1>3. Cleaned \in [Addresses -> Nat] /\ \A b \in Addresses : Cleaned[b] <= cleared[b]
  BY CleanedIsEntry
<1> HIDE DEF Cleaned
<1>4. ExitTypes'
  <2>1. cleared' \in [Addresses -> Nat]
    BY <1>2, <1>3, ExitAssumption DEF ExitInv, ExitTypes
  <2>2. checks' \in Nat
    BY <1>2, ExitAssumption DEF ExitInv, ExitTypes
  <2> QED BY <1>1, <1>2, <2>1, <2>2 DEF ExitInv, ExitTypes
<1>5. EntriesEnd'
  BY <1>2, <1>3, ExitAssumption DEF ExitInv, ExitTypes, EntriesEnd
<1>6. ListedIsRefused'
  <2> SUFFICES ASSUME mode = "critical", a \in exits, tick >= absent[a] + NegativeTTL
               PROVE  IsTor(a)
    BY <1>1, <1>2 DEF ListedIsRefused
  <2>1. Cleaned[a] <= tick
    BY <1>3, ExitAssumption DEF ExitInv, ExitTypes, EntriesEnd
  <2> QED BY <2>1 DEF IsTor
<1> QED BY <1>4, <1>5, <1>6 DEF ExitInv

LEMMA ExitStays ==
    ASSUME ExitInv, [ExitNext]_exitVars
    PROVE  ExitInv'
<1>1. CASE TickOn
  <2>1. ExitTypes' /\ EntriesEnd'
    BY <1>1, ExitAssumption DEF TickOn, ExitInv, ExitTypes, EntriesEnd
  <2>2. ListedIsRefused'
    BY <1>1 DEF TickOn, ListedIsRefused
  <2> QED BY <2>1, <2>2 DEF ExitInv
<1>2. CASE Publish \/ FetchFails \/ UNCHANGED exitVars
  <2>1. UNCHANGED <<tick, exits, cleared, checks, served, absent>>
    BY <1>2 DEF Publish, FetchFails, exitVars
  <2> QED BY <2>1 DEF ExitInv, ExitTypes, EntriesEnd, ListedIsRefused
<1>3. CASE RefreshOnce
  <2>1. ExitTypes' /\ EntriesEnd'
    BY <1>3, ExitAssumption DEF RefreshOnce, ExitInv, ExitTypes, EntriesEnd
  <2>2. ListedIsRefused'
    <3> SUFFICES ASSUME served # NoCaller, served.mode = "critical", served.address \in exits',
                        tick >= absent'[served.address] + NegativeTTL
                 PROVE  served.refused
      BY <1>3 DEF RefreshOnce, ListedIsRefused
    <3> DEFINE a == served.address
    <3>1. a \in Addresses
      BY DEF ExitInv, ExitTypes
    <3>2. a \in exits /\ absent'[a] = absent[a]
      BY <1>3, <3>1, ExitAssumption DEF RefreshOnce, ExitInv, ExitTypes
    <3> QED BY <3>2 DEF ExitInv, ListedIsRefused
  <2> QED BY <2>1, <2>2 DEF ExitInv
<1> QED BY <1>1, <1>2, <1>3, ServeStays DEF ExitNext

(* An address that has been in the list for the lifetime of a negative entry  *)
(* is refused on a critical path, for any lookups and refreshes in between.  *)
THEOREM ListedAreRefused == ChecksSpec => []ListedIsRefused
<1>1. ChecksInit => ExitInv
  BY ExitStarts DEF ChecksInit
<1>2. ExitInv /\ [ChecksNext]_checkVars => ExitInv'
  BY OneCheckMoves, ExitStays
<1>3. ExitInv => ListedIsRefused
  BY DEF ExitInv
<1> QED BY <1>1, <1>2, <1>3, PTL DEF ChecksSpec

-----------------------------------------------------------------------------
(* The risk engine. While there is no fingerprint, whoever found none is still *)
(* to set its own, so the next one that finds none overlaps all of them, and  *)
(* every fingerprint was set by one of them. Without any overlap, the place   *)
(* and the time that are read are those of the visit that ended last.        *)

Stages == {"new", "tracking", "matching", "claiming", "locating", "remembering", "done"}
Answers == {Unset, "unjudged", "allow", "step_up", "deny"}
Reasons == SUBSET {"device", "addresses", "travel", "country"}

Assessments ==
    [stage : Stages, at : Nat, address : Located \cup Hidden \cup {Unset},
     device : Devices \cup {Unset}, count : Nat, first : BOOLEAN, reasons : Reasons,
     answer : Answers]

RiskTypes ==
    /\ hour \in Nat \ {0}
    /\ visit \in [Visits -> Assessments]
    /\ recent \in [Located \cup Hidden -> Nat]
    /\ owner \in Devices \cup {Unset}
    /\ last \in [at : Nat, place : Located \cup {Unset}]
    /\ before \in [Visits -> SUBSET Visits]

Judgeable(v) == visit[v].stage # "new" /\ visit[v].answer # "unjudged"

(* What came before a visit has ended, and no later than the visit came.     *)
Chronicle ==
    /\ \A v \in Visits : visit[v].stage = "new" => before[v] = {}
    /\ \A v \in Visits : \A x \in before[v] : visit[x].stage = "done"
    /\ \A v \in Visits : visit[v].answer = "unjudged" => visit[v].stage = "done"
    /\ \A v \in Visits : Judgeable(v) => visit[v].at # 0 /\ visit[v].at <= hour
    /\ \A v \in Visits : \A x \in before[v] :
           Judgeable(v) /\ Judgeable(x) => visit[x].at <= visit[v].at

(* The device of a visit was found to be the session's own.                  *)
Settled(v) ==
    /\ visit[v].stage \in {"locating", "remembering"} \/ Assessed(v)
    /\ visit[v].device # Unset /\ "device" \notin visit[v].reasons

(* It found no fingerprint, and its SET was executed.                        *)
Standing(v) == visit[v].first /\ visit[v].stage # "claiming"

Claimed == {d \in Devices \cup {Unset} : \E x \in Visits : Standing(x) /\ visit[x].device = d}

FirstOnes ==
    /\ \A v \in Visits : visit[v].stage \in {"matching", "claiming"} => visit[v].device # Unset
    /\ \A v \in Visits : visit[v].stage = "claiming" => visit[v].first
    /\ \A v \in Visits : visit[v].first => visit[v].stage \notin {"new", "tracking", "matching"}
    /\ \A x, y \in Visits : x # y /\ visit[x].first /\ visit[y].first => Overlap(x, y)

OwnerStands ==
    /\ owner = Unset => \A x \in Visits : ~Standing(x)
    /\ owner # Unset => owner \in Claimed
    /\ \A v \in Visits : Settled(v) => visit[v].device \in Claimed

Done == {x \in Visits : visit[x].stage = "done"}
InOrder(ended) ==
    /\ \A x \in ended : Assessed(x)
    /\ \A x, y \in ended : ~Overlap(x, y)

(* The place that is remembered is where the visit w was, and is not older.  *)
SeenLast(w) == last.place = visit[w].address /\ last.at >= visit[w].at

LastIsSeen ==
    InOrder(Done) =>
        \A w \in Done :
            /\ visit[w].address \in Located
            /\ \A x \in Done \ (before[w] \cup {w}) : visit[x].address \in Hidden
            => SeenLast(w)

Calm(v) == InOrder(before[v]) /\ \A x \in Visits : ~Overlap(x, v)

TooFar(v, w) ==
    /\ {visit[v].address, visit[w].address} \subseteq Located
    /\ visit[v].address # visit[w].address
    /\ visit[v].at - visit[w].at < TravelTime
    /\ \A x \in before[v] \ (before[w] \cup {w}) : visit[x].address \in Hidden

Denies(v) == \A w \in before[v] : TooFar(v, w) => visit[v].answer = "deny"

TravelSeen ==
    /\ LastIsSeen
    /\ \A v \in Visits :
           (visit[v].stage = "remembering" \/ Assessed(v)) /\ Calm(v) => Denies(v)

RiskInv ==
    /\ RiskTypes /\ Chronicle
    /\ FirstOnes /\ OwnerStands
    /\ TravelSeen

(* What a command of a visit under way does to it, and to no other.          *)
Proceeds(v) ==
    /\ visit[v].stage \notin {"new", "done"} /\ visit'[v].stage # "new"
    /\ visit'[v].device = visit[v].device
    /\ \/ visit'[v].answer = "unjudged" /\ visit'[v].stage = "done"
       \/ /\ visit'[v].at = visit[v].at /\ visit'[v].address = visit[v].address
          /\ visit'[v].answer = "unjudged" => visit[v].answer = "unjudged"
    /\ \A w \in Visits \ {v} : visit'[w] = visit[w]
    /\ hour' = hour /\ before' = before

LEMMA Addresses_Finite ==
    ASSUME NEW S \in SUBSET (Located \cup Hidden)
    PROVE  Cardinality(S) \in Nat
BY RiskAssumption, FS_Union, FS_Subset, FS_CardinalityType

LEMMA WithAddressTypes ==
    ASSUME RiskTypes, NEW v \in Visits
    PROVE  WithAddress(v) \in [Located \cup Hidden -> Nat]
BY DEF WithAddress, StillRecent, RiskTypes, Assessments

LEMMA TrackStep ==
    ASSUME RiskTypes, NEW v \in Visits, Track(v)
    PROVE  /\ RiskTypes' /\ Proceeds(v)
           /\ visit'[v].stage \in {"matching", "locating"}
           /\ visit'[v].device # Unset <=> visit'[v].stage = "matching"
           /\ visit'[v].first = visit[v].first
           /\ visit'[v].answer = visit[v].answer /\ visit[v].stage = "tracking"
           /\ UNCHANGED <<owner, last>>
<1> DEFINE kept == WithAddress(v)
           count == Cardinality({a \in DOMAIN kept : kept[a] > 0})
<1>1. kept \in [Located \cup Hidden -> Nat]
  BY WithAddressTypes
<1>2. count \in Nat
  BY <1>1, Addresses_Finite
<1>3. /\ visit[v].stage = "tracking" /\ recent' = kept
      /\ visit' = [visit EXCEPT ![v].stage = NextStage(v), ![v].count = count]
      /\ UNCHANGED <<hour, owner, last, before>>
  BY DEF Track, Tracked
<1>4. NextStage(v) \in {"matching", "locating"} /\ (visit[v].device # Unset <=> NextStage(v) = "matching")
  BY DEF NextStage
<1> HIDE DEF kept, count
<1>5. RiskTypes'
  <2>1. NextStage(v) \in Stages
    BY <1>4 DEF Stages
  <2>2. visit[v] \in Assessments
    BY DEF RiskTypes
  <2> HIDE DEF NextStage
  <2>3. [visit[v] EXCEPT !.stage = NextStage(v), !.count = count] \in Assessments
    BY <1>2, <2>1, <2>2 DEF Assessments
  <2> QED BY <1>1, <1>3, <2>3 DEF RiskTypes
<1>6. /\ visit'[v].stage = NextStage(v) /\ visit'[v].answer = visit[v].answer
      /\ visit'[v].device = visit[v].device /\ visit'[v].first = visit[v].first
      /\ visit'[v].at = visit[v].at /\ visit'[v].address = visit[v].address
      /\ \A w \in Visits \ {v} : visit'[w] = visit[w]
  <2> HIDE DEF NextStage
  <2> QED BY <1>3 DEF RiskTypes, Assessments
<1>7. Proceeds(v)
  BY <1>3, <1>4, <1>6 DEF Proceeds
<1> QED BY <1>3, <1>4, <1>5, <1>6, <1>7

LEMMA MatchStep ==
    ASSUME RiskTypes, NEW v \in Visits, MatchDevice(v)
    PROVE  /\ RiskTypes' /\ Proceeds(v) /\ visit[v].stage = "matching"
           /\ visit'[v].stage = IF owner = Unset THEN "claiming" ELSE "locating"
           /\ owner \notin {Unset, visit[v].device} => "device" \in visit'[v].reasons
           /\ visit'[v].first <=> owner = Unset
           /\ UNCHANGED <<owner, last>>
<1> DEFINE to == IF owner = Unset THEN "claiming" ELSE "locating"
           rs == IF owner \in {Unset, visit[v].device} THEN visit[v].reasons
                 ELSE visit[v].reasons \cup {"device"}
           none == (owner = Unset)
<1>1. to \in {"claiming", "locating"} /\ rs \in Reasons
  BY DEF RiskTypes, Assessments, Reasons
<1>2. to \in Stages
  BY DEF Stages
<1>3. /\ visit[v].stage = "matching" /\ UNCHANGED <<hour, recent, owner, last, before>>
      /\ visit' = [visit EXCEPT ![v] = [@ EXCEPT !.stage = to, !.first = none, !.reasons = rs]]
  BY DEF MatchDevice, RiskTypes
<1>4. owner \notin {Unset, visit[v].device} => "device" \in rs
  OBVIOUS
<1>8. none \in BOOLEAN
  OBVIOUS
<1> HIDE DEF rs, to, none
<1>5. [visit[v] EXCEPT !.stage = to, !.first = none, !.reasons = rs] \in Assessments
  <2>1. visit[v] \in Assessments
    BY DEF RiskTypes
  <2> QED BY <1>1, <1>2, <1>8, <2>1 DEF Assessments
<1>6. RiskTypes'
  BY <1>3, <1>5 DEF RiskTypes
<1>7. visit'[v].stage = to /\ visit'[v].reasons = rs /\ visit'[v].first = none /\ Proceeds(v)
  BY <1>1, <1>3 DEF RiskTypes, Assessments, Proceeds
<1> QED BY <1>3, <1>4, <1>6, <1>7 DEF to, none

LEMMA ClaimStep ==
    ASSUME RiskTypes, NEW v \in Visits, ClaimDevice(v)
    PROVE  /\ RiskTypes' /\ Proceeds(v) /\ visit[v].stage = "claiming"
           /\ visit'[v].stage = "locating" /\ visit'[v].first = visit[v].first
           /\ owner' = visit[v].device /\ last' = last
<1>1. /\ visit[v].stage = "claiming" /\ owner' = visit[v].device
      /\ visit' = [visit EXCEPT ![v].stage = "locating"]
      /\ UNCHANGED <<hour, recent, last, before>>
  BY DEF ClaimDevice
<1>2. visit[v] \in Assessments /\ "locating" \in Stages
  BY DEF RiskTypes, Stages
<1>3. visit[v].device \in Devices \cup {Unset} /\ [visit[v] EXCEPT !.stage = "locating"] \in Assessments
  BY <1>2 DEF Assessments
<1>4. RiskTypes'
  BY <1>1, <1>3 DEF RiskTypes
<1>5. visit'[v].stage = "locating" /\ visit'[v].first = visit[v].first /\ Proceeds(v)
  BY <1>1, <1>2 DEF RiskTypes, Assessments, Proceeds
<1> QED BY <1>1, <1>4, <1>5

LEMMA DecisionIsAnswer ==
    ASSUME NEW rs
    PROVE  /\ DecisionFor(rs) \in {"allow", "step_up", "deny"}
           /\ "travel" \in rs => DecisionFor(rs) = "deny"
BY DEF DecisionFor

LEMMA LocateStep ==
    ASSUME RiskTypes, NEW v \in Visits, Locate(v)
    PROVE  /\ RiskTypes' /\ Proceeds(v) /\ visit[v].stage = "locating"
           /\ visit'[v].stage = "remembering"
           /\ visit[v].reasons \subseteq visit'[v].reasons
           /\ visit'[v].first = visit[v].first
           /\ "travel" \in TravelReason(v) => visit'[v].answer = "deny"
           /\ UNCHANGED <<owner, last>>
<1> DEFINE rs == visit[v].reasons \cup Crowded(v) \cup TravelReason(v)
           answer == DecisionFor(rs)
<1>1. rs \in Reasons /\ visit[v].reasons \subseteq rs
  BY DEF RiskTypes, Assessments, Crowded, TravelReason, Reasons
<1>2. answer \in {"allow", "step_up", "deny"} /\ ("travel" \in TravelReason(v) => answer = "deny")
  BY DecisionIsAnswer
<1>3. /\ visit[v].stage = "locating"
      /\ visit' = [visit EXCEPT ![v].stage = "remembering", ![v].reasons = rs, ![v].answer = answer]
      /\ UNCHANGED <<hour, recent, owner, last, before>>
  BY DEF Locate
<1> HIDE DEF rs, answer
<1>4. [visit[v] EXCEPT !.stage = "remembering", !.reasons = rs, !.answer = answer] \in Assessments
  <2>1. "remembering" \in Stages /\ answer \in Answers
    BY <1>2 DEF Stages, Answers
  <2>2. visit[v] \in Assessments
    BY DEF RiskTypes
  <2> QED BY <1>1, <2>1, <2>2 DEF Assessments
<1>5. RiskTypes'
  BY <1>3, <1>4 DEF RiskTypes
<1>6. /\ visit'[v].stage = "remembering" /\ visit'[v].reasons = rs
      /\ visit'[v].answer = answer /\ visit'[v].first = visit[v].first /\ Proceeds(v)
  BY <1>3 DEF RiskTypes, Assessments, Proceeds
<1> QED BY <1>1, <1>2, <1>3, <1>6, <1>5

LEMMA RememberStep ==
    ASSUME RiskTypes, NEW v \in Visits, Remember(v)
    PROVE  /\ RiskTypes' /\ Proceeds(v) /\ visit[v].stage = "remembering"
           /\ visit'[v].stage = "done" /\ visit'[v].answer = visit[v].answer
           /\ visit'[v].reasons = visit[v].reasons /\ visit'[v].first = visit[v].first
           /\ visit'[v].at = visit[v].at /\ visit'[v].address = visit[v].address
           /\ last'.at = visit[v].at
           /\ last'.place = IF visit[v].address \in Located THEN visit[v].address ELSE last.place
           /\ owner' = owner
<1> DEFINE place == IF visit[v].address \in Located THEN visit[v].address ELSE last.place
<1>1. /\ visit[v].stage = "remembering" /\ last' = [at |-> visit[v].at, place |-> place]
      /\ visit' = [visit EXCEPT ![v].stage = "done", ![v].count = 0]
      /\ UNCHANGED <<hour, recent, owner, before>>
  BY DEF Remember, SeenIn
<1>2. visit[v] \in Assessments /\ "done" \in Stages /\ place \in Located \cup {Unset}
  BY DEF RiskTypes, Stages
<1>3. visit[v].at \in Nat /\ [visit[v] EXCEPT !.stage = "done", !.count = 0] \in Assessments
  BY <1>2 DEF Assessments
<1> HIDE DEF place
<1>4. RiskTypes'
  BY <1>1, <1>2, <1>3 DEF RiskTypes
<1>5. /\ visit'[v].stage = "done" /\ visit'[v].answer = visit[v].answer
      /\ visit'[v].reasons = visit[v].reasons /\ visit'[v].device = visit[v].device
      /\ visit'[v].first = visit[v].first
      /\ visit'[v].at = visit[v].at /\ visit'[v].address = visit[v].address
      /\ \A w \in Visits \ {v} : visit'[w] = visit[w]
  BY <1>1, <1>2 DEF RiskTypes, Assessments
<1>6. Proceeds(v)
  BY <1>1, <1>5 DEF Proceeds
<1> QED BY <1>1, <1>4, <1>5, <1>6 DEF place

(* Whatever was executed, only a claim that failed for sure is not one of the *)
(* first any more.                                                          *)
LEMMA AssessFailsStep ==
    ASSUME RiskTypes, NEW v \in Visits, AssessFails(v)
    PROVE  /\ RiskTypes' /\ Proceeds(v)
           /\ visit'[v].stage = "done" /\ visit'[v].answer = "unjudged"
           /\ \/ /\ owner' = owner
                 /\ visit'[v].first <=> visit[v].first /\ visit[v].stage # "claiming"
              \/ /\ visit[v].stage = "claiming" /\ owner' = visit[v].device
                 /\ visit'[v].first <=> visit[v].first
<1>1. PICK executed \in BOOLEAN :
         LET wrote(stage) == executed /\ visit[v].stage = stage IN
         /\ recent' = IF wrote("tracking") THEN WithAddress(v) ELSE recent
         /\ owner' = IF wrote("claiming") THEN visit[v].device ELSE owner
         /\ last' = IF wrote("remembering") THEN SeenIn(v) ELSE last
         /\ visit' = [visit EXCEPT ![v] =
               [NotYet EXCEPT !.stage = "done", !.device = visit[v].device, !.answer = "unjudged",
                   !.first = visit[v].first /\ (visit[v].stage = "claiming" => executed)]]
  BY DEF AssessFails
<1> DEFINE first == visit[v].first /\ (visit[v].stage = "claiming" => executed)
           gone == [NotYet EXCEPT !.stage = "done", !.device = visit[v].device,
                                  !.answer = "unjudged", !.first = first]
<1>2. NotYet \in Assessments
  BY DEF NotYet, Assessments, Stages, Reasons, Answers
<1>3. /\ "done" \in Stages /\ "unjudged" \in Answers /\ visit[v].device \in Devices \cup {Unset}
      /\ visit[v] \in Assessments /\ first \in BOOLEAN
  BY DEF RiskTypes, Assessments, Stages, Answers
<1>4. visit' = [visit EXCEPT ![v] = gone]
  BY <1>1
<1>5. /\ \/ owner' = owner /\ (first <=> visit[v].first /\ visit[v].stage # "claiming")
         \/ visit[v].stage = "claiming" /\ owner' = visit[v].device /\ (first <=> visit[v].first)
      /\ owner' \in Devices \cup {Unset}
  BY <1>1, <1>3 DEF RiskTypes
<1>6. recent' \in [Located \cup Hidden -> Nat]
  BY <1>1, WithAddressTypes DEF RiskTypes
<1>7. last' \in [at : Nat, place : Located \cup {Unset}]
  <2>1. SeenIn(v) \in [at : Nat, place : Located \cup {Unset}]
    BY <1>3 DEF SeenIn, RiskTypes, Assessments
  <2> QED BY <1>1, <2>1 DEF RiskTypes
<1>8. visit[v].stage \in {"tracking", "claiming", "remembering"} /\ UNCHANGED <<hour, before>>
  BY DEF AssessFails
<1> HIDE DEF first
<1>9. /\ gone \in Assessments /\ gone.stage = "done" /\ gone.answer = "unjudged"
      /\ gone.device = visit[v].device /\ gone.first = first
  BY <1>2, <1>3 DEF Assessments
<1> HIDE DEF gone
<1>10. RiskTypes'
  BY <1>4, <1>5, <1>6, <1>7, <1>8, <1>9 DEF RiskTypes
<1>11. /\ visit'[v] = gone /\ \A w \in Visits \ {v} : visit'[w] = visit[w]
  BY <1>4 DEF RiskTypes
<1>12. Proceeds(v)
  BY <1>8, <1>9, <1>11 DEF Proceeds
<1> QED BY <1>5, <1>9, <1>10, <1>11, <1>12

LEMMA ArriveStep ==
    ASSUME RiskTypes, NEW v \in Visits, Arrive(v)
    PROVE  /\ RiskTypes' /\ visit[v].stage = "new" /\ visit'[v].stage = "tracking"
           /\ visit'[v].at = hour' /\ hour <= hour' /\ visit'[v].answer = visit[v].answer
           /\ visit'[v].first = visit[v].first
           /\ \A w \in Visits \ {v} : visit'[w] = visit[w] /\ before'[w] = before[w]
           /\ before'[v] = Done
           /\ UNCHANGED <<owner, last>>
<1>1. PICK a \in Located \cup Hidden, d \in Devices :
         visit' = [visit EXCEPT ![v] = [@ EXCEPT !.stage = "tracking", !.at = hour',
                                                !.address = a, !.device = d]]
  BY DEF Arrive
<1> DEFINE first == [visit[v] EXCEPT !.stage = "tracking", !.at = hour', !.address = a, !.device = d]
<1>2. hour' \in Nat \ {0} /\ hour <= hour'
  BY DEF Arrive, RiskTypes
<1>3. /\ visit[v].stage = "new" /\ before' = [before EXCEPT ![v] = Done]
      /\ UNCHANGED <<recent, owner, last>>
  BY DEF Arrive, Done
<1>4. first \in Assessments
      /\ first.stage = "tracking" /\ first.at = hour' /\ first.answer = visit[v].answer
      /\ first.first = visit[v].first
  <2>1. visit[v] \in Assessments
    BY DEF RiskTypes
  <2>2. "tracking" \in Stages /\ hour' \in Nat
    BY <1>2 DEF Stages
  <2> QED BY <2>1, <2>2 DEF Assessments
<1>5. visit' = [visit EXCEPT ![v] = first]
  BY <1>1
<1> HIDE DEF first
<1>6. /\ visit'[v].stage = "tracking" /\ visit'[v].at = hour' /\ visit'[v].answer = visit[v].answer
      /\ visit'[v].first = visit[v].first
      /\ \A w \in Visits \ {v} : visit'[w] = visit[w] /\ before'[w] = before[w]
      /\ before'[v] = Done /\ Done \in SUBSET Visits
  BY <1>5, <1>3, <1>4 DEF RiskTypes, Done
<1>7. visit' \in [Visits -> Assessments]
  BY <1>4, <1>5 DEF RiskTypes
<1> QED BY <1>2, <1>3, <1>6, <1>7 DEF RiskTypes

RiskCommand(v) ==
    Track(v) \/ MatchDevice(v) \/ ClaimDevice(v) \/ Locate(v) \/ Remember(v) \/ AssessFails(v)

LEMMA CommandProceeds ==
    ASSUME RiskTypes, NEW v \in Visits, RiskCommand(v)
    PROVE  RiskTypes' /\ Proceeds(v)
BY TrackStep, MatchStep, ClaimStep, LocateStep, RememberStep, AssessFailsStep DEF RiskCommand

(* What is known of a visit once it came, and once it ended, stays.          *)
LEMMA VisitsStay ==
    ASSUME RiskTypes, [RiskNext]_riskVars
    PROVE  /\ RiskTypes'
           /\ \A v \in Visits : visit[v].stage # "new" =>
                  /\ visit'[v].stage # "new" /\ visit'[v].device = visit[v].device
                  /\ before'[v] = before[v]
           /\ \A v \in Visits : visit[v].stage = "done" => visit'[v] = visit[v]
<1>1. ASSUME NEW v \in Visits, Arrive(v)
      PROVE  /\ RiskTypes' /\ visit[v].stage = "new"
             /\ \A w \in Visits \ {v} : visit'[w] = visit[w] /\ before'[w] = before[w]
  BY <1>1, ArriveStep
<1>2. ASSUME NEW v \in Visits, RiskCommand(v)
      PROVE  RiskTypes' /\ Proceeds(v)
  BY <1>2, CommandProceeds
<1>3. CASE UNCHANGED riskVars
  BY <1>3 DEF riskVars, RiskTypes
<1>4. CASE \E v \in Visits : Arrive(v)
  BY <1>4, <1>1
<1>5. CASE \E v \in Visits : RiskCommand(v)
  BY <1>5, <1>2 DEF Proceeds
<1> QED BY <1>3, <1>4, <1>5 DEF RiskNext, RiskCommand

LEMMA OverlapsStay ==
    ASSUME RiskTypes, [RiskNext]_riskVars, NEW x \in Visits, NEW y \in Visits, Overlap(x, y)
    PROVE  Overlap(x, y)'
BY VisitsStay DEF Overlap

LEMMA WasInOrder ==
    ASSUME RiskTypes, [RiskNext]_riskVars, NEW S \in SUBSET Done, InOrder(S)'
    PROVE  InOrder(S)
<1>1. S \subseteq Visits /\ \A x \in S : visit'[x] = visit[x]
  BY VisitsStay DEF Done
<1>2. \A x \in S : Assessed(x)
  BY <1>1 DEF InOrder, Assessed
<1>3. \A x, y \in S : ~Overlap(x, y)
  BY <1>1, OverlapsStay DEF InOrder
<1> QED BY <1>2, <1>3 DEF InOrder

LEMMA WasCalm ==
    ASSUME RiskTypes, Chronicle, [RiskNext]_riskVars, NEW v \in Visits, visit[v].stage # "new",
           Calm(v)'
    PROVE  Calm(v)
<1>1. before'[v] = before[v] /\ before[v] \in SUBSET Done
  BY VisitsStay DEF Chronicle, Done, RiskTypes
<1>2. InOrder(before[v])
  BY <1>1, WasInOrder DEF Calm, InOrder
<1>3. \A x \in Visits : ~Overlap(x, v)
  BY OverlapsStay DEF Calm
<1> QED BY <1>2, <1>3 DEF Calm

LEMMA ChronicleStays ==
    ASSUME RiskTypes, Chronicle, [RiskNext]_riskVars
    PROVE  Chronicle'
<1>1. ASSUME NEW v \in Visits, Arrive(v)
      PROVE  Chronicle'
  <2>1. /\ RiskTypes' /\ visit[v].stage = "new" /\ visit'[v].stage = "tracking"
        /\ visit'[v].at = hour' /\ hour <= hour' /\ before'[v] = Done
        /\ visit'[v].answer = visit[v].answer
        /\ \A w \in Visits \ {v} : visit'[w] = visit[w] /\ before'[w] = before[w]
    BY <1>1, ArriveStep
  <2>2. v \notin Done /\ \A w \in Visits : v \notin before[w]
    BY <2>1 DEF Done, Chronicle
  <2>3. \A w \in Visits : visit'[w].stage = "new" => before'[w] = {}
    BY <2>1 DEF Chronicle
  <2>4. \A w \in Visits : \A x \in before'[w] : visit'[x].stage = "done"
    BY <2>1, <2>2 DEF Chronicle, Done, RiskTypes
  <2>5. hour \in Nat /\ hour' \in Nat \ {0} /\ \A w \in Visits : visit[w].at \in Nat
    BY <2>1 DEF RiskTypes, Assessments
  <2>6. \A w \in Visits : Judgeable(w)' => visit'[w].at # 0 /\ visit'[w].at <= hour'
    BY <2>1, <2>5 DEF Chronicle, Judgeable
  <2>7. \A w \in Visits : \A x \in before'[w] :
           Judgeable(w)' /\ Judgeable(x)' => visit'[x].at <= visit'[w].at
    <3> SUFFICES ASSUME NEW w \in Visits, NEW x \in before'[w], Judgeable(w)', Judgeable(x)'
                 PROVE  visit'[x].at <= visit'[w].at
      OBVIOUS
    <3>1. x \in Visits
      BY <2>1 DEF RiskTypes
    <3>2. CASE w = v
      BY <2>1, <2>6, <3>1, <3>2
    <3>3. CASE w # v
      <4>1. x \in before[w] /\ x # v
        BY <2>1, <2>2, <3>3
      <4> QED BY <2>1, <3>1, <3>3, <4>1 DEF Chronicle, Judgeable
    <3> QED BY <3>2, <3>3
  <2>8. \A w \in Visits : visit'[w].answer = "unjudged" => visit'[w].stage = "done"
    BY <2>1 DEF Chronicle
  <2> QED BY <2>3, <2>4, <2>6, <2>7, <2>8 DEF Chronicle
<1>2. ASSUME NEW v \in Visits, RiskCommand(v)
      PROVE  Chronicle'
  <2>1. Proceeds(v)
    BY <1>2, CommandProceeds
  <2>2. v \notin Done /\ \A w \in Visits : v \notin before[w]
    BY <2>1 DEF Proceeds, Done, Chronicle
  <2>3. \A w \in Visits : Judgeable(w)' => Judgeable(w) /\ visit'[w].at = visit[w].at
    BY <2>1 DEF Proceeds, Judgeable, Chronicle
  <2>4. \A w \in Visits : visit'[w].answer = "unjudged" => visit'[w].stage = "done"
    BY <2>1 DEF Proceeds, Chronicle
  <2>5. before' = before /\ hour' = hour
    BY <2>1 DEF Proceeds
  <2>6. \A w \in Visits : visit'[w].stage = "new" => before[w] = {}
    BY <2>1 DEF Proceeds, Chronicle
  <2>7. \A w \in Visits : \A x \in before[w] : visit'[x].stage = "done"
    BY <2>1, <2>2 DEF Proceeds, Chronicle, RiskTypes
  <2>8. \A w \in Visits : \A x \in before[w] :
           Judgeable(w)' /\ Judgeable(x)' => visit'[x].at <= visit'[w].at
    BY <2>3 DEF Chronicle, RiskTypes
  <2> QED BY <2>3, <2>5, <2>6, <2>7, <2>8, <2>4 DEF Chronicle
<1>3. CASE UNCHANGED riskVars
  BY <1>3 DEF riskVars, Chronicle, Judgeable
<1> QED BY <1>1, <1>2, <1>3 DEF RiskNext, RiskCommand

(* Whoever newly finds no fingerprint overlaps the others that found none:    *)
(* none of them has set one yet, so none has ended.                          *)
LEMMA FirstOnesStay ==
    ASSUME RiskTypes, Chronicle, FirstOnes, OwnerStands, [RiskNext]_riskVars
    PROVE  FirstOnes'
<1>1. ASSUME NEW v \in Visits,
             \A w \in Visits \ {v} : visit'[w] = visit[w],
             visit'[v].device # Unset \/ visit'[v].stage \notin {"matching", "claiming"},
             visit'[v].stage = "claiming" => visit'[v].first,
             visit'[v].first => visit'[v].stage \notin {"new", "tracking", "matching"},
             visit'[v].first => \A w \in Visits \ {v} : visit[w].first =>
                                    Overlap(v, w)' /\ Overlap(w, v)'
      PROVE  FirstOnes'
  <2>1. \A x, y \in Visits : x # y /\ visit'[x].first /\ visit'[y].first => Overlap(x, y)'
    <3> SUFFICES ASSUME NEW x \in Visits, NEW y \in Visits, x # y, visit'[x].first, visit'[y].first
                 PROVE  Overlap(x, y)'
      OBVIOUS
    <3>1. CASE x = v \/ y = v
      BY <1>1, <3>1
    <3>2. CASE x # v /\ y # v
      <4>1. Overlap(x, y)
        BY <1>1, <3>2 DEF FirstOnes
      <4> QED BY <4>1, OverlapsStay
    <3> QED BY <3>1, <3>2
  <2> QED BY <1>1, <2>1 DEF FirstOnes
(* No visit is newly one that found none.                                    *)
<1>2. ASSUME NEW v \in Visits, visit'[v].first => visit[v].first
      PROVE  visit'[v].first => \A w \in Visits \ {v} : visit[w].first =>
                                    Overlap(v, w)' /\ Overlap(w, v)'
  BY <1>2, OverlapsStay DEF FirstOnes
<1>3. ASSUME NEW v \in Visits, Arrive(v)
      PROVE  FirstOnes'
  <2>1. /\ visit[v].stage = "new" /\ visit'[v].stage = "tracking" /\ visit'[v].first = visit[v].first
        /\ \A w \in Visits \ {v} : visit'[w] = visit[w]
    BY <1>3, ArriveStep
  <2>2. ~visit'[v].first
    BY <2>1 DEF FirstOnes
  <2> QED BY <1>1, <2>1, <2>2
<1>4. ASSUME NEW v \in Visits, Track(v)
      PROVE  FirstOnes'
  <2>1. /\ Proceeds(v) /\ visit[v].stage = "tracking" /\ visit'[v].first = visit[v].first
        /\ visit'[v].stage \in {"matching", "locating"}
        /\ visit'[v].device # Unset <=> visit'[v].stage = "matching"
    BY <1>4, TrackStep
  <2>2. ~visit'[v].first
    BY <2>1 DEF FirstOnes
  <2> QED BY <1>1, <2>1, <2>2 DEF Proceeds
<1>5. ASSUME NEW v \in Visits, MatchDevice(v)
      PROVE  FirstOnes'
  <2>1. /\ Proceeds(v) /\ visit[v].stage = "matching"
        /\ visit'[v].stage = IF owner = Unset THEN "claiming" ELSE "locating"
        /\ visit'[v].first <=> owner = Unset
    BY <1>5, MatchStep
  <2>2. visit'[v].device # Unset
    BY <2>1 DEF Proceeds, FirstOnes
  <2>3. ASSUME owner = Unset, NEW w \in Visits \ {v}, visit[w].first
        PROVE  Overlap(v, w)' /\ Overlap(w, v)'
    <3>1. visit[w].stage = "claiming"
      BY <2>3 DEF OwnerStands, Standing
    <3>2. w \notin before[v] /\ v \notin before[w]
      BY <2>1, <3>1 DEF Chronicle
    <3>3. Overlap(v, w) /\ Overlap(w, v)
      BY <2>1, <3>1, <3>2 DEF Overlap
    <3> QED BY <3>3, OverlapsStay
  <2> QED BY <1>1, <2>1, <2>2, <2>3 DEF Proceeds
<1>6. ASSUME NEW v \in Visits, ClaimDevice(v) \/ Locate(v) \/ Remember(v) \/ AssessFails(v)
      PROVE  FirstOnes'
  <2>1. /\ Proceeds(v) /\ visit'[v].stage \in {"locating", "remembering", "done"}
        /\ visit'[v].first => visit[v].first
    BY <1>6, ClaimStep, LocateStep, RememberStep, AssessFailsStep
  <2> QED BY <1>1, <1>2, <2>1 DEF Proceeds
<1>7. CASE UNCHANGED riskVars
  BY <1>7 DEF riskVars, FirstOnes, Overlap
<1> QED BY <1>3, <1>4, <1>5, <1>6, <1>7 DEF RiskNext

(* A visit that stood stands: nobody takes its claim back.                   *)
LEMMA ClaimedStay ==
    ASSUME NEW v \in Visits, \A w \in Visits \ {v} : visit'[w] = visit[w],
           Standing(v) => Standing(v)' /\ visit'[v].device = visit[v].device
    PROVE  Claimed \subseteq Claimed'
<1> SUFFICES ASSUME NEW d \in Devices \cup {Unset}, d \in Claimed PROVE d \in Claimed'
  BY DEF Claimed
<1>1. PICK x \in Visits : Standing(x) /\ visit[x].device = d
  BY DEF Claimed
<1>2. Standing(x)' /\ visit'[x].device = d
  BY <1>1 DEF Standing
<1> QED BY <1>2 DEF Claimed

(* A command that leaves the fingerprint, and settles its visit with one.    *)
LEMMA OwnerLeft ==
    ASSUME OwnerStands, NEW v \in Visits, \A w \in Visits \ {v} : visit'[w] = visit[w],
           owner' = owner, visit'[v].device = visit[v].device \/ (~Standing(v) /\ ~Settled(v)'),
           Standing(v) <=> Standing(v)',
           Settled(v)' => visit[v].device \in Claimed
    PROVE  OwnerStands'
<1>1. Claimed \subseteq Claimed'
  BY ClaimedStay
<1>2. \A w \in Visits : Settled(w)' => visit'[w].device \in Claimed
  BY DEF OwnerStands, Settled, Assessed
<1>3. owner = Unset => \A x \in Visits : ~Standing(x)'
  BY DEF OwnerStands, Standing
<1> QED BY <1>1, <1>2, <1>3 DEF OwnerStands

(* A SET that was executed: the fingerprint is its visit's.                  *)
LEMMA OwnerSet ==
    ASSUME RiskTypes, OwnerStands, FirstOnes, NEW v \in Visits, Proceeds(v), RiskTypes',
           visit[v].stage = "claiming", owner' = visit[v].device, visit'[v].stage # "claiming",
           visit'[v].first <=> visit[v].first
    PROVE  OwnerStands'
<1>1. /\ visit'[v].device = visit[v].device
      /\ \A w \in Visits \ {v} : visit'[w] = visit[w]
  BY DEF Proceeds
<1>2. Standing(v)' /\ owner' # Unset
  BY DEF FirstOnes, Standing
<1>3. Claimed \subseteq Claimed'
  BY <1>1, <1>2, ClaimedStay
<1>4. owner' \in Claimed' /\ visit'[v].device \in Claimed'
  BY <1>1, <1>2 DEF Claimed, RiskTypes
<1>5. \A w \in Visits \ {v} : Settled(w)' => visit'[w].device \in Claimed
  BY <1>1 DEF OwnerStands, Settled, Assessed
<1> QED BY <1>2, <1>3, <1>4, <1>5 DEF OwnerStands

LEMMA OwnerStandsStill ==
    ASSUME RiskTypes, FirstOnes, OwnerStands, [RiskNext]_riskVars
    PROVE  OwnerStands'
<1>1. ASSUME NEW v \in Visits, Arrive(v)
      PROVE  OwnerStands'
  <2>1. /\ visit[v].stage = "new" /\ visit'[v].stage = "tracking" /\ visit'[v].first = visit[v].first
        /\ owner' = owner /\ \A w \in Visits \ {v} : visit'[w] = visit[w]
    BY <1>1, ArriveStep
  <2>2. ~Standing(v) /\ ~Standing(v)' /\ ~Settled(v)'
    BY <2>1 DEF FirstOnes, Standing, Settled, Assessed
  <2> QED BY <2>1, <2>2, OwnerLeft
<1>2. ASSUME NEW v \in Visits, Track(v)
      PROVE  OwnerStands'
  <2>1. /\ Proceeds(v) /\ visit[v].stage = "tracking" /\ owner' = owner
        /\ visit'[v].stage \in {"matching", "locating"} /\ visit'[v].first = visit[v].first
        /\ visit'[v].device # Unset <=> visit'[v].stage = "matching"
    BY <1>2, TrackStep
  <2>2. ~Standing(v) /\ ~Standing(v)' /\ ~Settled(v)'
    BY <2>1 DEF FirstOnes, Standing, Settled, Assessed
  <2> QED BY <2>1, <2>2, OwnerLeft DEF Proceeds
<1>3. ASSUME NEW v \in Visits, MatchDevice(v)
      PROVE  OwnerStands'
  <2>1. /\ Proceeds(v) /\ visit[v].stage = "matching" /\ owner' = owner
        /\ visit'[v].stage = IF owner = Unset THEN "claiming" ELSE "locating"
        /\ owner \notin {Unset, visit[v].device} => "device" \in visit'[v].reasons
        /\ visit'[v].first <=> owner = Unset
    BY <1>3, MatchStep
  <2>2. ~Standing(v) /\ ~Standing(v)'
    BY <2>1 DEF FirstOnes, Standing
  <2>3. Settled(v)' => owner # Unset /\ owner = visit[v].device
    BY <2>1 DEF Settled, Assessed
  <2>4. Settled(v)' => visit[v].device \in Claimed
    BY <2>3 DEF OwnerStands
  <2> QED BY <2>1, <2>2, <2>4, OwnerLeft DEF Proceeds
<1>4. ASSUME NEW v \in Visits, ClaimDevice(v)
      PROVE  OwnerStands'
  <2>1. /\ RiskTypes' /\ Proceeds(v) /\ visit[v].stage = "claiming" /\ owner' = visit[v].device
        /\ visit'[v].stage # "claiming" /\ (visit'[v].first <=> visit[v].first)
    BY <1>4, ClaimStep
  <2> QED BY <2>1, OwnerSet
<1>5. ASSUME NEW v \in Visits, Locate(v) \/ Remember(v)
      PROVE  OwnerStands'
  <2>1. /\ Proceeds(v) /\ owner' = owner /\ visit'[v].first = visit[v].first
        /\ visit[v].stage \in {"locating", "remembering"}
        /\ visit'[v].stage \in {"remembering", "done"}
        /\ visit[v].reasons \subseteq visit'[v].reasons
    BY <1>5, LocateStep, RememberStep
  <2>2. Standing(v) <=> Standing(v)'
    BY <2>1 DEF Standing
  <2>3. Settled(v)' => visit[v].device \in Claimed
    BY <2>1 DEF Settled, Assessed, Proceeds, OwnerStands
  <2> QED BY <2>1, <2>2, <2>3, OwnerLeft DEF Proceeds
<1>6. ASSUME NEW v \in Visits, AssessFails(v)
      PROVE  OwnerStands'
  <2>1. /\ RiskTypes' /\ Proceeds(v)
        /\ visit'[v].stage = "done" /\ visit'[v].answer = "unjudged"
        /\ \/ /\ owner' = owner
              /\ visit'[v].first <=> visit[v].first /\ visit[v].stage # "claiming"
           \/ /\ visit[v].stage = "claiming" /\ owner' = visit[v].device
              /\ visit'[v].first <=> visit[v].first
    BY <1>6, AssessFailsStep
  <2>2. CASE owner' = owner /\ (visit'[v].first <=> visit[v].first /\ visit[v].stage # "claiming")
    <3>1. (Standing(v) <=> Standing(v)') /\ ~Settled(v)'
      BY <2>1, <2>2 DEF Standing, Settled, Assessed
    <3> QED BY <2>1, <2>2, <3>1, OwnerLeft DEF Proceeds
  <2>3. CASE /\ visit[v].stage = "claiming" /\ owner' = visit[v].device
             /\ visit'[v].first <=> visit[v].first
    BY <2>1, <2>3, OwnerSet
  <2> QED BY <2>1, <2>2, <2>3
<1>7. CASE UNCHANGED riskVars
  BY <1>7 DEF riskVars, OwnerStands, Claimed, Standing, Settled, Assessed
<1> QED BY <1>1, <1>2, <1>3, <1>4, <1>5, <1>6, <1>7 DEF RiskNext

(* Before a calm visit came every other one had ended.                       *)
LEMMA CalmIsAlone ==
    ASSUME RiskTypes, Chronicle, NEW v \in Visits, visit[v].stage \notin {"new", "done"}, Calm(v)
    PROVE  before[v] = Done
<1>1. before[v] \subseteq Done
  BY DEF Chronicle, Done, RiskTypes
<1>2. ASSUME NEW x \in Done PROVE x \in before[v]
  <2>1. x \in Visits /\ x # v /\ v \notin before[x]
    BY DEF Done, Chronicle
  <2> QED BY <2>1 DEF Calm, Overlap, Done
<1> QED BY <1>1, <1>2

(* What was seen last when a calm visit looks is where the last one was.     *)
LEMMA CalmTravelIsSeen ==
    ASSUME RiskTypes, Chronicle, LastIsSeen, NEW v \in Visits, visit[v].stage = "locating", Calm(v),
           NEW w \in before[v], TooFar(v, w)
    PROVE  "travel" \in TravelReason(v)
<1>1. before[v] = Done /\ w \in Visits
  BY CalmIsAlone DEF RiskTypes
<1>2. InOrder(Done)
  BY <1>1 DEF Calm
<1>3. SeenLast(w)
  BY <1>1, <1>2 DEF LastIsSeen, TooFar
<1>4. Judgeable(w) /\ visit[w].at # 0
  BY <1>1, <1>2 DEF InOrder, Assessed, Judgeable, Chronicle
<1>5. /\ visit[w].at \in Nat /\ visit[v].at \in Nat /\ last.at \in Nat /\ TravelTime \in Nat
  BY <1>1, RiskAssumption DEF RiskTypes, Assessments
<1>6. last.at # 0 /\ visit[v].at - last.at < TravelTime
  BY <1>3, <1>4, <1>5 DEF SeenLast, TooFar
<1>7. visit[v].address \in Located /\ visit[v].address # last.place
  BY <1>3 DEF SeenLast, TooFar
<1> QED BY <1>6, <1>7 DEF TravelReason

(* A step that ends no visit and leaves the place.                           *)
LEMMA LastStays ==
    ASSUME RiskTypes, LastIsSeen, [RiskNext]_riskVars, Done' = Done, last' = last
    PROVE  LastIsSeen'
<1> SUFFICES ASSUME InOrder(Done)',
                    NEW w \in Done,
                    visit'[w].address \in Located,
                    \A x \in Done \ (before'[w] \cup {w}) : visit'[x].address \in Hidden
             PROVE  SeenLast(w)'
  BY DEF LastIsSeen
<1>1. \A x \in Done : visit'[x] = visit[x] /\ before'[x] = before[x]
  BY VisitsStay DEF Done
<1>2. InOrder(Done)
  <2>1. PICK ended \in SUBSET Done : ended = Done
    OBVIOUS
  <2>2. InOrder(ended)'
    BY <2>1 DEF InOrder
  <2> QED BY <2>1, <2>2, WasInOrder
<1> QED BY <1>1, <1>2 DEF LastIsSeen, SeenLast

LEMMA LastIsSeenStays ==
    ASSUME RiskTypes, Chronicle, LastIsSeen, [RiskNext]_riskVars
    PROVE  LastIsSeen'
<1>1. ASSUME NEW v \in Visits, Arrive(v)
      PROVE  LastIsSeen'
  <2>1. Done' = Done /\ last' = last
    BY <1>1, ArriveStep DEF Done
  <2> QED BY <2>1, LastStays
<1>2. ASSUME NEW v \in Visits, Track(v) \/ MatchDevice(v) \/ ClaimDevice(v) \/ Locate(v)
      PROVE  LastIsSeen'
  <2>1. Proceeds(v) /\ visit'[v].stage # "done" /\ last' = last
    BY <1>2, TrackStep, MatchStep, ClaimStep, LocateStep
  <2>2. Done' = Done
    BY <2>1 DEF Done, Proceeds
  <2> QED BY <2>1, <2>2, LastStays
<1>3. ASSUME NEW v \in Visits, AssessFails(v)
      PROVE  LastIsSeen'
  <2>1. v \in Done' /\ ~Assessed(v)'
    BY <1>3, AssessFailsStep DEF Done, Assessed
  <2> QED BY <2>1 DEF LastIsSeen, InOrder
<1>4. ASSUME NEW v \in Visits, Remember(v)
      PROVE  LastIsSeen'
  <2>1. /\ RiskTypes' /\ Proceeds(v)
        /\ visit'[v].stage = "done" /\ visit'[v].at = visit[v].at
        /\ visit'[v].address = visit[v].address
        /\ last'.at = visit[v].at
        /\ last'.place = IF visit[v].address \in Located THEN visit[v].address ELSE last.place
    BY <1>4, RememberStep
  <2>2. /\ Done' = Done \cup {v} /\ v \notin Done /\ before' = before
        /\ \A w \in Visits : v \notin before[w]
    BY <2>1 DEF Proceeds, Done, Chronicle
  <2>3. \A x \in Done : x \in Visits /\ visit'[x] = visit[x]
    BY VisitsStay DEF Done
  <2> SUFFICES ASSUME InOrder(Done)',
                      NEW w \in Done',
                      visit'[w].address \in Located,
                      \A x \in Done' \ (before[w] \cup {w}) : visit'[x].address \in Hidden
               PROVE  SeenLast(w)'
    BY <2>2 DEF LastIsSeen
  <2>4. CASE w = v
    BY <2>1, <2>4 DEF SeenLast, RiskTypes, Assessments
  <2>5. CASE w # v
    <3>1. w \in Done /\ v \in Done' \ (before[w] \cup {w})
      BY <2>2, <2>3, <2>5
    (* v did not see a place, and came after w.                              *)
    <3>2. visit[v].address \in Hidden
      BY <2>1, <3>1
    <3>3. last'.place = last.place
      BY <2>1, <3>2, RiskAssumption
    <3>4. InOrder(Done)
      <4>1. PICK ended \in SUBSET Done : ended = Done
        OBVIOUS
      <4>2. InOrder(ended)'
        BY <2>2, <4>1 DEF InOrder
      <4> QED BY <4>1, <4>2, WasInOrder
    <3>5. \A x \in Done \ (before[w] \cup {w}) : visit[x].address \in Hidden
      BY <2>2, <2>3
    <3>6. SeenLast(w)
      BY <2>3, <3>1, <3>4, <3>5 DEF LastIsSeen
    <3>7. w \in before[v]
      <4>1. ~Overlap(w, v)'
        BY <2>2, <3>1 DEF InOrder
      <4> QED BY <2>1, <2>2, <2>3, <3>1, <4>1 DEF Overlap, Done
    <3>8. visit[w].at <= visit[v].at
      <4>1. Assessed(v)' /\ Assessed(w)'
        BY <2>2 DEF InOrder
      <4>2. Judgeable(v)' /\ Judgeable(w)' /\ w \in before'[v]
        BY <2>2, <3>7, <4>1 DEF Judgeable, Assessed
      <4>3. Chronicle' /\ w \in Visits
        BY <2>3, <3>1, ChronicleStays
      <4> QED BY <2>1, <2>3, <3>1, <4>2, <4>3 DEF Chronicle
    <3> QED BY <2>1, <2>3, <3>1, <3>3, <3>6, <3>8 DEF SeenLast, RiskTypes, Assessments
  <2> QED BY <2>4, <2>5
<1>5. CASE UNCHANGED riskVars
  BY <1>5, LastStays DEF riskVars, Done
<1> QED BY <1>1, <1>2, <1>3, <1>4, <1>5 DEF RiskNext

(* What decided stays decided, for the same visits before.                   *)
LEMMA DenialStays ==
    ASSUME RiskTypes, Chronicle, [RiskNext]_riskVars, NEW v \in Visits, Denies(v), visit[v].stage # "new",
           visit'[v].at = visit[v].at, visit'[v].address = visit[v].address,
           visit'[v].answer = visit[v].answer
    PROVE  Denies(v)'
<1>1. /\ before'[v] = before[v]
      /\ \A x \in before[v] : x \in Visits /\ visit'[x] = visit[x] /\ before'[x] = before[x]
  BY VisitsStay DEF Chronicle, RiskTypes
<1> QED BY <1>1 DEF Denies, TooFar

LEMMA TravelStays ==
    ASSUME RiskTypes, Chronicle, TravelSeen, [RiskNext]_riskVars
    PROVE  TravelSeen'
<1> SUFFICES ASSUME NEW v \in Visits, (visit[v].stage = "remembering" \/ Assessed(v))', Calm(v)'
             PROVE  Denies(v)'
  BY LastIsSeenStays DEF TravelSeen
<1>1. ASSUME visit[v].stage # "new", UNCHANGED <<visit[v].stage, visit[v].answer>>,
             visit'[v].at = visit[v].at, visit'[v].address = visit[v].address
      PROVE  Denies(v)'
  <2>1. Calm(v) /\ (visit[v].stage = "remembering" \/ Assessed(v))
    BY <1>1, WasCalm DEF Assessed
  <2> QED BY <1>1, <2>1, DenialStays DEF TravelSeen
<1>2. ASSUME NEW u \in Visits, Arrive(u)
      PROVE  Denies(v)'
  <2>1. /\ visit[u].stage = "new" /\ visit'[u].stage = "tracking"
        /\ \A w \in Visits \ {u} : visit'[w] = visit[w]
    BY <1>2, ArriveStep
  <2>2. v # u
    BY <2>1 DEF Assessed
  <2>3. visit'[v] = visit[v] /\ visit[v].stage # "new"
    BY <2>1, <2>2 DEF Assessed
  <2> QED BY <1>1, <2>3
<1>3. ASSUME NEW u \in Visits, Proceeds(u), u # v
      PROVE  Denies(v)'
  <2>1. visit'[v] = visit[v] /\ visit[v].stage # "new"
    BY <1>3 DEF Proceeds, Assessed
  <2> QED BY <1>1, <2>1
<1>4. ASSUME Locate(v)
      PROVE  Denies(v)'
  <2>1. /\ Proceeds(v) /\ visit[v].stage = "locating" /\ visit'[v].stage = "remembering"
        /\ "travel" \in TravelReason(v) => visit'[v].answer = "deny"
    BY <1>4, LocateStep
  <2>2. Calm(v) /\ LastIsSeen
    BY <2>1, WasCalm DEF TravelSeen
  <2>3. /\ visit'[v].at = visit[v].at /\ visit'[v].address = visit[v].address /\ before' = before
        /\ \A x \in before[v] : x \in Visits /\ visit'[x] = visit[x]
    BY <2>1, VisitsStay DEF Proceeds, Chronicle, RiskTypes
  <2>4. \A w \in before[v] : TooFar(v, w) => "travel" \in TravelReason(v)
    BY <2>1, <2>2, CalmTravelIsSeen
  <2>5. \A w \in before[v] : TooFar(v, w)' => TooFar(v, w)
    BY <2>3 DEF TooFar
  <2> QED BY <2>1, <2>3, <2>4, <2>5 DEF Denies
<1>5. ASSUME Remember(v)
      PROVE  Denies(v)'
  <2>1. /\ visit[v].stage = "remembering" /\ visit'[v].answer = visit[v].answer
        /\ visit'[v].at = visit[v].at /\ visit'[v].address = visit[v].address
    BY <1>5, RememberStep
  <2>2. Calm(v)
    BY <2>1, WasCalm
  <2> QED BY <2>1, <2>2, DenialStays DEF TravelSeen
<1>6. ~(Track(v) \/ MatchDevice(v) \/ ClaimDevice(v) \/ AssessFails(v))
  BY TrackStep, MatchStep, ClaimStep, AssessFailsStep DEF Assessed
<1>7. CASE UNCHANGED riskVars
  <2>1. visit' = visit /\ visit[v].stage # "new"
    BY <1>7 DEF riskVars, Assessed
  <2> QED BY <1>1, <2>1
<1>8. ASSUME NEW u \in Visits, RiskCommand(u)
      PROVE  Denies(v)'
  <2>1. CASE u = v
    BY <1>4, <1>5, <1>6, <1>8, <2>1 DEF RiskCommand
  <2>2. CASE u # v
    BY <1>3, <1>8, <2>2, CommandProceeds
  <2> QED BY <2>1, <2>2
<1> QED BY <1>2, <1>7, <1>8 DEF RiskNext, RiskCommand

LEMMA RiskStarts ==
    ASSUME RiskInit
    PROVE  RiskInv
<1> USE DEF RiskInit
<1>1. RiskTypes
  <2>1. NotYet \in Assessments
    BY DEF NotYet, Assessments, Stages, Reasons, Answers
  <2> QED BY <2>1 DEF RiskTypes
<1>2. \A v \in Visits : /\ visit[v].stage = "new" /\ visit[v].answer = Unset /\ before[v] = {}
                         /\ ~visit[v].first
  <2>1. NotYet.stage = "new" /\ NotYet.answer = Unset /\ ~NotYet.first
    BY DEF NotYet
  <2> QED BY <2>1
<1>3. Chronicle
  BY <1>2 DEF Chronicle, Judgeable, Unset
<1>4. FirstOnes /\ OwnerStands
  BY <1>2 DEF FirstOnes, OwnerStands, Standing, Settled, Assessed
<1>5. TravelSeen
  BY <1>2 DEF TravelSeen, LastIsSeen, Done, Assessed
<1> QED BY <1>1, <1>3, <1>4, <1>5 DEF RiskInv

(* What each visit has read and judged agrees with what Redis has of the      *)
(* session, and with the visits that ended before it.                       *)
THEOREM RiskInvariant == ChecksSpec => []RiskInv
<1>1. ChecksInit => RiskInv
  BY RiskStarts DEF ChecksInit
<1>2. RiskInv /\ [ChecksNext]_checkVars => RiskInv'
  BY OneCheckMoves, VisitsStay, ChronicleStays, FirstOnesStay, OwnerStandsStill, TravelStays
     DEF RiskInv
<1> QED BY <1>1, <1>2, PTL DEF ChecksSpec

(* Two devices pass in one session only if visits of both ran at once and     *)
(* each found no fingerprint: one that stands is never taken over.          *)
THEOREM OneDevicePasses == ChecksSpec => []OneDevice
<1>1. ASSUME RiskInv PROVE OneDevice
  <2> SUFFICES ASSUME NEW v \in Visits, NEW w \in Visits, Passed(v), Passed(w),
                      visit[v].device # visit[w].device
               PROVE  \E x, y \in Visits :
                          /\ Overlap(x, y) /\ visit[x].first /\ visit[y].first
                          /\ visit[x].device = visit[v].device /\ visit[y].device = visit[w].device
    BY DEF OneDevice
  <2>1. visit[v].device \in Claimed /\ visit[w].device \in Claimed
    BY <1>1 DEF RiskInv, OwnerStands, Passed, Settled
  <2>2. PICK x \in Visits : visit[x].first /\ visit[x].device = visit[v].device
    BY <2>1 DEF Claimed, Standing
  <2>3. PICK y \in Visits : visit[y].first /\ visit[y].device = visit[w].device
    BY <2>1 DEF Claimed, Standing
  <2>4. Overlap(x, y)
    BY <1>1, <2>2, <2>3 DEF RiskInv, FirstOnes
  <2> QED BY <2>2, <2>3, <2>4
<1> QED BY <1>1, RiskInvariant, PTL

(* Whoever is seen at two places within less than the trip between them is    *)
(* denied, also when visits from unknown places came in between.            *)
THEOREM TravelIsDenied == ChecksSpec => []TravelDenied
<1>1. ASSUME RiskInv PROVE TravelDenied
  <2> SUFFICES ASSUME NEW v \in Visits, InTurn(v), NEW w \in before[v], TooFar(v, w)
               PROVE  visit[v].answer = "deny"
    BY DEF TravelDenied, TooFar
  <2>1. Calm(v) /\ Assessed(v)
    <3>1. \A x, y \in before[v] : ~Overlap(x, y)
      BY Zenon DEF InTurn
    <3>2. Assessed(v) /\ (\A x \in before[v] : Assessed(x)) /\ \A x \in Visits : ~Overlap(x, v)
      BY Zenon DEF InTurn
    <3> QED BY <3>1, <3>2 DEF Calm, InOrder
  <2> QED BY <1>1, <2>1 DEF RiskInv, TravelSeen, Denies
<1> QED BY <1>1, RiskInvariant, PTL

-----------------------------------------------------------------------------
(* The settings. A key of the session is of its present epoch, because every  *)
(* write is and signing out deletes the others.                             *)

Configs ==
    [model : Models \cup {Empty}, provider : Providers \cup {Empty},
     key : [Providers -> {NoKey, epoch}]]

TurnTypes ==
    turn \in [Turns -> [stage : {"idle", "rotating", "running"},
                        provider : Providers \cup {Empty},
                        key : Nat \cup {ServerKey}, since : Nat]]

SettingsInv ==
    /\ epoch \in Nat \ {0}
    /\ config \in Configs
    /\ TurnTypes
    /\ \A t \in Turns : turn[t].stage = "rotating" => turn[t].provider = "groq"
    /\ SessionPays

LEMMA SettingsStart ==
    ASSUME SettingsInit
    PROVE  SettingsInv
<1>1. config \in Configs
  <2>1. Nothing \in Configs
    BY DEF Nothing, Configs
  <2>2. [Nothing EXCEPT !.model = DefaultModel, !.provider = "groq"] \in Configs
    BY <2>1 DEF Configs, Models, Providers
  <2> QED BY <2>1, <2>2 DEF SettingsInit
<1>2. TurnTypes
  BY DEF SettingsInit, TurnTypes, NoTurn, NoKey
<1> QED BY <1>1, <1>2 DEF SettingsInit, SettingsInv, SessionPays, NoTurn

LEMMA MergedIsConfig ==
    ASSUME SettingsInv, NEW model \in Models \cup {Empty}, NEW provider \in Providers \cup {Empty},
           NEW sent \in SUBSET Providers, NEW clears \in BOOLEAN
    PROVE  Merged(model, provider, sent, clears) \in Configs
<1>1. [p \in Providers |-> IF p \in sent THEN epoch
                           ELSE IF p = "nvidia" /\ clears THEN NoKey ELSE config.key[p]]
         \in [Providers -> {NoKey, epoch}]
  BY DEF SettingsInv, Configs
<1> QED BY <1>1 DEF SettingsInv, Configs, Merged

LEMMA ResolvedIsProvider ==
    ASSUME SettingsInv
    PROVE  ResolvedProvider \in Providers
BY DEF SettingsInv, Configs, ResolvedProvider, InferredProvider, Models, DefaultModel, Providers, Empty

LEMMA ResolveStays ==
    ASSUME SettingsInv, NEW t \in Turns, Resolve(t)
    PROVE  SettingsInv'
<1> DEFINE p == ResolvedProvider
<1>1. p \in Providers /\ config.key[p] \in {NoKey, epoch} /\ UNCHANGED <<config, epoch>>
  BY ResolvedIsProvider DEF Resolve, SettingsInv, Configs
<1>2. CASE p = "groq" /\ config.key[p] = NoKey
  <2>1. Becomes(t, "rotating", NoKey)
    BY <1>2 DEF Resolve
  <2> HIDE DEF p
  <2>2. turn' = [turn EXCEPT ![t] =
           [stage |-> "rotating", provider |-> p, key |-> NoKey, since |-> epoch]]
    BY <2>1 DEF Becomes, p
  <2> QED BY <1>1, <1>2, <2>2 DEF SettingsInv, Configs, TurnTypes, SessionPays, NoKey
<1>3. CASE ~(p = "groq" /\ config.key[p] = NoKey)
  <2>1. Becomes(t, "running", SessionOrServer(p)) /\ KeyIsThere(p)
    BY <1>3 DEF Resolve
  <2> HIDE DEF p
  <2>2. config.key[p] = epoch /\ SessionOrServer(p) = epoch
    BY <1>1, <1>3, <2>1 DEF KeyIsThere, SessionOrServer, SettingsInv
  <2>3. turn' = [turn EXCEPT ![t] =
           [stage |-> "running", provider |-> p, key |-> epoch, since |-> epoch]]
    BY <2>1, <2>2 DEF Becomes, p
  <2> QED BY <1>1, <2>3 DEF SettingsInv, Configs, TurnTypes, SessionPays
<1> QED BY <1>2, <1>3

LEMMA SettingsStay ==
    ASSUME SettingsInv, [SettingsNext]_settingsVars
    PROVE  SettingsInv'
<1>1. CASE Configure
  <2>1. config' \in Configs /\ UNCHANGED <<epoch, turn>>
    BY <1>1, MergedIsConfig DEF Configure
  <2> QED BY <2>1 DEF SettingsInv, Configs, TurnTypes, SessionPays
<1>2. CASE LogOut
  <2>1. config' = Nothing /\ epoch' = epoch + 1 /\ turn' = turn
    BY <1>2 DEF LogOut
  <2>2. config' \in Configs'
    BY <2>1 DEF Configs, Nothing
  <2> QED BY <2>1, <2>2 DEF SettingsInv, TurnTypes, SessionPays
<1>3. ASSUME NEW t \in Turns, NextKey(t)
      PROVE  SettingsInv'
  <2>1. /\ turn[t].stage = "rotating" /\ UNCHANGED <<config, epoch>>
        /\ turn' = [turn EXCEPT ![t] = [@ EXCEPT !.stage = "running", !.key = ServerKey]]
    BY <1>3 DEF NextKey, SettingsInv, TurnTypes
  <2>2. turn[t].provider = "groq"
    BY <2>1 DEF SettingsInv
  <2>3. config' \in Configs' /\ TurnTypes'
    BY <2>1 DEF SettingsInv, Configs, TurnTypes
  <2>4. \A u \in Turns : turn'[u].stage = "rotating" => turn'[u].provider = "groq"
    BY <2>1 DEF SettingsInv, TurnTypes
  <2>5. SessionPays'
    BY <2>1, <2>2 DEF SettingsInv, TurnTypes, SessionPays
  <2> QED BY <2>1, <2>3, <2>4, <2>5 DEF SettingsInv
<1>4. ASSUME NEW t \in Turns, Finish(t)
      PROVE  SettingsInv'
  BY <1>4 DEF Finish, SettingsInv, Configs, TurnTypes, SessionPays, NoTurn, NoKey
<1>5. CASE UNCHANGED settingsVars
  BY <1>5 DEF settingsVars, SettingsInv, Configs, TurnTypes, SessionPays
<1> QED BY <1>1, <1>2, <1>3, <1>4, <1>5, ResolveStays DEF SettingsNext

(* No turn of any session asks its provider with a key of an earlier          *)
(* customer, or with one of the server's unless it asks Groq.               *)
THEOREM SessionsPay == ChecksSpec => []SessionPays
<1>1. ChecksInit => SettingsInv
  BY SettingsStart DEF ChecksInit
<1>2. SettingsInv /\ [ChecksNext]_checkVars => SettingsInv'
  BY OneCheckMoves, SettingsStay
<1>3. SettingsInv => SessionPays
  BY DEF SettingsInv
<1> QED BY <1>1, <1>2, <1>3, PTL DEF ChecksSpec

=============================================================================
