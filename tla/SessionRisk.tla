---------------------------- MODULE SessionRisk ----------------------------
(***************************************************************************)
(* The risk engine behind SessionRiskMiddleware (session_security.py and   *)
(* middleware.py), for one session: every visit reads and writes, one      *)
(* Redis command after another, the session's recent addresses, its device *)
(* fingerprint and where it was last seen. Every two places are too far    *)
(* apart for a trip shorter than TravelTime. The keys' 30 days do not end, *)
(* and the path decides only afterwards whether a decision is enforced.    *)
(***************************************************************************)
EXTENDS Integers, FiniteSets

CONSTANTS
    MaxVisits,   \* bound: so many requests of the session, numbered as they arrive
    Located,     \* addresses the GeoIP database knows, each at a place of its own
    Hidden,      \* addresses it does not know
    Devices,     \* device fingerprints, and "none" for a request without one
    Underway,    \* bound: so many visits at once
    IpWindow,    \* concurrent_ip_window_seconds
    IpThreshold, \* concurrent_ip_threshold
    TravelTime,  \* what a trip takes at impossible_travel_speed_kmh
    MaxHours     \* bound: the clock stops there

Visits == 1..MaxVisits
Unset == "none"

ASSUME RiskAssumption ==
    /\ MaxVisits \in Nat /\ TravelTime \in Nat
    /\ IsFiniteSet(Located) /\ IsFiniteSet(Hidden) /\ Located \cap Hidden = {}
    /\ Unset \notin Located \cup Hidden

VARIABLES
    hour,      \* the clock, as of the last arrival
    visit,     \* visit[v]: what assess knows in visit v; first: it found no
               \* fingerprint, and has set its own or still may
    recent,    \* session:ip_ts: when an address was last tracked; 0: no member
    owner,     \* session:fingerprint
    last,      \* session:state: last_seen_ts and the place, the country with it
    before     \* history: the visits that had ended when v arrived

riskVars == <<hour, visit, recent, owner, last, before>>

NotYet == [stage |-> "new", at |-> 0, address |-> Unset, device |-> Unset,
           count |-> 0, first |-> FALSE, reasons |-> {}, answer |-> Unset]

RiskInit ==
    /\ hour = 1
    /\ visit = [v \in Visits |-> NotYet]
    /\ recent = [a \in Located \cup Hidden |-> 0]
    /\ owner = Unset
    /\ last = [at |-> 0, place |-> Unset]
    /\ before = [v \in Visits |-> {}]

(* The clock is read once, on arrival.                                       *)
Arrive(v) ==
    /\ visit[v].stage = "new" /\ \A w \in 1..v - 1 : visit[w].stage # "new"
    /\ Cardinality({w \in Visits : visit[w].stage \notin {"new", "done"}}) < Underway
    /\ hour' \in hour..MaxHours
    /\ \E a \in Located \cup Hidden, d \in Devices :
          visit' = [visit EXCEPT ![v] = [@ EXCEPT !.stage = "tracking", !.at = hour',
                                                 !.address = a, !.device = d]]
    /\ before' = [before EXCEPT ![v] = {w \in Visits : visit[w].stage = "done"}]
    /\ UNCHANGED <<recent, owner, last>>

(* ZREMRANGEBYSCORE, up to and with the window's floor.                     *)
StillRecent(now) ==
    [a \in DOMAIN recent |-> IF recent[a] <= now - IpWindow THEN 0 ELSE recent[a]]

Tracked(v, kept, to) ==
    /\ visit[v].stage = "tracking"
    /\ recent' = kept
    /\ visit' = [visit EXCEPT ![v].stage = to,
                              ![v].count = Cardinality({a \in DOMAIN kept : kept[a] > 0})]
    /\ UNCHANGED <<hour, owner, last, before>>

NextStage(v) == IF visit[v].device = Unset THEN "locating" ELSE "matching"

WithAddress(v) == [StillRecent(visit[v].at) EXCEPT ![visit[v].address] = visit[v].at]

(* The trim, the ZADD and the ZCARD of the sorted set, taken as one.        *)
Track(v) == Tracked(v, WithAddress(v), NextStage(v))

(* Variant: a visit that found another device takes the session over.       *)
MatchDeviceTaking(v) ==
    /\ visit[v].stage = "matching"
    /\ visit' = [visit EXCEPT ![v].stage = IF owner = visit[v].device THEN "locating"
                                           ELSE "claiming",
                              ![v].first = (owner = Unset),
                              ![v].reasons = IF owner \in {Unset, visit[v].device} THEN @
                                             ELSE @ \cup {"device"}]
    /\ UNCHANGED <<hour, recent, owner, last, before>>

MatchDevice(v) ==
    /\ visit[v].stage = "matching"
    /\ visit' = [visit EXCEPT ![v].stage = IF owner = Unset THEN "claiming" ELSE "locating",
                              ![v].first = (owner = Unset),
                              ![v].reasons = IF owner \in {Unset, visit[v].device} THEN @
                                             ELSE @ \cup {"device"}]
    /\ UNCHANGED <<hour, recent, owner, last, before>>

(* SET without NX: the key may have been set since it was read.             *)
ClaimDevice(v) ==
    /\ visit[v].stage = "claiming"
    /\ owner' = visit[v].device
    /\ visit' = [visit EXCEPT ![v].stage = "locating"]
    /\ UNCHANGED <<hour, recent, last, before>>

(* Haversine distance over the time since the session was last seen, which   *)
(* is at least a moment; else another country. A state without a place      *)
(* stands at the origin and names no country.                               *)
TravelReason(v) ==
    LET here == visit[v].address IN
    IF here \notin Located \/ last.at = 0 THEN {}
    ELSE IF here # last.place /\ visit[v].at - last.at < TravelTime THEN {"travel"}
    ELSE IF last.place \notin {Unset, here} THEN {"country"} ELSE {}

Crowded(v) == IF visit[v].count > IpThreshold THEN {"addresses"} ELSE {}

(* In tenths: the weights, the cap, the two thresholds.                     *)
Weight(r) == CASE r = "device" -> 4 [] r = "addresses" -> 5 [] r = "travel" -> 6
               [] r = "country" -> 3
ScoreOf(rs) ==
    LET w(r) == IF r \in rs THEN Weight(r) ELSE 0
        sum == w("device") + w("addresses") + w("travel") + w("country") IN
    IF sum > 10 THEN 10 ELSE sum

DecisionFor(rs) ==
    IF "travel" \in rs \/ ScoreOf(rs) > 7 THEN "deny"
    ELSE IF ScoreOf(rs) < 4 THEN "allow" ELSE "step_up"

Locate(v) ==
    /\ visit[v].stage = "locating"
    /\ LET rs == visit[v].reasons \cup Crowded(v) \cup TravelReason(v) IN
       visit' = [visit EXCEPT ![v].stage = "remembering", ![v].reasons = rs,
                              ![v].answer = DecisionFor(rs)]
    /\ UNCHANGED <<hour, recent, owner, last, before>>

(* Variant: the place is written only when there is none yet.               *)
RememberFirst(v) ==
    /\ visit[v].stage = "remembering"
    /\ last' = [at |-> visit[v].at,
                place |-> IF visit[v].address \in Located /\ last.place = Unset
                          THEN visit[v].address ELSE last.place]
    /\ visit' = [visit EXCEPT ![v].stage = "done", ![v].count = 0]
    /\ UNCHANGED <<hour, recent, owner, before>>

(* HSET of the time and, if the address is known, of the place: a visit      *)
(* without a place moves only the time. Whatever was decided.               *)
SeenIn(v) ==
    [at |-> visit[v].at,
     place |-> IF visit[v].address \in Located THEN visit[v].address ELSE last.place]

Remember(v) ==
    /\ visit[v].stage = "remembering"
    /\ last' = SeenIn(v)
    /\ visit' = [visit EXCEPT ![v].stage = "done", ![v].count = 0]
    /\ UNCHANGED <<hour, recent, owner, before>>

(* Redis fails: the middleware lets the request pass without an assessment.  *)
(* The last write may have been executed all the same. A read that fails     *)
(* leaves what a failure of the next write leaves.                          *)
AssessFails(v) ==
    /\ visit[v].stage \in {"tracking", "claiming", "remembering"}
    /\ \E executed \in BOOLEAN :
          LET wrote(stage) == executed /\ visit[v].stage = stage IN
          /\ recent' = IF wrote("tracking") THEN WithAddress(v) ELSE recent
          /\ owner' = IF wrote("claiming") THEN visit[v].device ELSE owner
          /\ last' = IF wrote("remembering") THEN SeenIn(v) ELSE last
          /\ visit' = [visit EXCEPT ![v] =
                [NotYet EXCEPT !.stage = "done", !.device = visit[v].device, !.answer = "unjudged",
                    !.first = visit[v].first /\ (visit[v].stage = "claiming" => executed)]]
    /\ UNCHANGED <<hour, before>>

RiskNext ==
    \E v \in Visits :
        \/ Arrive(v) \/ Track(v) \/ MatchDevice(v) \/ ClaimDevice(v)
        \/ Locate(v) \/ Remember(v) \/ AssessFails(v)

-----------------------------------------------------------------------------
(* Properties *)

Assessed(v) == visit[v].stage = "done" /\ visit[v].answer # "unjudged"
Passed(v) == Assessed(v) /\ visit[v].device # Unset /\ "device" \notin visit[v].reasons
Overlap(v, w) ==
    /\ v # w /\ visit[v].stage # "new" /\ visit[w].stage # "new"
    /\ v \notin before[w] /\ w \notin before[v]

(* Two devices pass in one session only if visits of both ran at once and    *)
(* each found no fingerprint, so that both set theirs (SET without NX): a    *)
(* fingerprint that stands is never taken over, by an overlapping visit      *)
(* either.                                                                  *)
OneDevice ==
    \A v, w \in Visits : Passed(v) /\ Passed(w) /\ visit[v].device # visit[w].device =>
        \E x, y \in Visits :
            /\ Overlap(x, y) /\ visit[x].first /\ visit[y].first
            /\ visit[x].device = visit[v].device /\ visit[y].device = visit[w].device

(* The visits up to v came one after the other, and all were judged.        *)
InTurn(v) ==
    /\ Assessed(v)
    /\ \A x \in before[v] : Assessed(x)
    /\ \A x, y \in before[v] \cup {v} : ~Overlap(x, y)
    /\ \A x \in Visits : ~Overlap(x, v)

(* Whoever is seen at two places within less than the trip between them is   *)
(* denied, also when visits from unknown places came in between.            *)
TravelDenied ==
    \A v \in Visits : InTurn(v) => \A w \in before[v] :
        /\ {visit[v].address, visit[w].address} \subseteq Located
        /\ visit[v].address # visit[w].address
        /\ visit[v].at - visit[w].at < TravelTime
        /\ \A x \in before[v] \ (before[w] \cup {w}) : visit[x].address \in Hidden
        => visit[v].answer = "deny"

=============================================================================
