------------------------------ MODULE ExitList ------------------------------
(***************************************************************************)
(* The Tor exit list of one process (security/tor_block.py and             *)
(* tor_exit_nodes.py): a background task fetches the published list, with  *)
(* retries, and replaces the one in memory; the middleware looks every     *)
(* caller up, and remembers for a while that an address was not listed.    *)
(* The sleep between refreshes is left out: one may begin at any time.     *)
(***************************************************************************)
EXTENDS Naturals

CONSTANTS
    Addresses,      \* client addresses
    RetryAttempts,  \* TorExitNodes.retry_attempts
    NegativeTTL,    \* negative_cache_ttl_seconds, in ticks
    CleanupEvery,   \* negative_cache_cleanup_interval
    MaxTicks        \* bound: the clock stops there

ASSUME ExitAssumption == NegativeTTL \in Nat \ {0} /\ CleanupEvery \in Nat \ {0}

VARIABLES
    tick,       \* the clock
    published,  \* what the source publishes (external)
    exits,      \* _ips, the list in memory
    tries,      \* failed attempts of the refresh under way
    cleared,    \* _negative_cache: until when an address counts as not listed; 0: no entry
    checks,     \* _checks, modulo CleanupEvery
    served,     \* the last caller and what the middleware did
    absent      \* history: when the list in memory last lacked the address

exitVars == <<tick, published, exits, tries, cleared, checks, served, absent>>

NoCaller == [address |-> "nobody", mode |-> "critical", refused |-> FALSE]

ExitInit ==
    /\ tick = 1
    /\ published \in SUBSET Addresses
    /\ exits = {} /\ tries = 0
    /\ cleared = [a \in Addresses |-> 0]
    /\ checks = 0
    /\ served = NoCaller
    /\ absent = [a \in Addresses |-> 1]

TickOn ==
    /\ tick < MaxTicks
    /\ tick' = tick + 1
    /\ absent' = [a \in Addresses |-> IF a \in exits THEN absent[a] ELSE tick']
    /\ served' = NoCaller
    /\ UNCHANGED <<published, exits, tries, cleared, checks>>

(* External: relays come and go.                                            *)
Publish ==
    /\ published' \in SUBSET Addresses
    /\ UNCHANGED <<tick, exits, tries, cleared, checks, served, absent>>


(* aget gives up after its attempts; refresh_once keeps the old list.       *)
FetchFails ==
    /\ tries' = (tries + 1) % RetryAttempts
    /\ UNCHANGED <<tick, published, exits, cleared, checks, served, absent>>

RefreshOnce ==
    /\ exits' = published
    /\ tries' = 0
    /\ absent' = [a \in Addresses |-> IF a \in exits /\ a \in exits' THEN absent[a] ELSE tick]
    /\ UNCHANGED <<tick, published, cleared, checks, served>>

(* The entries that are still good once every CleanupEvery checks.          *)
Cleaned == IF checks' = 0 THEN [a \in Addresses |-> IF cleared[a] <= tick THEN 0 ELSE cleared[a]]
           ELSE cleared

(* Variant: a hit in the negative cache renews the entry.                   *)
LookUpRenewing(a) ==
    /\ checks' = (checks + 1) % CleanupEvery
    /\ IF Cleaned[a] <= tick /\ a \in exits
       THEN cleared' = Cleaned
       ELSE cleared' = [Cleaned EXCEPT ![a] = tick + NegativeTTL]

IsTor(a) == Cleaned[a] <= tick /\ a \in exits

(* is_tor_ip: what a lookup of the address leaves in the negative cache.     *)
LookUp(a) ==
    /\ checks' = (checks + 1) % CleanupEvery
    /\ cleared' = IF Cleaned[a] <= tick /\ a \notin exits
                  THEN [Cleaned EXCEPT ![a] = tick + NegativeTTL] ELSE Cleaned

(* BlockTorMiddleware.dispatch: a monitored path is only counted.           *)
Serve(a) ==
    /\ LookUp(a)
    /\ \E mode \in {"critical", "monitored"} :
          served' = [address |-> a, mode |-> mode, refused |-> mode = "critical" /\ IsTor(a)]
    /\ UNCHANGED <<tick, published, exits, tries, absent>>

ExitNext ==
    \/ TickOn \/ Publish \/ FetchFails \/ RefreshOnce
    \/ \E a \in Addresses : Serve(a)

-----------------------------------------------------------------------------
(* Properties *)

(* An address is refused on a critical path as soon as it has been in the    *)
(* list for the lifetime of a negative entry, whatever was looked up before. *)
ListedIsRefused ==
    served.mode = "critical" /\ served # NoCaller /\ served.address \in exits
      /\ tick >= absent[served.address] + NegativeTTL => served.refused

=============================================================================
