------------------------------ MODULE LiveFeed ------------------------------
(***************************************************************************)
(* The live feed of ingested traces: publishers append to the Redis stream  *)
(* eval:live and trim it (api/eval_ingest.py), one browser follows it over   *)
(* connections that break (api/eval_live.py). Entries are numbered.         *)
(***************************************************************************)
EXTENDS Naturals, Sequences

CONSTANTS
    MaxEntries,  \* bound: entries published
    MaxKept,     \* EVAL_LIVE_STREAM_MAXLEN
    ReadCount,   \* COUNT of one XREAD
    OnlyNew      \* the cursor "$"

ASSUME FeedAssumption ==
    /\ MaxEntries \in Nat /\ MaxKept \in Nat \ {0} /\ ReadCount \in Nat \ {0}
    /\ OnlyNew \notin Nat

VARIABLES
    newest,   \* the last entry, 0 before the first
    oldest,   \* the first entry not trimmed
    stage,    \* of the connection: "closed", "polling", "blocked", "yielding"
    cursor,   \* last_id
    after,    \* the entry after which a blocked XREAD reads
    answered, \* entries it answered that were not yielded yet
    received, \* what the browser has got, in order
    trimmed   \* history: entries that were gone when they were to be read

feedVars == <<newest, oldest, stage, cursor, after, answered, received, trimmed>>

FeedInit ==
    /\ newest = 0 /\ oldest = 1
    /\ stage = "closed" /\ cursor = OnlyNew /\ after = 0
    /\ answered = <<>> /\ received = <<>> /\ trimmed = {}

(* XADD with MAXLEN ~: at least MaxKept entries stay.                        *)
PublishLive ==
    /\ newest < MaxEntries
    /\ newest' = newest + 1
    /\ oldest' \in {o \in oldest..newest + 1 : o = oldest \/ newest + 1 - o + 1 >= MaxKept}
    /\ UNCHANGED <<stage, cursor, after, answered, received, trimmed>>

(* Variant: the browser's Last-Event-ID is not looked at.                    *)
ConnectAnew ==
    /\ stage = "closed"
    /\ stage' = "polling"
    /\ cursor' \in {0, OnlyNew}
    /\ UNCHANGED <<newest, oldest, after, answered, received, trimmed>>

(* A browser that reconnects sends the id of the last event it received; the *)
(* first time, or without one, the query says only new or all of it.        *)
Connect ==
    /\ stage = "closed"
    /\ stage' = "polling"
    /\ IF received # <<>> THEN cursor' = received[Len(received)] ELSE cursor' \in {0, OnlyNew}
    /\ UNCHANGED <<newest, oldest, after, answered, received, trimmed>>

Read ==
    /\ stage = "polling"
    /\ stage' = "blocked"
    /\ after' = IF cursor = OnlyNew THEN newest ELSE cursor
    /\ UNCHANGED <<newest, oldest, cursor, answered, received, trimmed>>

(* XREAD answers what there is behind the cursor, or times out.              *)
Answer ==
    LET from == IF after + 1 < oldest THEN oldest ELSE after + 1
        n == IF newest - from + 1 < ReadCount THEN newest - from + 1 ELSE ReadCount IN
    /\ stage = "blocked"
    /\ IF from > newest
       THEN stage' = "polling" /\ UNCHANGED <<answered, trimmed>>
       ELSE /\ stage' = "yielding"
            /\ answered' = [i \in 1..n |-> from + i - 1]
            /\ trimmed' = trimmed \cup after + 1..from - 1
    /\ after' = 0
    /\ UNCHANGED <<newest, oldest, cursor, received>>

Yield ==
    /\ stage = "yielding"
    /\ cursor' = Head(answered)
    /\ received' = Append(received, Head(answered))
    /\ answered' = Tail(answered)
    /\ stage' = IF answered' = <<>> THEN "polling" ELSE "yielding"
    /\ UNCHANGED <<newest, oldest, after, trimmed>>

(* The browser or Redis goes away: what was not yielded is not received.     *)
Break ==
    /\ stage # "closed"
    /\ stage' = "closed"
    /\ answered' = <<>> /\ after' = 0 /\ cursor' = OnlyNew
    /\ UNCHANGED <<newest, oldest, received, trimmed>>

FeedNext == PublishLive \/ Connect \/ Read \/ Answer \/ Yield \/ Break

-----------------------------------------------------------------------------
(* "Resume from last ID to avoid gaps": over any number of connections the    *)
(* browser gets the entries in order, each once, and from its first one on    *)
(* all of them that were still in the stream.                               *)
FeedHasNoGaps ==
    \A i \in 1..Len(received) - 1 :
        /\ received[i] < received[i + 1]
        /\ received[i] + 1..received[i + 1] - 1 \subseteq trimmed

=============================================================================
