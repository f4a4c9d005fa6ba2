---------------------------- MODULE SessionCost ----------------------------
(***************************************************************************)
(* The cost tracking of one session (core/session_cost.py): an aggregate    *)
(* in one Redis key and a history list in another, written together by      *)
(* add_cost in one MULTI/EXEC, but from an aggregate that was read before    *)
(* the transaction and is not watched. Turns of one session may end at the  *)
(* same time, an operator may reset the session, and both keys expire.      *)
(***************************************************************************)
EXTENDS Integers, Sequences, Functions

CONSTANTS
    Adds,          \* calls of add_cost for this session, one per finished turn
    HistoryMax,    \* HISTORY_MAX_ENTRIES
    MaxResets      \* bound: DELETE requests for this session

ASSUME CostAssumption ==
    HistoryMax \in Nat \ {0} /\ MaxResets \in Nat

VARIABLES
    totals,        \* the aggregate: the adds it sums up; {} when it is absent
    history,       \* the history list, newest first
    adding,        \* adding[a]: where add a is suspended
    seen,          \* seen[a]: the aggregate a has read
    dirty,         \* dirty[a]: the aggregate was written or deleted since a read it
    resets,        \* resets so far
    since,         \* history: the adds since the keys were last deleted, newest first
    stale          \* history: since then, a dirty add was written

keys == <<totals, history>>
costVars == <<keys, adding, seen, dirty, resets, since, stale>>

CostInit ==
    /\ totals = {} /\ history = <<>>
    /\ adding = [a \in Adds |-> "idle"]
    /\ seen = [a \in Adds |-> {}]
    /\ dirty = [a \in Adds |-> FALSE]
    /\ resets = 0
    /\ since = <<>> /\ stale = FALSE

FirstOf(s, n) == SubSeq(s, 1, IF Len(s) < n THEN Len(s) ELSE n)
AllDirty == [a \in Adds |-> TRUE]

-----------------------------------------------------------------------------
(* add_cost *)

ReadTotals(a) ==
    /\ adding[a] = "idle"
    /\ seen' = [seen EXCEPT ![a] = totals]
    /\ dirty' = [dirty EXCEPT ![a] = FALSE]
    /\ adding' = [adding EXCEPT ![a] = "read"]
    /\ UNCHANGED <<keys, resets, since, stale>>

(* SET, LPUSH, LTRIM and EXPIRE in one transaction; the reply may be lost.  *)
Written(a, sum, list) ==
    /\ adding[a] = "read"
    /\ totals' = sum
    /\ history' = list
    /\ since' = <<a>> \o since
    /\ stale' = (stale \/ dirty[a])
    /\ dirty' = AllDirty
    /\ \E to \in {"added", "failed"} : adding' = [adding EXCEPT ![a] = to]
    /\ UNCHANGED <<seen, resets>>

Write(a) == Written(a, seen[a] \cup {a}, FirstOf(<<a>> \o history, HistoryMax))

(* Redis fails before the transaction ran, or the turn is cancelled.        *)
AddFails(a) ==
    /\ adding[a] \in {"idle", "read"}
    /\ adding' = [adding EXCEPT ![a] = "failed"]
    /\ UNCHANGED <<keys, seen, dirty, resets, since, stale>>

-----------------------------------------------------------------------------

Emptied ==
    /\ history' = <<>>
    /\ dirty' = AllDirty
    /\ since' = <<>> /\ stale' = FALSE
    /\ UNCHANGED <<adding, seen>>

(* Variant: only the history is deleted.                                    *)
ResetHistory == resets < MaxResets /\ resets' = resets + 1 /\ Emptied /\ UNCHANGED totals

ResetCost ==
    /\ resets < MaxResets
    /\ resets' = resets + 1
    /\ totals' = {}
    /\ Emptied

(* Both times-to-live start at the same EXEC and the history's is shorter.  *)
HistoryExpires ==
    /\ history # <<>>
    /\ history' = <<>>
    /\ UNCHANGED <<totals, adding, seen, dirty, resets, since, stale>>

TotalsExpire ==
    /\ totals # {} /\ history = <<>>
    /\ totals' = {}
    /\ Emptied
    /\ UNCHANGED resets

CostNext ==
    \/ \E a \in Adds : ReadTotals(a) \/ Write(a) \/ AddFails(a)
    \/ ResetCost \/ HistoryExpires \/ TotalsExpire

-----------------------------------------------------------------------------
(* Properties *)

CostTypeOK ==
    /\ totals \in SUBSET Adds
    /\ history \in Seq(Adds) /\ Len(history) <= HistoryMax
    /\ since \in Seq(Adds)
    /\ adding \in [Adds -> {"idle", "read", "added", "failed"}]
    /\ seen \in [Adds -> SUBSET Adds]
    /\ dirty \in [Adds -> BOOLEAN]
    /\ resets \in 0..MaxResets /\ stale \in BOOLEAN

(* The history is the audit trail: the latest adds since the keys were       *)
(* deleted, newest first and none missing.                                  *)
HistoryIsRecent ==
    /\ Len(history) <= Len(since)
    /\ \A i \in 1..Len(history) : history[i] = since[i]

(* The two keys never contradict each other on the latest turn: the newest   *)
(* entry of the history is in the aggregate, whoever raced it.              *)
NewestIsCounted == history # <<>> => history[1] \in totals

(* Without an overlap the aggregate is exact: it sums up the adds since it   *)
(* was deleted, and nothing else.                                           *)
ExactUnlessStale == ~stale => totals = Range(since)

(* The inductive strengthening: a clean add has seen the present aggregate. *)
CostInv ==
    /\ CostTypeOK
    /\ \A a \in Adds : adding[a] = "read" /\ ~dirty[a] => seen[a] = totals
    /\ HistoryIsRecent /\ NewestIsCounted /\ ExactUnlessStale

=============================================================================
