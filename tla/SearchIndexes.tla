---------------------------- MODULE SearchIndexes ----------------------------
(***************************************************************************)
(* What is derived from the tables of the service: the collection of FAQs,   *)
(* the documents of traces and results, and the live feed of ingested       *)
(* traces. They share no row, so the system is one of the three: which one   *)
(* is chosen at the start.                                                  *)
(***************************************************************************)
EXTENDS KnowledgeBase, TraceIndex, LiveFeed

VARIABLE derived  \* which one this is

searchVars == <<derived, vars, indexVars, feedVars>>

ASSUME StoreAssumption == OneEach <=> Backend = "pgvector"

SearchInit ==
    /\ derived \in {"faqs", "traces", "feed"}
    /\ Init /\ IndexInit /\ FeedInit
    /\ derived # "faqs" => rows = {}
    /\ derived # "traces" => followed = "trace"

FaqStep ==
    /\ derived = "faqs" /\ Next
    /\ UNCHANGED <<derived, indexVars, feedVars>>

TraceStep ==
    /\ derived = "traces" /\ IndexNext
    /\ UNCHANGED <<derived, vars, feedVars>>

FeedStep ==
    /\ derived = "feed" /\ FeedNext
    /\ UNCHANGED <<derived, vars, indexVars>>

SearchNext == FaqStep \/ TraceStep \/ FeedStep

SearchSpec == SearchInit /\ [][SearchNext]_searchVars

=============================================================================
