----------------------------- MODULE TraceIndex -----------------------------
(***************************************************************************)
(* The search index of a trace or of one of its results: api/eval_ingest.py *)
(* and the inline evaluation store the rows and leave the embedding to tasks *)
(* (eval_store/embedder.py), which compare the text with the row's doc_hash, *)
(* add a document and record the hash. Nothing orders the tasks of two       *)
(* bundles, and a task that fails is not repeated. The two rows share no      *)
(* state, so one of them is followed.                                       *)
(***************************************************************************)
EXTENDS Naturals, FiniteSets

CONSTANTS
    Bundles,  \* bundles of the trace under way at once, from ingest or the inline
              \* evaluation: one that is over makes room for another
    Texts,    \* what the document of a row can say
    OneEach   \* pgvector: a row has one embedding; Milvus adds documents

NoText == "none"

VARIABLES
    followed,   \* the row followed: "trace" or "result"
    at,         \* at[b]: what bundle b stores next
    text,       \* text[b]: the document of its row
    task,       \* task[b][d]: where the embedding of document d is suspended, or "none"
    row,        \* the document the stored row makes
    docHash,    \* doc_hash
    collection, \* the texts of the row's documents in the vector store
    troubled    \* history: bundles overlapped, or failed, since one began alone

indexVars == <<followed, at, text, task, row, docHash, collection, troubled>>

(* The inline evaluation embeds the trace twice: the commit schedules it, and *)
(* run_shadow_eval awaits another.                                          *)
Documents == {"first", "again"}

IndexInit ==
    /\ followed \in {"trace", "result"}
    /\ at = [b \in Bundles |-> "trace"]
    /\ text = [b \in Bundles |-> NoText]
    /\ task = [b \in Bundles |-> [d \in Documents |-> "none"]]
    /\ row = NoText /\ docHash = NoText /\ collection = {}
    /\ troubled = FALSE

(* From the moment it stores the trace until its last task is over.          *)
Busy(b) == at[b] # "trace" \/ \E d \in Documents : task[b][d] # "none"

-----------------------------------------------------------------------------
(* ingest, _commit_bundle *)

(* A bundle that has the row to itself makes good what went wrong before.    *)
StoreTrace(b) ==
    /\ ~Busy(b)
    /\ \E x \in Texts :
          /\ text' = [text EXCEPT ![b] = x]
          /\ row' = IF followed = "trace" THEN x ELSE row
    /\ at' = [at EXCEPT ![b] = "events"]
    /\ troubled' = \E c \in Bundles \ {b} : Busy(c)
    /\ UNCHANGED <<followed, task, docHash, collection>>

StoreEvents(b) ==
    /\ at[b] = "events"
    /\ at' = [at EXCEPT ![b] = "results"]
    /\ UNCHANGED <<followed, text, task, row, docHash, collection, troubled>>

(* The results are stored and the tasks scheduled; the request is answered.  *)
StoreResults(b) ==
    /\ at[b] = "results"
    /\ row' = IF followed = "result" THEN text[b] ELSE row
    /\ \E scheduled \in {{"first"}} \cup IF followed = "trace" THEN {Documents} ELSE {} :
          task' = [task EXCEPT ![b] = [d \in Documents |-> IF d \in scheduled THEN "look" ELSE "none"]]
    /\ at' = [at EXCEPT ![b] = "trace"]
    /\ UNCHANGED <<followed, text, docHash, collection, troubled>>

(* The database fails: 500, and nothing is scheduled for what was stored.    *)
StoreFails(b) ==
    /\ at[b] \in {"events", "results"}
    /\ at' = [at EXCEPT ![b] = "trace"]
    /\ troubled' = TRUE
    /\ UNCHANGED <<followed, text, task, row, docHash, collection>>

-----------------------------------------------------------------------------
(* embed_trace_if_needed, embed_eval_if_needed *)

Passes(b, d, next) == task' = [task EXCEPT ![b][d] = next]

(* Variant: any recorded hash will do.                                       *)
LookOnce(b, d) ==
    /\ task[b][d] = "look"
    /\ Passes(b, d, IF docHash # NoText THEN "none" ELSE "add")
    /\ UNCHANGED <<followed, at, text, row, docHash, collection, troubled>>

Look(b, d) ==
    /\ task[b][d] = "look"
    /\ Passes(b, d, IF docHash = text[b] THEN "none" ELSE "add")
    /\ UNCHANGED <<followed, at, text, row, docHash, collection, troubled>>

(* pgvector has one embedding in the row; Milvus adds a document.            *)
With(x) == IF OneEach THEN {x} ELSE collection \cup {x}

AddDocument(b, d) ==
    /\ task[b][d] = "add"
    /\ collection' = With(text[b])
    /\ Passes(b, d, "record")
    /\ UNCHANGED <<followed, at, text, row, docHash, troubled>>

Record(b, d) ==
    /\ task[b][d] = "record"
    /\ docHash' = text[b]
    /\ Passes(b, d, "none")
    /\ UNCHANGED <<followed, at, text, row, collection, troubled>>

(* The embedding service, the vector store or Postgres fails, or the worker  *)
(* dies: logged at most.                                                    *)
EmbedFails(b, d) ==
    /\ task[b][d] # "none"
    /\ Passes(b, d, "none")
    /\ troubled' = TRUE
    /\ UNCHANGED <<followed, at, text, row, docHash, collection>>

IndexNext ==
    \E b \in Bundles :
        \/ StoreTrace(b) \/ StoreEvents(b) \/ StoreResults(b) \/ StoreFails(b)
        \/ \E d \in Documents : Look(b, d) \/ AddDocument(b, d) \/ Record(b, d) \/ EmbedFails(b, d)

-----------------------------------------------------------------------------
(* Properties *)

(* However it went before: the last bundle that had the row to itself and did *)
(* not fail leaves the stored text in the index.                            *)
IndexFollowsRow ==
    ~troubled /\ row # NoText /\ (\A b \in Bundles : ~Busy(b))
        => docHash = row /\ row \in collection

=============================================================================
