--------------------------- MODULE KnowledgeBase ---------------------------
(***************************************************************************)
(* The FAQ table in Postgres and the vector collection kb_faqs built from   *)
(* it (features/knowledge_base). Every write of the table is followed by a  *)
(* full resync: dump the table, clear the collection, add one document per  *)
(* row. Nothing orders the resyncs of two requests.                         *)
(***************************************************************************)
EXTENDS Naturals

CONSTANTS
    Requests,  \* slots: admin requests that may be under way at once
    Keys,      \* normalized questions (question_key)
    Answers,   \* answers a row can have
    Ids,       \* values of faq_id
    Batches,   \* payloads of an ingest: functions from some keys to answers
    Backend,   \* VECTOR_STORE_BACKEND: "milvus" or "pgvector"
    None       \* no document, no edit

ASSUME KnowledgeAssumption ==
    /\ Batches \subseteq UNION {[S -> Answers] : S \in SUBSET Keys}
    /\ Backend \in {"milvus", "pgvector"}

Statuses == {"pending", "syncing", "synced", "failed"}
Docs == [key : Keys, answer : Answers]
Resyncing == {"dump", "clear", "next", "add", "added", "fail", "wipe"}

VARIABLES
    rows,     \* nbfc_faqs: records of id, key, answer and status
    ready,    \* _table_ready
    index,    \* the documents of kb_faqs
    pc,       \* pc[r]: where request r is suspended
    todo,     \* todo[r]: documents r still has to add, or to delete by
    item,     \* item[r]: the document r is adding
    edit,     \* edit[r]: the row r has read, as it will write it
    trouble   \* history: how bad it went since a resync began alone

vars == <<rows, ready, index, pc, todo, item, edit, trouble>>

DocOf(row) == [key |-> row.key, answer |-> row.answer]
DocsOf(S) == {DocOf(row) : row \in S}
KeysOf(S) == {x.key : x \in S}

(* Rows of an older schema have no status until the table is made ready.    *)
Init ==
    /\ rows \in {{}} \cup {{[id |-> i, key |-> k, answer |-> a, status |-> s]} :
           i \in Ids, k \in Keys, a \in Answers, s \in {"null", "pending"}}
    /\ ready = FALSE
    /\ index = {}
    /\ pc = [r \in Requests |-> "idle"]
    /\ todo = [r \in Requests |-> {}]
    /\ item = [r \in Requests |-> None] /\ edit = [r \in Requests |-> None]
    /\ trouble = 2

Moves(r, to) == pc' = [pc EXCEPT ![r] = to]
Others(r) == {s \in Requests \ {r} : pc[s] \in Resyncing}

(* 1: the vector store failed; 2: anything else, like a write while another *)
(* request resyncs.                                                         *)
Disturbs(r, level) ==
    trouble' = IF Others(r) # {} THEN 2 ELSE IF level > trouble THEN level ELSE trouble

(* A resync that begins alone makes good whatever went wrong before.        *)
BeginsResync(r) == trouble' = IF Others(r) = {} THEN 0 ELSE 2

EnsureTable ==
    /\ ~ready
    /\ ready' = TRUE
    /\ rows' = {IF row.status = "null" THEN [row EXCEPT !.status = "pending"] ELSE row : row \in rows}
    /\ UNCHANGED <<index, pc, todo, item, edit, trouble>>

Starts(r) == ready /\ pc[r] = "idle"

-----------------------------------------------------------------------------
(* Writes of the table. A faq_id is a uuid: it is never given out twice.    *)

IdsInUse == {row.id : row \in rows} \cup {edit[r].id : r \in {s \in Requests : edit[s] # None}}

(* INSERT ... ON CONFLICT (question_key) DO UPDATE keeps a row's faq_id.    *)
Upserted(new, id) ==
    LET old == {row \in rows : row.key \in DOMAIN new}
        Row(i, k) == [id |-> i, key |-> k, answer |-> new[k], status |-> "pending"]
    IN (rows \ old) \cup {Row(row.id, row.key) : row \in old}
                    \cup {Row(id[k], k) : k \in DOMAIN new \ KeysOf(old)}

Ingest(r) ==
    /\ Starts(r)
    /\ \E new \in Batches :
          \E id \in [DOMAIN new \ KeysOf(rows) -> Ids \ IdsInUse] :
             /\ \A k, l \in DOMAIN id : id[k] = id[l] => k = l
             /\ rows' = Upserted(new, id)
    /\ Moves(r, "dump")
    /\ Disturbs(r, 0)
    /\ UNCHANGED <<ready, index, todo, item, edit>>

(* The row is found by id or by question; what the request leaves out is    *)
(* taken from the row as it was read.                                       *)
EditRead(r) ==
    /\ Starts(r)
    /\ \E row \in rows, k \in Keys, a \in Answers :
          /\ edit' = [edit EXCEPT ![r] = [id |-> row.id, key |-> k, answer |-> a]]
    /\ Moves(r, "edit")
    /\ UNCHANGED <<rows, ready, index, todo, item, trouble>>

(* UPDATE ... WHERE faq_id: a row deleted meanwhile is not missed, and the   *)
(* resync follows; a question another row has violates the unique key of a  *)
(* row that is still there, and ends the request.                           *)
EditWrite(r) ==
    LET new == edit[r]
        taken == /\ \E row \in rows : row.id = new.id
                 /\ \E row \in rows : row.key = new.key /\ row.id # new.id IN
    /\ pc[r] = "edit"
    /\ rows' = IF taken THEN rows
               ELSE {IF row.id # new.id THEN row
                     ELSE [id |-> row.id, key |-> new.key, answer |-> new.answer,
                           status |-> "pending"] : row \in rows}
    /\ Moves(r, IF taken THEN "idle" ELSE "dump")
    /\ edit' = [edit EXCEPT ![r] = None]
    /\ IF taken THEN UNCHANGED trouble ELSE Disturbs(r, 0)
    /\ UNCHANGED <<ready, index, todo, item>>

(* Variant: a deletion is not followed by a resync.                         *)
DeleteOnly(r) ==
    /\ Starts(r)
    /\ \E k \in KeysOf(rows) : rows' = {row \in rows : row.key # k}
    /\ Disturbs(r, 0)
    /\ UNCHANGED <<pc, ready, index, todo, item, edit>>

Delete(r) ==
    /\ Starts(r)
    /\ \E k \in KeysOf(rows) : rows' = {row \in rows : row.key # k}
    /\ Moves(r, "dump")
    /\ Disturbs(r, 0)
    /\ UNCHANGED <<ready, index, todo, item, edit>>

ClearAll(r) ==
    /\ Starts(r)
    /\ rows' = {}
    /\ Moves(r, "wipe")
    /\ BeginsResync(r)
    /\ UNCHANGED <<ready, index, todo, item, edit>>

(* What a search finds whose query is close to the questions in near: Milvus *)
(* returns a similarity, the pgvector store a distance, and the caller takes *)
(* what it gets for a similarity.                                           *)
Matches(near) ==
    {doc \in index : IF Backend = "milvus" THEN doc.key \in near ELSE doc.key \notin near}

(* The local search falls back from words to substrings; either finds rows.  *)
SearchLocal == DocsOf(rows)

(* What a search may answer: the nearest documents, and rows of the table    *)
(* when there is no document or the vector store fails.                     *)
SemanticSearch == index \cup SearchLocal

SemanticDelete(r) ==
    /\ Starts(r)
    /\ \E near \in SUBSET Keys :
          /\ Matches(near) # {}
          /\ todo' = [todo EXCEPT ![r] = Matches(near)]
    /\ Moves(r, "purge")
    /\ UNCHANGED <<rows, ready, index, item, edit, trouble>>

Purge(r) ==
    /\ pc[r] = "purge"
    /\ \E doc \in todo[r] :
          /\ rows' = {row \in rows : row.key # doc.key}
          /\ todo' = [todo EXCEPT ![r] = @ \ {doc}]
    /\ Moves(r, IF todo'[r] = {} THEN "dump" ELSE "purge")
    /\ Disturbs(r, 0)
    /\ UNCHANGED <<ready, index, item, edit>>
-----------------------------------------------------------------------------
(* The resync. Its failures are logged and swallowed, item by item.         *)

Dump(r) ==
    /\ pc[r] = "dump"
    /\ todo' = [todo EXCEPT ![r] = DocsOf(rows)]
    /\ Moves(r, "clear")
    /\ BeginsResync(r)
    /\ UNCHANGED <<rows, ready, index, item, edit>>

(* The collection is emptied, or it is not: Milvus may fail, and the        *)
(* pgvector store has no translation for the expression it is given.        *)
Empties(r) ==
    \/ Backend = "milvus" /\ index' = {} /\ Disturbs(r, 0)
    \/ Backend = "milvus" /\ index' = index /\ Disturbs(r, 1)
    \/ Backend = "pgvector" /\ index' = index /\ Disturbs(r, 0)

Clear(r) ==
    /\ pc[r] = "clear"
    /\ Empties(r)
    /\ Moves(r, "next")
    /\ UNCHANGED <<rows, ready, todo, item, edit>>

Wipe(r) ==
    /\ pc[r] = "wipe"
    /\ Empties(r)
    /\ Moves(r, "idle")
    /\ UNCHANGED <<rows, ready, todo, item, edit>>

SetStatus(key, status) ==
    rows' = {IF row.key = key THEN [row EXCEPT !.status = status] ELSE row : row \in rows}

(* Nothing is left to add.                                                  *)
Finish(r) ==
    /\ pc[r] = "next"
    /\ todo[r] = {}
    /\ Moves(r, "idle")
    /\ UNCHANGED <<rows, ready, index, todo, item, edit, trouble>>

(* The status is written before the document, or the item is skipped with   *)
(* the status it has.                                                       *)
Mark(r) ==
    /\ pc[r] = "next"
    /\ \E doc \in todo[r] :
          /\ todo' = [todo EXCEPT ![r] = @ \ {doc}]
          /\ \/ /\ SetStatus(doc.key, "syncing")
                /\ item' = [item EXCEPT ![r] = doc]
                /\ Moves(r, "add")
                /\ Disturbs(r, 0)
             \/ /\ Disturbs(r, 2)
                /\ UNCHANGED <<rows, item, pc>>
    /\ UNCHANGED <<ready, index, edit>>

(* Milvus inserts; the pgvector store replaces the document of a key.       *)
WithDoc(doc) ==
    {d \in index : Backend = "milvus" \/ d.key # doc.key} \cup {doc}

(* A failed insert may have been applied.                                   *)
Add(r) ==
    /\ pc[r] = "add"
    /\ \/ /\ index' = WithDoc(item[r])
          /\ Moves(r, "added")
          /\ Disturbs(r, 0)
       \/ /\ index' \in {index, WithDoc(item[r])}
          /\ Moves(r, "fail")
          /\ Disturbs(r, 1)
    /\ UNCHANGED <<rows, ready, todo, item, edit>>

(* The status that says how it went, or the failure to write it.            *)
Reports(r, status, otherwise) ==
    /\ \/ /\ SetStatus(item[r].key, status)
          /\ Moves(r, "next")
          /\ item' = [item EXCEPT ![r] = None]
          /\ Disturbs(r, 0)
       \/ /\ Moves(r, otherwise)
          /\ item' = IF otherwise = "next" THEN [item EXCEPT ![r] = None] ELSE item
          /\ Disturbs(r, 2)
          /\ UNCHANGED rows
    /\ UNCHANGED <<ready, index, todo, edit>>

MarkSynced(r) == pc[r] = "added" /\ Reports(r, "synced", "fail")

(* Variant: a failed insert is marked synced as well.                       *)
MarkSyncedAnyway(r) == pc[r] = "fail" /\ Reports(r, "synced", "next")

MarkFailed(r) == pc[r] = "fail" /\ Reports(r, "failed", "next")

(* The client of a streamed ingest leaves, or the worker dies.              *)
Abandon(r) ==
    /\ pc[r] # "idle"
    /\ Moves(r, "idle")
    /\ item' = [item EXCEPT ![r] = None] /\ edit' = [edit EXCEPT ![r] = None]
    /\ todo' = [todo EXCEPT ![r] = {}]
    /\ trouble' = 2
    /\ UNCHANGED <<rows, ready, index>>

Write(r) ==
    \/ Ingest(r) \/ EditRead(r) \/ Delete(r) \/ ClearAll(r) \/ SemanticDelete(r)

Resync(r) ==
    \/ Dump(r) \/ Clear(r) \/ Finish(r) \/ Mark(r) \/ Add(r) \/ MarkSynced(r) \/ MarkFailed(r)

Next ==
    \/ EnsureTable
    \/ \E r \in Requests :
          \/ Write(r) \/ EditWrite(r) \/ Purge(r) \/ Wipe(r)
          \/ Resync(r) \/ Abandon(r)

Spec == Init /\ [][Next]_vars

-----------------------------------------------------------------------------
(* Properties *)

TypeOK ==
    /\ rows \subseteq [id : Ids, key : Keys, answer : Answers, status : Statuses \cup {"null"}]
    /\ index \subseteq Docs
    /\ pc \in [Requests -> Resyncing \cup {"idle", "edit", "purge"}]
    /\ todo \in [Requests -> SUBSET Docs]
    /\ item \in [Requests -> Docs \cup {None}]
    /\ trouble \in 0..2

AtRest == \A r \in Requests : pc[r] = "idle"

(* One write that resyncs alone and without a failure repairs all that went  *)
(* wrong before: every row is marked synced and the collection holds exactly *)
(* the rows as they are now.                                                *)
IndexIsTable ==
    AtRest /\ trouble = 0 =>
        /\ index = DocsOf(rows)
        /\ \A row \in rows : row.status = "synced"

(* The vector store may fail at any call: as long as resyncs do not overlap  *)
(* and the table answers, no row is shown as vectorized without its document.*)
SyncedIsIndexed ==
    AtRest /\ trouble <= 1 =>
        \A row \in rows : row.status = "synced" => DocOf(row) \in index

(* "Full resync: clear collection" (milvus_store.py): after the resync that  *)
(* followed its deletion no search answers with a deleted question, nor with *)
(* an answer that has been edited.                                          *)
DeletedIsGone ==
    AtRest /\ trouble = 0 => SemanticSearch \subseteq DocsOf(rows)

=============================================================================
