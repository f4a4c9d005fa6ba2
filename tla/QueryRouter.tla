---------------------------- MODULE QueryRouter ----------------------------
(***************************************************************************)
(* The classification of a prompt beside its turn (features/routing/         *)
(* nbfc_router.py and answerability.py), on one worker: the prototype banks  *)
(* that the first query builds under a lock, from Redis or by embedding       *)
(* them, and the bounded cache of tool vectors. Every query may be given up   *)
(* at any await: the stream waits a quarter of a second for it and cancels   *)
(* it. Similarities are choices.                                            *)
(***************************************************************************)
EXTENDS Naturals, Sequences

CONSTANTS
    Queries,    \* prompts under classification at once
    ToolLists,  \* lists of tools, by the names and texts that make their key
    CacheSize   \* vector_cache_size

Nobody == "nobody"

ASSUME RouterAssumption == Nobody \notin Queries /\ CacheSize \in Nat \ {0}

Banks == {"sentiment", "reason"}

VARIABLES
    stage,      \* stage[q]: where the classification is suspended
    asked,      \* asked[q]: its tools, and whether both backends are compared
    stored,     \* banks that Redis has (_ProtoCache)
    built,      \* banks the worker has built
    ready,      \* _ready
    buildLock,  \* who holds EmbeddingsRouter._lock
    cached,     \* _tool_vector_cache: lists in the order they were added
    cacheLock   \* who holds _cache_lock

routerVars == <<stage, asked, stored, built, ready, buildLock, cached, cacheLock>>
worker == <<stored, built, ready, buildLock>>
toolCache == <<cached, cacheLock>>

NotAsked == [tools |-> "none", both |-> FALSE]

RouterInit ==
    /\ stage = [q \in Queries |-> "new"]
    /\ asked = [q \in Queries |-> NotAsked]
    /\ stored \in SUBSET Banks
    /\ built = {} /\ ready = FALSE /\ buildLock = Nobody
    /\ cached = <<>> /\ cacheLock = Nobody

To(q, next) == stage' = [stage EXCEPT ![q] = next]

(* classify or compare; without a key there is only the answerability.       *)
Classify(q) ==
    /\ stage[q] = "new"
    /\ \E l \in ToolLists, b \in BOOLEAN : asked' = [asked EXCEPT ![q] = [tools |-> l, both |-> b]]
    /\ To(q, "readying") \/ To(q, "answerability")
    /\ UNCHANGED <<worker, toolCache>>

-----------------------------------------------------------------------------
(* ensure_ready and _build_bank *)

EnsureReady(q) ==
    /\ stage[q] = "readying"
    /\ To(q, IF ready THEN "embedding" ELSE "queueing")
    /\ UNCHANGED <<asked, worker, toolCache>>

(* The lock is free: has another query built the banks meanwhile?            *)
EnterBuild(q) ==
    /\ stage[q] = "queueing" /\ buildLock = Nobody
    /\ IF ready THEN To(q, "embedding") /\ UNCHANGED buildLock
       ELSE To(q, "sentiment") /\ buildLock' = q
    /\ UNCHANGED <<asked, stored, built, ready, toolCache>>

(* Loaded from Redis, or embedded and saved there.                          *)
Builds(q, bank) ==
    /\ stage[q] = bank
    /\ built' = built \cup {bank} /\ stored' = stored \cup {bank}
    /\ UNCHANGED <<asked, toolCache>>

BuildSentiment(q) ==
    /\ Builds(q, "sentiment")
    /\ To(q, "reason")
    /\ UNCHANGED <<ready, buildLock>>

BuildReason(q) ==
    /\ Builds(q, "reason")
    /\ ready' = TRUE
    /\ To(q, "embedding") /\ buildLock' = Nobody

Release(q, lock) == IF lock = q THEN Nobody ELSE lock

(* Redis or the embedding fails, of a bank or of the query: a classification *)
(* ends here, a comparison goes on. The next one begins with the first bank. *)
EmbeddingFails(q) ==
    /\ stage[q] \in Banks \cup {"embedding"}
    /\ To(q, IF asked[q].both THEN "model" ELSE "done")
    /\ buildLock' = Release(q, buildLock)
    /\ UNCHANGED <<asked, stored, built, ready, toolCache>>

-----------------------------------------------------------------------------
(* The query's vector and scores, and the model behind them: always asked   *)
(* for a comparison, otherwise by the mode, the words or the scores.        *)

Score(q) ==
    /\ stage[q] = "embedding"
    /\ To(q, "model") \/ (~asked[q].both /\ To(q, "answerability"))
    /\ UNCHANGED <<asked, worker, toolCache>>

(* LLMRouter.classify never raises: what fails is "unknown".                *)
AskModel(q) ==
    /\ stage[q] = "model"
    /\ To(q, "answerability")
    /\ UNCHANGED <<asked, worker, toolCache>>

-----------------------------------------------------------------------------
(* QueryAnswerabilityClassifier *)

Listed(l) == \E i \in DOMAIN cached : cached[i] = l

(* _get_tool_vectors: a look without the lock first.                         *)
LookUpVectors(q) ==
    /\ stage[q] = "answerability"
    /\ To(q, IF Listed(asked[q].tools) THEN "deciding" ELSE "waiting")
    /\ UNCHANGED <<asked, worker, toolCache>>

EnterCache(q) ==
    /\ stage[q] = "waiting" /\ cacheLock = Nobody
    /\ To(q, "vectors") /\ cacheLock' = q
    /\ UNCHANGED <<asked, worker, cached>>

(* The oldest list makes room.                                              *)
Stored(l) == IF Len(cached) < CacheSize THEN Append(cached, l) ELSE Tail(Append(cached, l))

(* Has another query embedded the list meanwhile?                           *)
EmbedTools(q) ==
    /\ stage[q] = "vectors"
    /\ cached' = IF Listed(asked[q].tools) THEN cached ELSE Stored(asked[q].tools)
    /\ To(q, "deciding") /\ cacheLock' = Nobody
    /\ UNCHANGED <<asked, worker>>

(* Embedding the query or the tools fails, or there are no tools: only the   *)
(* words are compared.                                                      *)
ComparesWords(q) ==
    /\ stage[q] \in {"answerability", "vectors"}
    /\ To(q, "deciding")
    /\ cacheLock' = Release(q, cacheLock)
    /\ UNCHANGED <<asked, worker, cached>>

(* The knowledge base is asked, and the scores are judged.                   *)
Decide(q) ==
    /\ stage[q] = "deciding"
    /\ To(q, "done")
    /\ UNCHANGED <<asked, worker, toolCache>>

-----------------------------------------------------------------------------

(* Variant: a cancelled query keeps the lock of the banks.                   *)
GiveUpKeepsLock(q) ==
    /\ stage[q] \notin {"new", "done"}
    /\ To(q, "done")
    /\ cacheLock' = Release(q, cacheLock)
    /\ UNCHANGED <<asked, worker, cached>>

(* Cancelled by the stream's timeout: both locks are released.               *)
GiveUp(q) ==
    /\ stage[q] \notin {"new", "done"}
    /\ To(q, "done")
    /\ buildLock' = Release(q, buildLock) /\ cacheLock' = Release(q, cacheLock)
    /\ UNCHANGED <<asked, stored, built, ready, cached>>

(* The slot serves another prompt.                                          *)
NextQuery(q) ==
    /\ stage[q] = "done"
    /\ To(q, "new")
    /\ asked' = [asked EXCEPT ![q] = NotAsked]
    /\ UNCHANGED <<worker, toolCache>>

RouterNext ==
    \E q \in Queries :
        \/ Classify(q)
        \/ EnsureReady(q) \/ EnterBuild(q) \/ BuildSentiment(q) \/ BuildReason(q) \/ EmbeddingFails(q)
        \/ Score(q) \/ AskModel(q)
        \/ LookUpVectors(q) \/ EnterCache(q) \/ EmbedTools(q) \/ ComparesWords(q) \/ Decide(q)
        \/ GiveUp(q) \/ NextQuery(q)

-----------------------------------------------------------------------------
(* Properties *)

(* However queries overlap, fail or are given up while the banks are built:  *)
(* a query is compared with both banks, only one of them builds, and no lock *)
(* is left behind by a query that is no longer at work under it.             *)
BanksAreWhole ==
    /\ \A q \in Queries :
          /\ stage[q] = "embedding" => built = Banks
          /\ stage[q] \in Banks <=> buildLock = q
          /\ stage[q] = "vectors" <=> cacheLock = q
    /\ ready => buildLock = Nobody

=============================================================================
