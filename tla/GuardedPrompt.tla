---------------------------- MODULE GuardedPrompt ----------------------------
(***************************************************************************)
(* The check of every prompt before the agent sees it (security/            *)
(* inline_guard.py): a lexical score, a vector cache of earlier decisions    *)
(* (inline_guard_cache.py) and a classifier at Groq, whose API keys are      *)
(* handed out in turn (llm/groq_rotator.py). Decisions are written back in   *)
(* the background, and a share of the cache's hits is judged again.          *)
(***************************************************************************)
EXTENDS Naturals, FiniteSets

CONSTANTS
    Requests,  \* slots: prompts that may be under check at once
    Prompts,
    Risky,     \* those with a lexical risk of 0.75 or more
    Near,      \* Near[p]: prompts as like p as the threshold asks, p among them
    Unlike,    \* Unlike[p]: prompts whose cosine with p is 0.14 or less
    N,         \* how many API keys there are, two at least
    MaxClaims, \* bound: keys handed out
    Backend,   \* VECTOR_STORE_BACKEND: "milvus" or "pgvector"
    None

ASSUME GuardAssumption ==
    /\ Risky \subseteq Prompts
    /\ {Near, Unlike} \subseteq [Prompts -> SUBSET Prompts]
    /\ \A p \in Prompts : p \in Near[p] /\ Near[p] \cap Unlike[p] = {}
    /\ Backend \in {"milvus", "pgvector"}
    /\ N \in Nat \ {0, 1} /\ MaxClaims \in Nat

VARIABLES
    version,  \* model and embedder the running release is configured with
    cache,    \* documents of inline_guard_cache
    writes,   \* write-backs scheduled and not done
    counter,  \* agent:groq_rr_counter
    cooling,  \* keys marked after a 429
    pc,       \* pc[r]: where request r is suspended
    prompt,   \* prompt[r]: the prompt under check
    slot,     \* slot[r]: the counter's value when r took a key, from 0
    offset,   \* offset[r]: keys r has found cooling
    decision, \* decision[r]: the decision r came to
    verdicts  \* history: what the classifier has said of which prompt

rotation == <<counter, cooling, slot, offset>>
vars == <<version, cache, writes, rotation, pc, prompt, decision, verdicts>>

Keys == 0..(N - 1)
Releases == {1, 2}
Judged == [prompt : Prompts, verdict : {"allow", "block"}, version : Releases]

Init ==
    /\ version = 1
    /\ cache = {} /\ writes = {}
    /\ counter = 0 /\ cooling = {}
    /\ pc = [r \in Requests |-> "idle"]
    /\ prompt = [r \in Requests |-> None]
    /\ slot = [r \in Requests |-> 0] /\ offset = [r \in Requests |-> 0]
    /\ decision = [r \in Requests |-> None]
    /\ verdicts = {}

Goes(r, to) == pc' = [pc EXCEPT ![r] = to]
Decides(r, what) ==
    /\ decision' = [decision EXCEPT ![r] = what]
    /\ Goes(r, "decided")
    /\ slot' = [slot EXCEPT ![r] = 0] /\ offset' = [offset EXCEPT ![r] = 0]

Ask(r) ==
    /\ pc[r] = "idle"
    /\ \E p \in Prompts : prompt' = [prompt EXCEPT ![r] = p]
    /\ Goes(r, "lookup")
    /\ UNCHANGED <<version, cache, writes, rotation, decision, verdicts>>

Leave(r) ==
    /\ pc[r] = "decided"
    /\ prompt' = [prompt EXCEPT ![r] = None] /\ decision' = [decision EXCEPT ![r] = None]
    /\ Goes(r, "idle")
    /\ UNCHANGED <<version, cache, writes, rotation, verdicts>>

-----------------------------------------------------------------------------
(* The cache                                                                *)

(* The search returns one closest document, the prompt's own if there is one, *)
(* and the lookup takes it when 1 - score / 2 reaches the threshold of 0.93.  *)
(* The score of pgvector is a distance, so what is taken is near. The one of  *)
(* Milvus is the cosine itself, 1 for the prompt's own: it is taken when even *)
(* the closest document is unlike the prompt.                               *)
Closest(p) ==
    LET own == {d \in cache : d.prompt = p} IN
    CASE Backend = "milvus"   -> IF \A d \in cache : d.prompt \in Unlike[p] THEN cache ELSE {}
      [] Backend = "pgvector" -> IF own # {} THEN own ELSE {d \in cache : d.prompt \in Near[p]}

Usable(doc) == doc.version = version

Hit(r) ==
    /\ pc[r] = "lookup"
    /\ \E doc \in Closest(prompt[r]) :
          /\ Usable(doc)
          /\ Decides(r, doc.verdict)
    /\ UNCHANGED <<version, cache, writes, counter, cooling, prompt, verdicts>>

(* No document, a stale one, a failed search, or a hit that is judged again.  *)
Miss(r) ==
    /\ pc[r] = "lookup"
    /\ Goes(r, "key")
    /\ UNCHANGED <<version, cache, writes, rotation, prompt, decision, verdicts>>

(* A write-back whose store is Milvus adds a document; in Postgres it        *)
(* replaces the one of the same prompt and release. The text and the release *)
(* are those of the process that runs it.                                   *)
WriteBack ==
    /\ \E w \in writes :
          /\ writes' = writes \ {w}
          /\ \/ cache' = {d \in cache : Backend = "milvus" \/ d.prompt # w.prompt \/ d.version # w.version}
                           \cup {w}
             \/ UNCHANGED cache
    /\ UNCHANGED <<version, rotation, pc, prompt, decision, verdicts>>

(* INLINE_GUARD_CACHE_TTL_SECONDS have passed: the document stays, but it is  *)
(* not served any more.                                                     *)
Ages ==
    /\ \E doc \in cache : cache' = cache \ {doc}
    /\ UNCHANGED <<version, writes, rotation, pc, prompt, decision, verdicts>>

-----------------------------------------------------------------------------
(* The keys                                                                 *)

(* INCR, and from there on the first key that is not cooling.                *)
TakeSlot(r) ==
    /\ pc[r] = "key"
    /\ counter < MaxClaims
    /\ counter' = counter + 1
    /\ slot' = [slot EXCEPT ![r] = counter % N]
    /\ Goes(r, "probe")
    /\ UNCHANGED <<version, cache, writes, cooling, offset, prompt, decision, verdicts>>

KeyOf(r) == (slot[r] + offset[r]) % N

Probe(r) ==
    /\ pc[r] = "probe"
    /\ IF KeyOf(r) \in cooling /\ offset[r] < N
       THEN offset' = [offset EXCEPT ![r] = @ + 1] /\ UNCHANGED pc
       ELSE Goes(r, "classify") /\ UNCHANGED offset
    /\ UNCHANGED <<version, cache, writes, counter, cooling, slot, prompt, decision, verdicts>>

(* The RAGAS judge claims several slots at once, cooling or not.             *)
ClaimMany ==
    /\ \E n \in 1..3 :
          /\ counter + n <= MaxClaims
          /\ counter' = counter + n
    /\ UNCHANGED <<version, cache, writes, cooling, slot, offset, pc, prompt, decision, verdicts>>

(* The shadow judge marks a key after a 429, for GROQ_KEY_COOLING_TTL_S.     *)
MarkKeyCooling ==
    /\ \E k \in Keys \ cooling :
          /\ cooling' = cooling \cup {k}
    /\ UNCHANGED <<version, cache, writes, counter, slot, offset, pc, prompt, decision, verdicts>>

Warms ==
    /\ \E k \in cooling : cooling' = cooling \ {k}
    /\ UNCHANGED <<version, cache, writes, counter, slot, offset, pc, prompt, decision, verdicts>>

-----------------------------------------------------------------------------
(* The classifier                                                           *)

Classify(r) ==
    /\ pc[r] = "classify"
    /\ \E verdict \in {"allow", "block"} :
          LET said == [prompt |-> prompt[r], verdict |-> verdict, version |-> version] IN
          /\ verdicts' = verdicts \cup {said}
          /\ writes' = writes \cup {said}
          /\ Decides(r, verdict)
    /\ UNCHANGED <<version, cache, counter, cooling, prompt>>

(* Variant: what the guard decides without a verdict is remembered too.      *)
FailsCached(r) ==
    LET what == IF prompt[r] \in Risky THEN "block" ELSE "allow" IN
    /\ pc[r] \in {"key", "probe", "classify"}
    /\ Decides(r, what)
    /\ writes' = writes \cup {[prompt |-> prompt[r], verdict |-> what, version |-> version]}
    /\ UNCHANGED <<version, cache, counter, cooling, prompt, verdicts>>

(* No verdict: Redis or Groq fails, answers nonsense, or takes too long. The  *)
(* lexical score decides, and the cache is not told.                        *)
Fails(r) ==
    /\ pc[r] \in {"key", "probe", "classify"}
    /\ Decides(r, IF prompt[r] \in Risky THEN "block" ELSE "degraded")
    /\ UNCHANGED <<version, cache, writes, counter, cooling, prompt, verdicts>>

(* A release with another classifier or embedder: what runs is lost.         *)
Deploy ==
    /\ version = 1
    /\ version' = 2
    /\ writes' = {}
    /\ pc' = [r \in Requests |-> "idle"]
    /\ prompt' = [r \in Requests |-> None] /\ decision' = [r \in Requests |-> None]
    /\ slot' = [r \in Requests |-> 0] /\ offset' = [r \in Requests |-> 0]
    /\ UNCHANGED <<cache, counter, cooling, verdicts>>

Next ==
    \/ WriteBack \/ Ages \/ ClaimMany \/ MarkKeyCooling \/ Warms \/ Deploy
    \/ \E r \in Requests :
          \/ Ask(r) \/ Hit(r) \/ Miss(r) \/ TakeSlot(r) \/ Probe(r)
          \/ Classify(r) \/ Fails(r) \/ Leave(r)

Spec == Init /\ [][Next]_vars

-----------------------------------------------------------------------------
(* Properties *)

TypeOK ==
    /\ version \in Releases
    /\ cache \subseteq Judged /\ writes \subseteq Judged /\ verdicts \subseteq Judged
    /\ counter \in 0..MaxClaims /\ cooling \subseteq Keys
    /\ pc \in [Requests -> {"idle", "lookup", "key", "probe", "classify", "decided"}]
    /\ prompt \in [Requests -> Prompts \cup {None}]
    /\ slot \in [Requests -> Keys] /\ offset \in [Requests -> 0..N]
    /\ decision \in [Requests -> {"allow", "block", "degraded", None}]

(* "On a sufficiently similar hit ... return the cached decision"             *)
(* (inline_guard_cache.py:7): whatever is allowed or blocked for good was     *)
(* said of that prompt, or of one like it, by the classifier of the running  *)
(* release; only a harmless-looking prompt passes without one. With pgvector. *)
(* With Milvus, the default, the lookup serves what was said of unlike ones. *)
DecisionIsJudged ==
    \A r \in Requests : pc[r] = "decided" =>
        \/ \E v \in verdicts : /\ v.prompt \in Near[prompt[r]]
                               /\ v.version = version /\ v.verdict = decision[r]
        \/ decision[r] = "degraded" /\ prompt[r] \notin Risky
        \/ decision[r] = "block" /\ prompt[r] \in Risky

=============================================================================
