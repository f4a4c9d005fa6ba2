# TLA+ verification of the MFT agent

TLA+ models of the MFT agent (a FastAPI agent service, an MCP tool server, a
Redis / Postgres / Milvus back end and a React admin console), the TLC runs that
check them and the TLAPS proofs about them. In paths, `AS` stands for
`src/backend/src/agent_service` and `MS` for `src/backend/src/mcp_service`.

Contents: 1 the system's parts, 2 the plan, 3 how the models correspond to the
code, 4 what each run checks, 5 bounds, 6 fairness, 7 proofs, 8 what the code
does that its text does not say, 9 assumptions and what is left out.

To run: `tlc -config Refresh.cfg MCRefreshFamily` (each run's module and cfg are
in section 4), `tlapm SharedCountersProofs.tla`.

## 1. The system's parts

The agent service runs under gunicorn with two workers (`src/compose.yaml:125`).
Each worker is one event loop; module globals and singletons are per worker.
What the workers share is in Redis and Postgres, and there every `await` is a
point where another coroutine, of this worker or the other, may run. Nearly all
that is hard in this code follows from that.

A request passes the exit list and the session's risk engine (middleware), the
rate limiter, the inline guard and the resolution of the session's settings; the
agent's graph then alternates between a model and the tools of the MCP server,
while the prompt is classified beside it. When the turn ends its transcript is
stamped, its trace stored and evaluated, its cost added, and the trace handed to
the judge's queue. The admin console signs in through the session routes, reads
transcripts and evaluation statuses, and edits the knowledge base.

### Modelled

| component | state | operations | what is hard | what makes it correct |
|---|---|---|---|---|
| **Refresh-token families** `AS/security/admin_jwt.py` | a Redis hash per login: `current_token_id`, `revoked`, a TTL that starts at login | issue, rotate (WATCH, HGETALL, MULTI/EXEC; revoke on replay or WatchError), revoke | two refreshes with one token; a logout or the key's expiry between WATCH and EXEC; the unguarded HSET after a WatchError | a token is exchanged once; a token presented twice closes its family; the window never slides |
| **Admin session routes** `AS/api/endpoints/admin_auth_routes.py`, `AS/api/admin_auth.py` | three cookies; the access token with its MFA time | login, mfa/verify, refresh, logout, the guard of every mutation | tabs share a jar and answers arrive in any order; the refresh token is rotated before the user is looked up | no mutation without a recent code; a revoked admin's tokens end; a sign-out is final |
| **Admin users** `AS/api/admin_users/`, `src/backend/infra/sql/03_admin_users.sql` | table `admin_users` | seed at every boot, create, revoke | READ COMMITTED: a count is not a lock; two workers seed at once | a revoke is done once; an active super-admin remains |
| **TOTP lockout** `AS/security/admin_totp.py` | two Redis keys: a failure counter and a lock marker | verify: EXISTS, check, then clear both or strike and lock | attempts in flight while the lock is written; a valid code deleting the keys one by one; a crash between strike and lock | few wrong codes are answered as wrong; strikes lead to a lock |
| **Agent stream and its trace** `AS/api/endpoints/agent_stream.py`, `AS/features/eval/collector.py`, `AS/features/runtime_trace_store.py`, `AS/eval_store/pg_store.py` | a collector per turn; rows in `eval_traces`, `eval_events` | admit, stream, persist with retries, commit the inline evaluation, push to the judge | three coroutines upsert one row from snapshots; the client leaves at any await; each write fails committed or not | an admitted turn gets a row; its status is never changed; everything ends |
| **Evaluation status** `AS/eval_store/status.py`, `features/chat/hooks/useEvalStatus.ts` | none: derived from rows of three writers, a worker and two times | ask, until the answer is final | rows come one after the other, and the judge may never come | a told trace is found; "pending" ends; "unavailable" is not taken back |
| **Shadow queue and judge worker** `AS/eval_store/shadow_queue.py`, `AS/worker/shadow_judge_worker.py` | Redis lists `queue` and `dlq`; `shadow_judge_evals` | enqueue, trim, pop, judge, insert, mirror, requeue or dead-letter | RPOP is destructive; an insert whose acknowledgement is lost | nothing is lost on an ordinary path; one row a trace; retries end |
| **Session cost** `AS/core/session_cost.py` | an aggregate and a capped history, with different TTLs | add, reset, expiry | read-modify-write outside the transaction; a reset in between | the aggregate agrees with the history unless an add was stale |
| **Rate limiter** `AS/core/rate_limiter*.py` | two window counters, or one bucket, per identifier | ask, ask again for the error message, reset, expiry | each worker's own clock, read before Redis is asked and read twice | no interval yields more than the limit and its slide (or a burst and its refill) |
| **Knowledge base** `AS/features/knowledge_base/` | FAQ rows with `vector_status`; a collection of documents | ingest, edit, delete, clear, semantic delete | every write is followed by a full resync: dump, clear, one upsert a row; two resyncs interleave, and any of it fails | at rest the collection is the table, unless writes overlapped or failed; a row marked synced has its document |
| **Evaluation ingest and embedding** `AS/api/eval_ingest.py`, `AS/eval_store/embedder.py` | rows with a `doc_hash`; documents | store a bundle, embed what has changed | nothing orders the embeddings of two bundles; a failed one is not repeated | the last bundle that had the row to itself leaves its text in the index |
| **Live feed** `AS/api/eval_live.py`, `AS/api/eval_ingest.py` | a capped Redis stream; the browser's cursor | publish, connect, read, yield | a connection breaks within a batch; the stream is trimmed | in order, each once, no gap but the trimmed |
| **MCP tool server** `MS/` | a JSON blob per customer session in Redis, download links | OTP login, loan selection, downloads, logout | `update` is get, change, set of the whole blob | what a login stored stays; a loan is its owner's |
| **Agent graph, MCP manager** `AS/core/recursive_rag_graph.py`, `AS/tools/` | messages, iteration and tool cache of a turn; one MCP session and its tools a worker | model step, tool step, dedupe; call, reconnect, retry by policy | the iteration limit; a call that fails closes the session others use, and may have been executed | a side effect happens once a turn; every call is answered; a turn ends |
| **Session transcript and its view** `AS/api/endpoints/agent_stream.py`, `AS/api/admin_analytics/traces.py` | the checkpointer's messages | append, stamp, pair, collapse | two turns of one session write back what each has read; an answer is several messages | a turn is one bubble with its own outputs, trace and question |
| **Query routing** `AS/features/routing/` | prototype banks and tool vectors, per worker, each under a lock | classify, compare, answerability | a query is cancelled after 0.25 s, at any await | no query meets half-built banks or a lock left behind |
| **Inline guard and cache, key rotator** `AS/security/inline_guard*.py`, `AS/llm/groq_rotator.py` | a vector cache of decisions; a counter and cooling markers | look up, classify, fall back, write back; next key, mark | write-backs arrive late or after a release; similar prompts share an entry | a final decision was made by the running classifier for a similar prompt |
| **Session settings** `AS/api/endpoints/sessions.py`, `AS/core/resource_resolver.py` | a Redis hash per session | initialise, merge, log out; resolve model, provider, key | fields are merged and never taken back; an id outlives its sign-out | a turn pays with its session's key, or asks Groq |
| **Tor blocker** `AS/security/tor_*.py` | an exit list and a negative cache, per process | refresh with retries, look up, clean | an address is listed after it was cleared | a listed address is refused within an entry's lifetime |
| **Session security** `AS/security/session_security.py` | recent addresses, fingerprint and place of a session | assess: seven Redis commands | two first visits at once; visits from unknown places | one device a session unless two visits that found none ran at once; a jump is denied |

### Not modelled

Trace reading, feedback and inline metrics (single statements, or numbers from
models); live dashboards and the event bus (a lost message is a late tile);
vector stores, model catalog, application start, the clients' presentation and
deployment files. `PROJECT.json` lists each with its sources and reason.

## 2. The plan

Order: first what holds data that cannot be reconstructed and is written by
several processes, then what composes it. All of this is done:

1. `TokenFamily` (what a family promises), `RefreshFamily` (implements it),
   `AdminUsers`, `TotpLockout`: the admin's authentication state.
2. `AgentStream`, `EvalStatus` on top of it, and `ShadowQueue`: the path of a
   turn's trace from the collector to the judge's row and to the widget.
3. `SessionCost`, `SlidingWindow`, `TokenBucket`: shared counters.
4. `AdminSession` over `TokenFamily`: the routes, the cookies, the tokens.
5. `KnowledgeBase`, `TraceIndex`, `LiveFeed`: what is derived from tables.
6. `ToolTurn` (graph, manager and transcript), `TranscriptView`, `QueryRouter`.
7. `McpSession`: the tool server.
8. `GuardedPrompt`, `ExitList`, `SessionRisk`, `SessionSettings`: the checks of
   a request.
9. Proofs about modules of each group (section 7).

Every safety property the passing runs check is proved for all values of the
constants; liveness stays with TLC. No module has the loss of a Redis key under
memory pressure, nor the components listed above as not modelled.

Every module is written to be proved about: parameters are CONSTANTS with named
assumptions, an operation is an action, an invariant is a conjunction of named
parts, and no module declares a RECURSIVE operator.

Components that share no state and never meet are checked in one run by a
module that chooses one of them at the start: `SharedCounters` (bucket, window,
lockout, cost), `TurnTrace` (stream, judge's queue), `SearchIndexes` (FAQs, trace
index, feed), `ChatTurn` (turns, view, router), `RequestChecks` (guard, exit list,
risk, settings). Each part
runs its own `Next` with the others' variables unchanged.

## 3. How the models correspond to the code

One action is one step others can observe: a Redis command or transaction, an
SQL statement, or the code between two awaits. A coroutine's position is a
label in `pc` (`doing`, `point` or a field `stage` in some modules), named for
what it is about to do. `PROJECT.json` maps each
definition to its lines. History variables are marked "history" where they are
declared; no guard reads them. Actions under a comment that begins with
"Variant" are mutated forms that no specification uses: each property must be
violated when one replaces the action beside it.

**RefreshFamily.** `key`, `current`, `revoked` and `expireAt` are the Redis hash
of a family and its TTL; `key[f] = "tombstone"` is the hash an HSET of `revoked`
alone leaves behind. `IssueWrite`, `IssueExpire` are the two commands of
`issue_refresh_token`; `Watch`, `ReadFamily`, `ExecRevoke`, `ExecSwap`,
`ExecAborts`, `RevokeOnConflict` are the awaits of `rotate_refresh_token`;
`Logout` is `revoke_refresh_token`. `dirty[r]` is Redis's mark on a client whose
watched key was written or expired. A refresh presents any token of the family
ever handed to a client (`held`), so replays are the normal case. The JWT itself
(signature, type, expiry) is not modelled: its expiry is the key's. `exchanged`
is the history of exchanges.

**TokenFamily.** The abstract specification: `Open`, `Exchange`, `Close`, each
one step. `RefreshFamily!TF` maps a family that is live in the store to an open
one. A login whose EXPIRE has not run is already open, with a token nobody has.

**AdminUsers.** One action is one statement at READ COMMITTED. `lock[a]` is the
row lock of SELECT ... FOR UPDATE; `RevokeAllowed` and `RevokeRefused` are the
count; `RevokeCommit` is UPDATE and COMMIT (others see the change at COMMIT
only). `sessions` are the super-admins with an MFA-fresh token: it outlives
the row's revocation, as the code's tokens do. `OperatorInsert` is the enrolment
runbook's INSERT, the only way to a second super-admin.

**TotpLockout.** One admin. `Begin` chooses whether the code is right; `Watch`,
`Recheck`, `Strike` / `StrikeAborts`, `Lock` are a wrong one, `ClearCounter`,
`ClearLock` a right one. `told` counts "invalid code" answers in the life of the
counter, `excused` says that in that life a valid code lifted a lock or the
coroutine about to lock died.

**AgentStream.** One turn. `pc` has three coroutines: the stream, the commit of
the inline evaluation and the push task, which the stream's `finally` starts.
The `collector` is what they share in memory; `snap[t]` the dict coroutine `t`
took from it and is writing. `category` is a flag on a snapshot: whether it has the
question category. `events` keeps the events whose loss the code cares about
(tool, error, done); tokens and reasoning are left out. A failed write
(`WriteLost`) may have been committed. `Abandon` is the cancellation of the
stream at any of its awaits or yields.

**EvalStatus.** The rows of `AgentStream` seen through `derive_status`: `Status`
is computed, never stored. `results` says whether the result rows are there,
`verdict` whether the judge wrote its row (one action, `Judge`: `ShadowQueue`
says when it does), `age` and `timedOut` are the two times the function
compares. Its specification runs the stream's own `Next`.

**TurnTrace.** The two sides of the judge's queue in one run, `EvalStatus` on the
near side and `ShadowQueue` on the far one. No step is one of both.

**ShadowQueue.** `queue` and `dlq` are the Redis lists, `enq[t]` the coroutine
that pushes trace `t`, `doing[w]` where worker `w` is in `process_once` and
`batch[w]` what it popped and holds in memory, `evals[t]` the number of rows of trace `t`.
`InsertRaises` covers the insert that failed and the one whose acknowledgement
was lost (`ambiguous`). `DropBatch` is a worker's death, or a Redis error in the
two places the code does not recover from.

**SessionCost.** `totals` is the set of adds the aggregate sums up, so a lost
add is a missing member. `Write` is the MULTI/EXEC; `dirty[a]` says that the
aggregate changed after `a` read it. `since` lists the adds since the keys were
last deleted.

**SlidingWindow, TokenBucket.** One identifier. `Stamp` reads the worker's clock
(for the window twice, as the code does), `Take` and `Refuse` are the Lua script,
`RedisFails` the failure mode. A refused request returns to `Stamp` once: the
code asks again for the numbers in its error message, and that question may be
granted. The window script's weighted count is multiplied by `Window`, the
bucket's tokens are counted in ticks of refill, so both are exact in integers;
Lua's rounding is not modelled. The runs use the default failure
mode, `fail_closed`; with `fail_open` a request that Redis did not answer is
admitted and counted nowhere, so the two properties speak of what the script grants.

**AdminSession.** One admin and one browser. `jar` are the cookies, `pc[r]`
where a request is suspended or which answer is on its way; `access[r]` and
`refresh[r]` the tokens it carries. The families are `TokenFamily`'s, since
`RefreshFamily` implements it; but a refresh is two steps here too, WATCH with
HGETALL (`ReadFamily`) and EXEC (`Rotate`, `RotateReplayed`), because every
write between them is answered `refresh_replay`, a sign-out's and the key's expiry
among them. `Deliver` and `Lost` are the network, `hurt` the history of exchanges
the browser may not know of, and of families that ended under an exchange. A
family's expiry is `ExpireFamily`, at any time.

**KnowledgeBase.** `rows` is the table, `index` the collection, and a request is
its transaction followed by the steps of the resync. `trouble`, history, grades
what went wrong since a resync began alone: nothing, the vector store, or the
table and overlaps. An edit whose row was deleted meanwhile matches no row and
resyncs all the same (`EditWrite`).

**TraceIndex.** One row is followed, the trace's or a result's. `at[b]` is where
bundle `b` is between its statements, `task[b][d]` where each of its embedding
tasks is. A bundle that ends makes its slot free. `troubled` is history: it is
reset by a bundle that begins with nobody else at work.

**LiveFeed.** Entries are numbers. `Read` fixes the id after which Redis reads
("$" is the newest entry), `Answer` what is there by then.

**ToolTurn.** Turns of one session on one worker. A model step and a tool step
are the graph's nodes; a call goes to the MCP session the turn's tools are bound
to, fails before or after the server ran it, and is retried by the tool's
policy after a reconnect under `call_lock`. A close that raises (`CloseFails`)
leaves the tools of the closed session loaded, and the next turn binds them. The
checkpoint is written after each node and stamped at the end. A client that leaves
either cancels its turn or is noticed by the stream's own question
(`BreaksOff`), which stops listening to the graph and goes on to the stamping;
that the graph stops there too is an abstraction: asyncio ends its generator a
little later.

**TranscriptView.** The same writers at the grain of one message, and
`session_traces` over what they leave (`SessionView`). The code walks the
messages and flushes a run of assistant items at each question; the module says
which positions make a run (`RunOf`: the assistant's, with no question between
them) and what it is flushed to, which is the same bubbles without the walk.
A message's number in the checkpoint is the bubble's id. `LeaveOff` and `BreakOff`
are the two ways of a client that leaves.

**QueryRouter.** One worker's banks and cache. `GiveUp` is the stream's
`wait_for`; any await may be its last.

**McpSession.** `session` is the blob: a phone number, the customer whose token
it holds and the selected loan; `point[c]` is where tool call `c` is and `read[c]`
the blob it has read. Every tool begins with `touch`, a get and a set; `update`
is another. `link` are the one-time download links.

**GuardedPrompt.** A decision is a document (prompt, verdict, version of model
and embedder). The lookup takes the closest document when 1 - score / 2 reaches
the threshold: with pgvector, whose score is a distance, that is one as like the
prompt as the threshold asks (`Near`), with Milvus, whose score is the cosine
itself, one with a cosine of 0.14 or less (`Unlike`), which the closest has only
when all have (`Closest`). `Deploy` is a new
release: processes lose their write-backs, the store stays. `Ages` is the TTL of
an entry. The rotation of keys is `TakeSlot` (INCR) and `Probe` (EXISTS).

**ExitList.** `cleared[a]` is until when the negative cache says "not listed";
`absent[a]`, history, is when the list last lacked the address.

**SessionRisk.** One session. `visit[v]` is what an assessment knows; each
Redis command is a step but for the trim, ZADD and ZCARD of the sorted set, which
are taken as one. `first` says that the visit found no fingerprint and may have
set its own. A command that raises was executed or was not (`AssessFails`).
Distances are equal and `TravelTime` is what they take.

**SessionSettings.** A key is the epoch it was sent in; a sign-out begins the
next epoch. `Resolve` is `resolve_agent_resources`; `NextKey` the await of the
key rotator.

## 4. What each run checks

| run | module, cfg | expected | what it shows |
|---|---|---|---|
| `refresh_safety` | `MCRefreshFamily`, `Refresh.cfg` | pass | One login and three presentations of its tokens racing with logout, expiry and crashes. `SingleUse`: a token is exchanged once. `ReuseClosesFamily`: once two requests with one token are answered, nothing is accepted any more. `ImplementsTokenFamily`: refinement. `ReuseEventuallyCloses`: a second presentation ends with the family closed. |
| `admins_safety` | `MCAdminUsers`, `Admins.cfg` | pass | Two booting workers, three rows, three requests. `RevokedOnce`: what the row lock achieves. `SuperRemainsUnlessOverlapped`: what the count achieves. |
| `admins_last_super` | `MCAdminUsers`, `AdminsLastSuper.cfg` | violation of `SuperRemains` | Two super-admins who revoke each other both pass the count. |
| `session_safety` | `MCAdminSession`, `Session.cfg` | pass | Two requests of one browser, two logins. `MutationIsProved`: a mutation within the freshness of a checked code. `RevocationBites`: no token outlives a revocation by more than its life. `NoFalseReplay`: the browser's own tokens are called replayed only after an overlap, a lost answer or a failed lookup, or when a sign-out or the key's expiry met an exchange. `SignOutIsFinal`: neither cookie nor family is left. |
| `counters_safety` | `MCSharedCounters`, `Counters.cfg` | pass | `BurstBounded` and `NoDoubleBurst`: what the limiter grants in an interval. `InvalidAnswersBounded`, `StrikesLock`: the lockout. `ExactUnlessStale`: the aggregate of costs. |
| `turn_trace` | `MCTurnTrace`, `Trace.cfg` | pass | One turn with every failure, its judge and its widget; or two traces and two workers at the judge's queue. `Recorded`: no row only if every attempt failed. `StatusSettled`: no writer changes the status. `ToldTraceIsFound`: "not_found" is final and not told too early. `UnavailableHolds`: "unavailable" is not taken back, but in the listed cases. `PendingEnds`, `TurnSettles`: the waiting and the tasks end. `NothingDropped`, `OneRowPerTrace`: the hand-over between list, worker and row. `TracesSettle`: a trace does not circulate for ever. |
| `knowledge_safety` | `MCSearchIndexes`, `Knowledge.cfg` | pass | With Milvus. `IndexIsTable`: one write that resyncs alone and without a failure repairs the whole collection. `SyncedIsIndexed`: the status of a row is true. `IndexFollowsRow`: the index of a trace follows its row. `FeedHasNoGaps`: the live feed over broken connections. |
| `knowledge_pgvector` | `MCKnowledgeBase`, `KnowledgePg.cfg` | violation of `DeletedIsGone` | With pgvector the resync does not clear: a deleted FAQ is still found. |
| `mcp_safety` | `MCMcpSession`, `Mcp.cfg` | pass | Two calls of a session, two customers. `LoginIsKept`: what a login stored is there until the next, if no calls overlapped. `LoanIsOwners`: the selected and the downloaded loan is the customer's. |
| `turn_safety` | `MCChatTurn`, `Turn.cfg` | pass | Two turns of a session. `SideEffectsRunOnce`: through lost answers, retries and a model that repeats itself. `TranscriptIsClosed`: no unanswered call but at the limit or after an overlap. `OneBubblePerTurn`: the view. `BanksAreWhole`: the router. `TurnEnds`: reconnects end. |
| `checks_safety` | `MCRequestChecks`, `Checks.cfg` | pass | With pgvector. `DecisionIsJudged`: the guard's cache. `ListedIsRefused`: the exit list. `OneDevice`: two devices pass only if visits of both ran at once and each found no fingerprint; `TravelDenied`: a jump is denied. `SessionPays`: the settings. |
| `checks_milvus` | `MCRequestChecks`, `ChecksMilvus.cfg` | violation of `DecisionIsJudged` | With Milvus, the default, the lookup reads the cosine as a distance: a prompt is answered with what was decided of an unlike one. |

The exact exceptions of each property are in its module, in its comment and
formula. Each property of a passing run has a mutant of a mapped definition that
violates it. The type invariants are conjuncts of the inductive invariants that
are proved.

## 5. Bounds

| bound | why it is enough |
|---|---|
| Refresh: 1 family, 3 tokens, 3 requests, TTL 2, clock to 3 | the families share nothing but the supply of token ids; two exchanges and a replay need three of each; the clock passes the expiry of a family opened at time 0 or 1 |
| Admins: 3 rows, 2 emails, 2 boots, 3 requests | two super-admins who revoke each other, a third row as a second target; two workers |
| Session: 2 requests (slots that are reused), 2 families, 3 tokens, access TTL 2, freshness 1, clock to 2 | two tabs; a login, its refresh and a second login; a code goes stale before its access token does |
| Lockout: 4 attempts, limit 2, counter TTL 1, lock TTL 2, clock to 3 | two strikes that lock, one attempt in flight around them and one valid code; the clock outlives counter and lock |
| Cost: 3 adds, history 2, 1 reset | a stale add, and one after it; a trim |
| Window: 2 slots (reused), window 2, limit 3, clock to 4 | three windows, so that a window is current, previous and expired |
| Bucket: 3 requests, cost 2, burst 4, idle 4, clock to 4 | an empty bucket, a partial and a full refill, an expiry |
| Stream: 2 attempts, 2 events, `FaultCap` = attempts + 2 | one retry that fails and one that does not, of both persisters; two events cut off a failing turn's last one |
| Shadow: 2 traces, 2 workers, batch 2, queue and DLQ of 1, 1 retry | a batch that two workers' items can interleave with; trims that hit; a retry, then the dead letter |
| Knowledge: 2 questions, 2 answers, 3 row ids, 2 requests (reused) | a rename onto an existing question, a re-ingest that changes an answer, two overlapping resyncs |
| Trace index: 2 bundles (reused), 2 texts, two embeddings a bundle | a text that changes and changes back; two embeddings of one bundle and of two |
| Feed: 5 entries, 2 kept, 2 a read | a batch broken in its middle, a trim past the cursor, a reconnection after each |
| MCP session: 2 calls (reused), 2 customers with 1 and 2 loans, 1 link | the automatic choice of a single loan and the selection of one of two; a customer over another |
| Turn: 2 turns, a side-effect tool and a plain one, 2 iterations, 1 call an iteration; view: 1 hop with up to 2 calls | a repetition in the second iteration; the limit; two turns over one MCP session |
| Router: 2 queries (reused), 2 tool lists, cache of 1 | one builds while the other waits; an eviction |
| Guard: 2 requests (reused), 2 close prompts, one of them risky, and an unlike one, 2 keys, 2 claims, 2 releases | an entry of the close prompt, of the unlike one and of the other release; a key that is cooling while the next is taken |
| Exit list: 2 addresses, TTL 2, clean every 2 checks, clock to 4 | an address cleared, listed, and looked up again before and after |
| Risk: 3 visits, 2 at once, 2 places and an unknown one, 2 devices | two first visits at once and one after them; a jump with an unknown place between |
| Settings: 1 turn (reused), 2 epochs | turns of a session share nothing but the hash; one sign-out |

The clocks' bounds only stop the tick; every other action stays enabled. Runs
with `CHECK_DEADLOCK FALSE` are those in which requests or claims are a finite
set, or a part rests when its clock stands. `knowledge_safety`
and `mcp_safety` are checked for deadlock. Symmetry is used in
runs without liveness properties.

## 6. Fairness

* `RefreshFamily!FairSpec`: weak fairness on each request's own steps: Redis
  answers each command and the event loop resumes the coroutine. None on a
  client's sending, on logout, on the clock, or on cancellation.
* `ShadowQueue!FairQueueSpec`: weak fairness on each worker's steps. `run_forever`
  polls in a loop and each call it awaits has a timeout. None on the pushers,
  and none that makes a model answer: `PrimaryFails` may be taken each time.
* `AgentStream!Fairness`: weak fairness on admission, on the stream, on the two
  tasks and on both persisters. Each is a coroutine of a running event loop;
  that the graph ends rests on its iteration limit and its clients' timeouts.
  None on `ToolEvent` or `Abandon`. `EvalStatus!StatusSpec` adds that the grace
  and the queue's timeout pass, as time does; none on `Judge`.
* `TurnTrace!TraceSpec`: that of `StatusSpec` and `FairQueueSpec`, each where its
  side is chosen.
* `ChatTurn!ChatSpec`: weak fairness on each turn's steps: the model, the tool
  server and Redis answer or time out. None that makes a call succeed, and none
  on the client's leaving.

## 7. Proofs

TLAPS proves the theorems below for every value of the constants, from each
module's named assumptions (evaluated by TLC in the run that extends the module).
Each follows one pattern: an invariant that is inductive, lemmas for the
actions, a theorem that it holds always, and the properties from it.

The assumptions say what the constants are: times, limits and times-to-live are
natural numbers, some of them at least one; the values for "none" are not among
the others; places with and without a location are apart (`RiskAssumption`). Two
say more: `LockoutAssumption` lets the counter live shorter than the lock, as the
code's two constants do, and `KnowledgeAssumption` names the two back ends that
the factory of vector stores knows.

* **RefreshFamilyProofs.** `SingleUse` is not inductive: it needs to know that
  an old token cannot become current again. `RotationInv` adds that tokens in the
  store are minted (`LoginInv`), that an undisturbed WATCH still sees the
  family as it was read (`WatchInv`), that a request answered "replay" or
  "invalid" left no live family and one answered "ok" left another token
  current, and that an exchanged token is no longer current (`ExchangeInv`).
  `ReuseClosesFamily` and `FixedWindow` follow. `RotationImplementsTokenFamily`
  shows that each step is an `Open`, an `Exchange`, a `Close` or a stutter.
* **AdminUsersProofs.** `RevokeInv` adds to the properties that a transaction
  past its count still has another active super-admin while no overlapping
  revoke has committed (`CountStillHolds`), and that it holds its row's lock.
* **AgentStreamProofs** extends `EvalStatus` and `ShadowQueue`, which share no
  variable. `StreamInv`: each snapshot being written, and the row, has the
  collector's status, and nothing is written before the status is final;
  `StatusSettled` is an action property proved from it. `RecordInv`, for
  `Recorded`, says at each point of the tasks how many failures it took to be
  there without a row (`FailuresCount`), and that events and details are written
  behind a row (`RowFirst`). `StatusImplementsSpec`: every step of the stream with
  its judge and its two times is a step of the stream or a stutter, so these
  results hold there too. `LifecycleInv`, for `UnavailableHolds`: what is written
  tells the collector's lifecycle until a part of it fails (`LifecycleIsTold`),
  only an answer that was not blocked is handed to the judge (`HandedOver`), and
  the grace has not passed while results are being written (`ResultsAwaited`).
  `QueueInv`: a trace has at most one copy in the two lists and the batches
  (`OneCopy`); from its push on it is in one of them, has a row, or is in the
  history of what was trimmed or lost (`Accounted`); with a row it is only in a
  batch being mirrored, unless its insert was in doubt (`RowsAreFinal`). What a
  push, a pop, a trim and a requeue do to a list are lemmas on sequences.
  `TracesRunDown` is the safety half of `TracesSettle`. A trace has a rank: its
  retries, and in a round of the queue and a worker the steps it has to go
  (`WorkLeft`; in the queue also the older traces before it). `RunsDown` says
  that no step gives a pushed trace more retries than `MaxRetries` or, in one
  round, more steps to go, and that each step of the worker that holds it gives
  it fewer. Beside `QueueInv` it needs `BatchesFit`: a batch is within its size
  and an idle worker has none.
* **SharedCountersProofs**, about `SharedSpec`. `LockoutInv`: an undisturbed
  WATCH sees no marker, no strike dates the counter beyond `now + CounterTTL`,
  and each "invalid code" answer is a strike (`told <= failures`). `StrikesLock` is
  inductive beside it. `WindowInv`, for `NoDoubleBurst`: the grants of an interval
  no longer than a window are counted in the window it began in and the next,
  neither of which expires before it ends, and the last grant in the next one
  weighed both (`GrantsCounted`); the bound then follows by arithmetic
  (`Neighbours`, `TwoWindows`). `CostInv`: an
  add that is not dirty has read the present aggregate; `PushAndTrim` is the
  lemma on LPUSH and LTRIM. `BucketInv` relates tokens held, tokens spent and
  the refill since `start`, whether `start` is before or after the last refill.
* **RequestChecksProofs**, about `ChecksSpec`. `GuardInv`: documents and
  write-backs are verdicts, so with pgvector a hit is one of a like prompt, and a
  verdict is never taken back. `DecisionsAreJudged` assumes `Backend = "pgvector"`:
  with Milvus the run `checks_milvus` refutes it.
  `ExitInv`: an entry of the negative cache ends within a lifetime of when the
  list last lacked the address (`EntriesEnd`). `SettingsInv`: every key in the
  hash is of the present epoch, and a turn waiting for the server's key asks Groq.
  `RiskInv`: while there is no fingerprint whoever found none is still to set its
  own, so two visits that found none overlap (`FirstOnes`); a fingerprint is that
  of a visit that found none, and so is every device found to be the session's
  (`OwnerStands`); and
  after visits in order the place that is remembered is where the last located
  one was (`LastIsSeen`), so that the next is measured against it.
* **SearchIndexesProofs**, about `SearchSpec`. `FaqInv`: while at worst the vector
  store failed, one resync at most is under way and still has to add every row
  that may stand as synced without its document (`Catching`); while nothing
  failed, every row that is not in the collection (`CatchingAll`).
  `ResyncRepairs` and `DeletedAreGone` speak of Milvus: with pgvector the run
  `knowledge_pgvector` refutes the second. `IndexInv`: what was recorded is
  in the collection (this needs Milvus, which forgets no document: the theorem
  assumes `~OneEach`); an untroubled bundle has the row to itself, and the task
  every bundle schedules ends with the hash of its text. `FeedInv`: while a
  connection stands its cursor is the last entry received, and what was answered
  goes on from there.
* **AdminSessionProofs.** `SessionInv` has a part for each property. `ProofInv`:
  no access token, in the jar, sent or on its way, has an MFA stamp later than
  the last right code. `LifeInv`: no token ends later than a lifetime from now,
  or from the revocation. `HolderInv`: in an open family that nothing happened
  to, at most one request carries the family's token and what it carries, or
  else the jar, is the head; so a token that was not the head when it was read is
  in a family that was hurt, and one that was, and whose family has ended since, in
  one that was hurt by its end (`Excused`). `GoneInv`: after a sign-out alone every
  request is idle, and without the CSRF cookie only a login can be sent.
  `TokenFamily`'s `Open`, `Exchange` and `Close` are the only steps of the families.
* **ChatTurnProofs**, about `ChatSpec`. `OnceInv`: what ran is in the cache of a
  turn that goes on, and what is tried again has no side effect. `ClosedInv`:
  without overlap one turn at most runs, carrying the latest checkpoint, and only
  its tool points leave calls unanswered. `LoopInv`: while a call is invoked there
  is one and a round left for it, and `call_lock` is held by the turn that
  reconnects and by no other, and is free again when a close raises.
  `TurnsWindDown`, the safety half of `TurnEnds`,
  follows from it with the rank `Left`: the rounds of the loop, the calls of the
  round and the points of a call that are left, so that a reconnect and its one
  retry cannot be repeated. `RouterInv`: the first bank is built when the second
  is begun, and both are when the router is ready. `ViewInv`, for
  `OneBubblePerTurn`: of a turn that ran beside no other the checkpointer has one
  block, its question first and none after it in the block, with a question behind
  it (`OneBlock`); its hops grow and each output is in the hop that asked for it
  (`HopsFollow`); its stamp can only be on its last assistant message, which then
  has text if any has (`StampIsLast`). This holds of the saved messages and of
  what every turn under way carries, since it may be written back. It is inductive
  with `Together` (two turns under way are beside each other, so what is written
  or stamped after another's message is not the lone turn's), `Unheard` (nothing
  is of a turn that has not begun) and `Progress` (how far a lone turn is). That
  the block is one run, shown as one bubble, is then a fact about positions
  (`RunIsTurn`, `OutputsOnce`, `AnswerIsShown`). The module also extends
  `McpSession`, for `McpSpec`, and shares no variable with it. `McpInv`: while no
  calls overlapped, one at most is under way and what it read is what is stored
  (`Alone`), and the loan it is about to make active is the customer's
  (`SelectionIsOwners`).

Only model-checked: the liveness properties (`ReuseEventuallyCloses`,
`TurnSettles`, `PendingEnds`, `TracesSettle`, `TurnEnds`) and with them fairness, since
liveness and ENABLED are out of the prover's reach. Of the last two the rank that
falls is proved for every value of the constants; that the steps which lower it
are taken (`WF_` of them, and no step blocked for ever) is left to TLC.

## 8. What the code does that its text does not say

Three disagreements have a run that shows them (`PROJECT.json`, findings): two
super-admins can revoke each other (`AS/api/admin_users/repo.py:212`); with
pgvector a deleted FAQ is still found; and with Milvus, the default, the guard's
cache answers a prompt with the decision on an unlike one, and not with its own
(`AS/security/inline_guard_cache.py:132` computes 1 - score / 2 of a score that is
the cosine, `src/backend/src/common/milvus_mgr.py:103-108`). Others were met while modelling. The
models contain the behaviour where they model the place; no run is spent on it,
so they are written down here.

Authentication and limits

* `AS/security/admin_jwt.py:413`: a logout after the family expired re-creates
  the key as `{revoked: 1}` without a TTL; the docstring (line 9) gives every
  family a TTL. A login that dies between HSET and EXPIRE leaves a whole hash
  without one. Neither accepts a token anyone has.
* `AS/security/admin_jwt.py:384-385`: a refresh that collides with a logout, or
  with the key's expiry, is reported as a replay though no token was reused
  (`RotateReplayed`; `NoFalseReplay` names the case).
* `AS/security/admin_totp.py:87-88`: the counter can pass the limit, as attempts
  in flight are counted until the marker is there;
  `src/backend/tests/test_admin_totp.py:174` expects at most `_MAX_FAILURES`.
* `AS/core/rate_limiter.py:114,197,271`: the two readings of the clock can fall
  on two sides of a window's boundary, and the limit can be granted twice within a
  second (`NoDoubleBurst` excludes it by `mixed`).
* `AS/core/rate_limiter.py:174,181`: a stamp older than the bucket's sets
  `last_refill` back, and the same time is refilled twice (`BurstBounded`
  excludes it by `skewed`); the comment at line 117 promises a bounded burst.
* `AS/core/rate_limiter_manager.py:162`: "about five per minute" for admin
  logins is a window of 722 seconds with a limit of 59, which one burst may use.
* Session risk: a visit without a location moves the time and keeps the place,
  and a first visit without one stands at (0, 0): the next located visit can be
  "impossible travel". `.agent/rules/08-security.md:20` gives that a weight of
  0.6; the code always denies. A denied visit still moves the session's place.
* Exit list: "Stale lists expire after 7200 seconds" (`08-security.md:42`): the
  age is audited and the list goes on being used.

A turn and its trace

* `AS/api/endpoints/agent_stream.py:874`: the rate limiter's 429 is caught and
  answered as a 500; the docstring (line 431) promises 429.
* `AS/features/eval/collector.py:259-280`: the evaluation's commit writes the
  row without the question category the stream's persist wrote.
* `agent_stream.py:533`: a push is reported as failed though Redis may have
  executed it: the trace is "unavailable" and judged later. An inline evaluation
  longer than the grace of 15 s, with no judge, is told the same way; an
  abandoned stream at once. The branch for `shadow` = "complete" is dead: no
  writer sets it.
* `agent_stream.py:722`: the log says the router is "still running" after 0.25 s;
  `wait_for` has cancelled it, so that a slow first build of the banks is begun
  and cancelled again and again.
* `agent_stream.py:808`: the stamp rewrites the last message of the session: of
  two overlapping turns, perhaps the other's. Adjacent answers of overlapping
  turns are shown as one bubble, and the ids `sid~n` of the fallback list resolve
  to nothing.
* At the iteration limit, or when a client leaves, tool calls stay unanswered in
  the transcript. A stream that notices it (`agent_stream.py:616-623`) still stamps
  the session's last message (808).
* After a reconnect the tools of running turns stay bound to the closed session
  (`AS/tools/mcp_manager.py`); the docstring of `rebuild_tools_for_user` speaks
  of the current one. A close that raises does the same to turns that begin later
  (`mcp_manager.py:74`). An `initialize` that fails or is cancelled leaves no tools
  until the process restarts.
* `AS/core/session_cost.py:113`: `add_cost` ("Atomically add", line 74) loses one
  of two overlapping adds from the aggregate; a reset (line 275) is undone by an
  add that has read the aggregate before it.
* Session settings: a falsy field is ignored, so that only the NVIDIA key can be
  cleared; `POST /agent/config` answers provider "auto-detected" when none was
  sent (`AS/api/endpoints/sessions.py:194`), while a session from
  `/sessions/init` has a saved one and nothing is detected.
* Tool server: a logout that races a touch is followed by the touch's write of
  the old blob, token included (`MS/server.py:158`); a login with another phone
  number keeps the former customer's `app_id` (`MS/auth_api.py:172`).

Knowledge, search and evaluation

* `AS/security/inline_guard_cache.py:168`: "we delete any stale entry for the
  same hash first": the code only adds, and under Milvus a prompt may have two
  decisions. `_kb_vector_lookup` (`AS/features/routing/answerability.py:222`)
  searches with an empty query.
* `AS/eval_store/persistence.py:56`: "a duplicate call from the inline eval path
  is a no-op": the two embeddings overlap and both may add a Milvus document. Its
  metadata stay stale while the text does not change. Under pgvector overlapping
  embeddings can leave the hash of one text with the vector of another. A trace
  that is sent again with fewer events is embedded with that bundle's tools only.
* `AS/api/eval_live.py`: "$" is used for every read until the first entry, not
  only the first (`AS/api/eval_ingest.py:88` promises no gaps): entries published
  between two reads are not seen. `FeedHasNoGaps` begins with the first entry
  received.
* `live_dashboards` subscribes to a channel `eval:live` to which nobody
  publishes; `eval_search` multiplies the pass count by the events.
* `AS/api/admin_analytics/traces.py:559` and `conversations.py:39` pass the
  cursor's time as text where asyncpg expects a datetime: the second page fails.

## 9. Assumptions, and what is left out

* Redis executes a command, a transaction or a script atomically, and a watched
  key that expires aborts the EXEC (Redis 6.0.9 and later).
* Postgres runs at READ COMMITTED; `executemany` is atomic; a statement whose
  connection is lost or whose coroutine is cancelled was applied or was not.
* A pool missing from the process behaves as a missing schema in `AgentStream`;
  a judge worker without a pool is not modelled.
* A task without a reference to it runs to its end, though CPython may collect
  it.
* Scores, similarities and what a language model answers are choices; a vector
  search returns any document its comment allows.
* `verify_refresh_token`, `reset_lockout` and `revoke` without the count have no
  caller and are left out. So are JWT signatures, password hashing, TOTP
  arithmetic, SSE formatting, the text of messages, metrics and events for
  dashboards.
* One admin, one session, one identifier at a time where the code keys its state
  by them and never relates two keys.
