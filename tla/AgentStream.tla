---------------------------- MODULE AgentStream ----------------------------
(***************************************************************************)
(* One POST /agent/stream request: from its admission through the graph's  *)
(* events to the rows that describe it. Three coroutines of one event loop *)
(* write the same eval_traces row, each from a snapshot of the shared      *)
(* collector: the stream itself, the inline evaluation it leaves behind    *)
(* (maybe_shadow_eval_commit) and the task that hands the trace to the     *)
(* judge's queue and reports its own failure. The client may go away at    *)
(* every await; Postgres and Redis may fail at every write.                *)
(***************************************************************************)
EXTENDS Integers, Sequences

CONSTANTS
    MaxAttempts,   \* persist_runtime_trace's max_attempts
    MaxEvents,     \* MAX_EVENTS the collector keeps
    JudgeEnabled,  \* SHADOW_JUDGE_ENABLED
    EvalEnabled,   \* SHADOW_EVAL_ENABLED, with a positive sample rate
    NoRow

ASSUME ConstantsAssumption ==
    /\ MaxAttempts \in Nat \ {0} /\ MaxEvents \in Nat \ {0}
    /\ JudgeEnabled \in BOOLEAN /\ EvalEnabled \in BOOLEAN

Tasks == {"stream", "commit", "enqueue"}
FaultCap == MaxAttempts + 2  \* bound: further failures are not counted

Events == {"tool", "error", "done"}
Statuses == {"success", "error"}
ShadowStates == {"none", "queued", "failed", "disabled"}
InlineStates == {"none", "complete", "skipped", "failed", "disabled"}
Collectors == [status : Statuses, shadow : ShadowStates, inline : InlineStates]
States == [status : Statuses, shadow : ShadowStates, inline : InlineStates,
           category : BOOLEAN, events : 0..MaxEvents]

ASSUME NoRowAssumption == NoRow \notin States

VARIABLES
    pc,        \* pc[t]: where coroutine t is suspended
    answer,    \* the HTTP status the client got; 0 while there is none
    limited,   \* the rate limiter refused the request
    blocked,   \* the inline guard blocked the prompt
    collector, \* ShadowEvalCollector: status and lifecycle of the trace
    events,    \* the collector's events, tokens and reasoning left out
    snap,      \* snap[t]: the trace dict t is writing, with its events
    attempts,  \* attempts[t]: failed attempts of t's persist_runtime_trace
    row,       \* the row in eval_traces
    stored,    \* how many of the events are rows of eval_events
    pushes,    \* times the trace was pushed to the judge's queue
    sent,      \* which of the final SSE events were sent
    schema,    \* the eval tables exist
    faults,    \* history: failed writes and evaluations, up to FaultCap
    abandoned, \* history: the stream was cancelled
    overlap    \* history: two tasks held a snapshot at the same time

request == <<answer, limited, blocked>>
stores == <<row, stored, pushes>>
vars == <<pc, request, collector, events, snap, attempts, stores, sent, schema,
          faults, abandoned, overlap>>

Init ==
    /\ pc = [stream |-> "new", commit |-> "none", enqueue |-> "none"]
    /\ answer = 0 /\ limited = FALSE /\ blocked = FALSE
    /\ collector = [status |-> "success", shadow |-> "none", inline |-> "none"]
    /\ events = <<>>
    /\ snap = [t \in Tasks |-> NoRow]
    /\ attempts = [t \in Tasks |-> 0]
    /\ row = NoRow /\ stored = 0 /\ pushes = 0
    /\ sent = {}
    /\ schema \in BOOLEAN
    /\ faults = 0
    /\ abandoned = FALSE /\ overlap = FALSE

Moves(t, to) == pc' = [pc EXCEPT ![t] = to]
Faulted == faults' = IF faults < FaultCap THEN faults + 1 ELSE faults

Added(es, e) == IF Len(es) >= MaxEvents THEN es ELSE Append(es, e)

-----------------------------------------------------------------------------
(* Snapshots of the collector *)

(* build_trace_dict knows no question category: persist_runtime_trace adds it. *)
Dict(c, category, n) ==
    [status |-> c.status, shadow |-> c.shadow, inline |-> c.inline,
     category |-> category, events |-> n]

Writing(t) == pc[t] \in {"upserting", "eventing", "committing", "detailing", "reporting"}

Takes(t, dict) ==
    /\ snap' = [snap EXCEPT ![t] = dict]
    /\ overlap' = (overlap \/ \E u \in Tasks \ {t} : Writing(u))

(* Every snapshot's events are a prefix of the collector's, keyed by their   *)
(* sequence number: what is stored only grows.                              *)
StoredUpTo(n) == IF n > stored THEN n ELSE stored

PersistStarts(t) ==
    /\ Takes(t, Dict(collector', TRUE, Len(events')))
    /\ attempts' = [attempts EXCEPT ![t] = 0]
    /\ Moves(t, "upserting")

-----------------------------------------------------------------------------
(* Before the stream: every exception but a ValueError becomes a 500 *)

Answers(code) ==
    /\ answer' = code
    /\ Moves("stream", "refused")
    /\ UNCHANGED <<collector, events, snap, attempts, stores, sent, schema, faults,
                   abandoned, overlap>>

RateLimited ==
    /\ pc["stream"] = "new"
    /\ limited' = TRUE
    /\ Answers(500)
    /\ UNCHANGED blocked

SetupFails ==
    /\ pc["stream"] = "new"
    /\ \E code \in {400, 500} : Answers(code)
    /\ UNCHANGED <<limited, blocked>>

Admit ==
    /\ pc["stream"] = "new"
    /\ answer' = 200
    /\ blocked' \in BOOLEAN
    /\ Moves("stream", IF blocked' THEN "blocked" ELSE "graph")
    /\ UNCHANGED <<limited, collector, events, snap, attempts, stores, sent, schema,
                   faults, abandoned, overlap>>

-----------------------------------------------------------------------------
(* The stream *)

Done(status, shadow, es) ==
    /\ collector' = [collector EXCEPT !.status = status, !.shadow = shadow]
    /\ events' = Added(es, "done")

JudgeBranch == IF JudgeEnabled THEN "queued" ELSE "disabled"

BlockedAnswer ==
    /\ pc["stream"] = "blocked"
    /\ collector' = [status |-> "error", shadow |-> "disabled", inline |-> "disabled"]
    /\ events' = Added(Added(events, "error"), "done")
    /\ PersistStarts("stream")
    /\ UNCHANGED <<request, stores, sent, schema, faults, abandoned>>

ToolEvent ==
    /\ pc["stream"] = "graph"
    /\ Len(events) < MaxEvents
    /\ events' = Added(events, "tool")
    /\ UNCHANGED <<pc, request, collector, snap, attempts, stores, sent, schema, faults,
                   abandoned, overlap>>

(* The graph has no more events, or the client was found disconnected.      *)
GraphEnds ==
    /\ pc["stream"] = "graph"
    /\ Done("success", JudgeBranch, events)
    /\ Moves("stream", "saving")
    /\ UNCHANGED <<request, snap, attempts, stores, sent, schema, faults, abandoned, overlap>>

(* The cost is added and the transcript stamped: neither can raise.         *)
TurnSaved ==
    /\ pc["stream"] = "saving"
    /\ UNCHANGED <<collector, events>>
    /\ PersistStarts("stream")
    /\ UNCHANGED <<request, stores, sent, schema, faults, abandoned>>

(* Variant: the trace of a failed graph is persisted before on_done.        *)
GraphFailsEarly ==
    /\ pc["stream"] = "graph"
    /\ Done("error", JudgeBranch, Added(events, "error"))
    /\ Takes("stream", Dict(collector, TRUE, Len(events)))
    /\ attempts' = [attempts EXCEPT !["stream"] = 0]
    /\ Moves("stream", "upserting")
    /\ UNCHANGED <<request, stores, sent, schema, faults, abandoned>>

GraphFails ==
    /\ pc["stream"] = "graph"
    /\ Done("error", JudgeBranch, Added(events, "error"))
    /\ PersistStarts("stream")
    /\ UNCHANGED <<request, stores, sent, schema, faults, abandoned>>

(* The finally clause: both tasks are created, and neither is awaited.      *)
LeavesTasks ==
    pc' = IF blocked THEN [pc EXCEPT !["stream"] = "ended"]
          ELSE [stream |-> "ended", commit |-> "deciding",
                enqueue |-> IF JudgeEnabled THEN "pushing" ELSE "ended"]

SendFinalEvents ==
    /\ pc["stream"] = "closing"
    /\ sent' = {"trace", "done"} \cup (IF collector.status = "error" THEN {"error"} ELSE {})
    /\ LeavesTasks
    /\ UNCHANGED <<request, collector, events, snap, attempts, stores, schema, faults,
                   abandoned, overlap>>

(* Cancelled at an await or a yield: only the finally clause still runs. A   *)
(* write in flight may have reached the database.                           *)
Abandon ==
    /\ pc["stream"] \in {"blocked", "graph", "saving", "upserting", "eventing", "closing"}
    /\ row' \in {row} \cup (IF pc["stream"] = "upserting" /\ schema
                            THEN {snap["stream"]} ELSE {})
    /\ stored' \in {stored} \cup (IF pc["stream"] = "eventing"
                                  THEN {StoredUpTo(snap["stream"].events)} ELSE {})
    /\ abandoned' = TRUE
    /\ LeavesTasks
    /\ UNCHANGED <<request, collector, events, snap, attempts, pushes, sent, schema, faults,
                   overlap>>

-----------------------------------------------------------------------------
(* persist_runtime_trace, run by the stream and by the enqueue task *)

Persisters == {"stream", "enqueue"}
AfterPersist(t) == IF t = "stream" THEN "closing" ELSE "ended"

UpsertRow(t) ==
    /\ pc[t] = "upserting"
    /\ schema
    /\ row' = snap[t]
    /\ Moves(t, IF snap[t].events = 0 THEN AfterPersist(t) ELSE "eventing")
    /\ UNCHANGED <<request, collector, events, snap, attempts, stored, pushes, sent, schema,
                   faults, abandoned, overlap>>

StoreEvents(t) ==
    /\ pc[t] = "eventing"
    /\ stored' = StoredUpTo(snap[t].events)
    /\ Moves(t, AfterPersist(t))
    /\ UNCHANGED <<request, collector, events, snap, attempts, row, pushes, sent, schema,
                   faults, abandoned, overlap>>

(* A write raises, committed or not.                                        *)
WriteLost(t) ==
    /\ Faulted
    /\ row' \in {row} \cup (IF schema /\ pc[t] \in {"upserting", "committing", "reporting"}
                            THEN {snap[t]} ELSE {})
    /\ stored' \in {stored} \cup (IF pc[t] \in {"eventing", "detailing"}
                                  THEN {StoredUpTo(snap[t].events)} ELSE {})
    /\ UNCHANGED <<request, events, pushes, sent, schema, abandoned>>

AttemptFailsUncounted(t) ==
    /\ pc[t] \in {"upserting", "eventing"}
    /\ WriteLost(t)
    /\ Moves(t, IF schema THEN "upserting" ELSE AfterPersist(t))
    /\ UNCHANGED <<collector, snap, attempts, overlap>>

AttemptFailsForGood(t) ==
    /\ pc[t] \in {"upserting", "eventing"}
    /\ WriteLost(t)
    /\ Moves(t, AfterPersist(t))
    /\ UNCHANGED <<collector, snap, attempts, overlap>>

AttemptFails(t) ==
    /\ pc[t] \in {"upserting", "eventing"}
    /\ WriteLost(t)
    /\ attempts' = [attempts EXCEPT ![t] = @ + 1]
    /\ Moves(t, IF attempts'[t] < MaxAttempts /\ schema THEN "upserting" ELSE AfterPersist(t))
    /\ UNCHANGED <<collector, snap, overlap>>

-----------------------------------------------------------------------------
(* maybe_shadow_eval_commit *)

EndsInline(inline, n, to) ==
    /\ collector' = [collector EXCEPT !.inline = inline]
    /\ Takes("commit", Dict(collector', FALSE, n))
    /\ Moves("commit", to)

SkipEvaluation ==
    /\ pc["commit"] = "deciding"
    /\ EndsInline("skipped", 0, "committing")
    /\ UNCHANGED <<request, events, attempts, stores, sent, schema, faults, abandoned>>

Evaluate ==
    /\ pc["commit"] = "deciding"
    /\ EvalEnabled
    /\ Moves("commit", "evaluating")
    /\ UNCHANGED <<request, collector, events, snap, attempts, stores, sent, schema, faults,
                   abandoned, overlap>>

EvaluationEnds ==
    /\ pc["commit"] = "evaluating"
    /\ EndsInline("complete", Len(events), "committing")
    /\ UNCHANGED <<request, events, attempts, stores, sent, schema, faults, abandoned>>

EvaluationFails ==
    /\ pc["commit"] = "evaluating"
    /\ EndsInline("failed", 0, "reporting")
    /\ Faulted
    /\ UNCHANGED <<request, events, attempts, stores, sent, schema, abandoned>>

CommitRow ==
    /\ pc["commit"] \in {"committing", "reporting"}
    /\ schema
    /\ row' = snap["commit"]
    /\ Moves("commit", IF snap["commit"].events = 0 /\ snap["commit"].inline # "complete"
                       THEN "ended" ELSE "detailing")
    /\ UNCHANGED <<request, collector, events, snap, attempts, stored, pushes, sent, schema,
                   faults, abandoned, overlap>>

(* The events, then the results of the evaluation.                          *)
CommitDetails ==
    /\ pc["commit"] = "detailing"
    /\ stored' = StoredUpTo(snap["commit"].events)
    /\ Moves("commit", "ended")
    /\ UNCHANGED <<request, collector, events, snap, attempts, row, pushes, sent, schema,
                   faults, abandoned, overlap>>

(* Variant: a bundle that fails is given up.                                *)
CommitGivesUp ==
    /\ pc["commit"] \in {"committing", "detailing"}
    /\ WriteLost("commit")
    /\ Moves("commit", "ended")
    /\ UNCHANGED <<collector, snap, attempts, overlap>>

CommitFails ==
    /\ pc["commit"] \in {"committing", "detailing"}
    /\ WriteLost("commit")
    /\ EndsInline("failed", 0, "reporting")
    /\ UNCHANGED attempts

ReportFails ==
    /\ pc["commit"] = "reporting"
    /\ WriteLost("commit")
    /\ Moves("commit", "ended")
    /\ UNCHANGED <<collector, snap, attempts, overlap>>

-----------------------------------------------------------------------------
(* The hand-over to the judge's queue *)

Push ==
    /\ pc["enqueue"] = "pushing"
    /\ pushes' = pushes + 1
    /\ Moves("enqueue", "ended")
    /\ UNCHANGED <<request, collector, events, snap, attempts, row, stored, sent, schema,
                   faults, abandoned, overlap>>

(* Redis fails, or the push is cancelled after its timeout, executed or not. *)
PushFails ==
    /\ pc["enqueue"] = "pushing"
    /\ pushes' \in {pushes, pushes + 1}
    /\ collector' = [collector EXCEPT !.shadow = "failed"]
    /\ UNCHANGED events
    /\ PersistStarts("enqueue")
    /\ UNCHANGED <<request, row, stored, sent, schema, faults, abandoned>>

-----------------------------------------------------------------------------

Streaming ==
    \/ BlockedAnswer \/ GraphEnds \/ GraphFails \/ TurnSaved \/ SendFinalEvents

Persisting(t) == UpsertRow(t) \/ StoreEvents(t) \/ AttemptFails(t)

Committing ==
    \/ SkipEvaluation \/ Evaluate \/ EvaluationEnds \/ EvaluationFails
    \/ CommitRow \/ CommitDetails \/ CommitFails \/ ReportFails

Pushing == Push \/ PushFails

AtRest == \A t \in Tasks : pc[t] \in {"refused", "ended", "none"}
Rests == AtRest /\ UNCHANGED vars

Next ==
    \/ RateLimited \/ SetupFails \/ Admit
    \/ ToolEvent \/ Abandon
    \/ Streaming \/ Committing \/ Pushing
    \/ \E t \in Persisters : Persisting(t)
    \/ Rests

Spec == Init /\ [][Next]_vars

(* The event loop runs what is ready, the request is read, and the graph     *)
(* ends: its steps and its model calls are bounded.                         *)
Fairness ==
    /\ WF_vars(RateLimited \/ SetupFails \/ Admit)
    /\ WF_vars(Streaming) /\ WF_vars(Committing) /\ WF_vars(Pushing)
    /\ \A t \in Persisters : WF_vars(Persisting(t))

FairSpec == Spec /\ Fairness

-----------------------------------------------------------------------------
(* Properties *)

Labels == {"none", "new", "refused", "blocked", "graph", "saving", "upserting", "eventing",
           "closing", "deciding", "evaluating", "committing", "detailing", "reporting",
           "pushing", "ended"}

TypeOK ==
    /\ pc \in [Tasks -> Labels]
    /\ answer \in {0, 200, 400, 500} /\ limited \in BOOLEAN /\ blocked \in BOOLEAN
    /\ collector \in Collectors
    /\ events \in Seq(Events) /\ Len(events) <= MaxEvents
    /\ snap \in [Tasks -> States \cup {NoRow}]
    /\ attempts \in [Tasks -> 0..MaxAttempts]
    /\ row \in States \cup {NoRow}
    /\ stored \in 0..MaxEvents /\ pushes \in 0..1
    /\ sent \subseteq {"trace", "error", "done"}
    /\ schema \in BOOLEAN
    /\ faults \in 0..FaultCap
    /\ abandoned \in BOOLEAN /\ overlap \in BOOLEAN

(* The row's writers agree on how the turn ended: once there is a row it     *)
(* stays, and no later writer turns an error into a success or back.        *)
StatusSettled == [][row # NoRow => row' # NoRow /\ row'.status = row.status]_vars

(* The writers back each other up: an admitted prompt is without a row only  *)
(* after every attempt of the stream and both of the commit have failed.    *)
Recorded ==
    AtRest /\ answer = 200 /\ ~blocked /\ schema /\ row = NoRow =>
        faults >= IF abandoned THEN 2 ELSE MaxAttempts + 2

(* The stream of a client that stays is answered to its end, and everything  *)
(* it left behind ends too.                                                 *)
Settles == <>(AtRest /\ (answer = 200 => abandoned \/ "done" \in sent))

(* Snapshots are taken only after on_done, and agree with the collector.    *)
SnapsAgree ==
    /\ \A t \in Tasks : Writing(t) => snap[t] # NoRow /\ snap[t].status = collector.status
    /\ row # NoRow => row.status = collector.status
    /\ pc["stream"] \in {"new", "blocked", "graph"} => row = NoRow
    /\ pc["stream"] # "ended" => pc["commit"] = "none" /\ pc["enqueue"] = "none"

(* What keeps the attempts and the pushes in their ranges.                  *)
Budgets ==
    /\ \A t \in Persisters : pc[t] \in {"upserting", "eventing"} => attempts[t] < MaxAttempts
    /\ pc["enqueue"] \in {"none", "pushing"} => pushes = 0

(* The inductive invariant of StatusSettled.                                *)
StreamInv == TypeOK /\ SnapsAgree /\ Budgets

=============================================================================
