---------------------------- MODULE ShadowQueue ----------------------------
(***************************************************************************)
(* The shadow-trace queue (eval_store/shadow_queue.py) and the worker that *)
(* drains it (worker/shadow_judge_worker.py).                              *)
(*                                                                         *)
(* API processes LPUSH traces and LTRIM the list; the worker RPOPs a batch *)
(* one item at a time, has it judged by the primary or the fallback model, *)
(* writes one row per item and mirrors the scores. RPOP is destructive, so *)
(* between the pop and the row the only copy of a trace is in the worker's *)
(* memory. A batch that fails is pushed back, or dead-lettered once its    *)
(* retries are spent. Redis, Postgres and the worker may fail in between.  *)
(***************************************************************************)
EXTENDS Naturals, Sequences, FiniteSets

CONSTANTS
    Traces,      \* finished agent turns, each enqueued at most once
    Workers,     \* shadow-judge worker processes
    MaxLen,      \* SHADOW_TRACE_QUEUE_MAXLEN; 0 disables the trim
    DlqMaxLen,   \* SHADOW_TRACE_QUEUE_DLQ_MAXLEN; 0 disables the trim
    BatchSize,   \* SHADOW_JUDGE_BATCH_SIZE
    MaxRetries   \* SHADOW_TRACE_QUEUE_MAX_RETRIES

ASSUME QueueAssumption ==
    /\ MaxLen \in Nat /\ DlqMaxLen \in Nat /\ MaxRetries \in Nat
    /\ BatchSize \in Nat \ {0}

VARIABLES
    queue,     \* the Redis list, newest (left) first
    dlq,       \* the dead-letter list, newest first
    enq,       \* enq[t]: the coroutine of enqueue_trace for t
    doing,     \* doing[w]: where process_once is in worker w
    batch,     \* batch[w]: the popped items w holds, oldest first
    evals,     \* evals[t]: rows of t in shadow_judge_evals
    mirror,    \* traces whose scores are in eval_results
    trimmed,   \* history: traces cut off by an LTRIM
    lost,      \* history: traces whose only copy went with an error or a crash
    ambiguous   \* history: traces whose insert was committed but reported as failed

lists == <<queue, dlq>>
rows == <<evals, mirror>>
history == <<trimmed, lost, ambiguous>>
queueVars == <<lists, enq, doing, batch, rows, history>>

Item == [trace : Traces, retries : 0..(MaxRetries + 1)]
TracesOf(s) == {s[i].trace : i \in DOMAIN s}
Count(t, s) == Cardinality({i \in DOMAIN s : s[i].trace = t})

QueueInit ==
    /\ queue = <<>> /\ dlq = <<>>
    /\ enq = [t \in Traces |-> "new"]
    /\ doing = [w \in Workers |-> "idle"]
    /\ batch = [w \in Workers |-> <<>>]
    /\ evals = [t \in Traces |-> 0]
    /\ mirror = {}
    /\ trimmed = {} /\ lost = {} /\ ambiguous = {}

(* LTRIM key 0 n-1 keeps the n newest items. n <= 0 means no trim is issued. *)
Kept(s, n) == IF n > 0 /\ Len(s) > n THEN SubSeq(s, 1, n) ELSE s
Cut(s, n) == IF n > 0 /\ Len(s) > n THEN SubSeq(s, n + 1, Len(s)) ELSE <<>>

Goes(w, to) == doing' = [doing EXCEPT ![w] = to]

-----------------------------------------------------------------------------
(* enqueue_trace, under the caller's push timeout *)

Enqueue(t) ==
    /\ enq[t] = "new"
    /\ enq' = [enq EXCEPT ![t] = "pushed"]
    /\ queue' = <<[trace |-> t, retries |-> 0]>> \o queue
    /\ UNCHANGED <<dlq, doing, batch, rows, history>>

TrimAfterPush(t) ==
    /\ enq[t] = "pushed"
    /\ enq' = [enq EXCEPT ![t] = "done"]
    /\ queue' = Kept(queue, MaxLen)
    /\ trimmed' = trimmed \cup TracesOf(Cut(queue, MaxLen))
    /\ UNCHANGED <<dlq, doing, batch, rows, lost, ambiguous>>

(* Timeout, cancellation or a Redis error: before the LPUSH, or between it   *)
(* and the LTRIM.                                                            *)
EnqueueFails(t) ==
    /\ enq[t] \in {"new", "pushed"}
    /\ enq' = [enq EXCEPT ![t] = IF @ = "new" THEN "refused" ELSE "untrimmed"]
    /\ UNCHANGED <<lists, doing, batch, rows, trimmed, lost, ambiguous>>

-----------------------------------------------------------------------------
(* pop_batch *)

PopOne(w) ==
    /\ doing[w] \in {"idle", "popping"}
    /\ Len(batch[w]) < BatchSize
    /\ queue # <<>>
    /\ LET oldest == queue[Len(queue)] IN
       batch' = [batch EXCEPT ![w] = Append(@, oldest)]
    /\ queue' = SubSeq(queue, 1, Len(queue) - 1)
    /\ Goes(w, "popping")
    /\ UNCHANGED <<dlq, enq, rows, history>>

PopDone(w) ==
    /\ doing[w] = "popping"
    /\ Len(batch[w]) = BatchSize \/ queue = <<>>
    /\ Goes(w, "judging")
    /\ UNCHANGED <<lists, enq, batch, rows, history>>

-----------------------------------------------------------------------------
(* _evaluate_batch, _persist_rows and the except branch of process_once *)

PrimaryAnswers(w) ==
    /\ doing[w] = "judging"
    /\ Goes(w, "persisting")
    /\ UNCHANGED <<lists, enq, batch, rows, history>>

PrimaryFails(w) ==
    /\ doing[w] = "judging"
    /\ Goes(w, "fallback")
    /\ UNCHANGED <<lists, enq, batch, rows, history>>

(* The fallback answers, or refuses with a 4xx and default rows stand in.    *)
FallbackYieldsRows(w) ==
    /\ doing[w] = "fallback"
    /\ Goes(w, "persisting")
    /\ UNCHANGED <<lists, enq, batch, rows, history>>

(* Variant: a failed fallback ends the iteration without a requeue.          *)
FallbackForgets(w) ==
    /\ doing[w] = "fallback"
    /\ batch' = [batch EXCEPT ![w] = <<>>]
    /\ Goes(w, "idle")
    /\ UNCHANGED <<lists, enq, rows, history>>

FallbackRaises(w) ==
    /\ doing[w] = "fallback"
    /\ Goes(w, "requeueing")
    /\ UNCHANGED <<lists, enq, batch, rows, history>>

AddRows(w) == evals' = [t \in Traces |-> evals[t] + Count(t, batch[w])]

(* executemany inserts all rows or none: they get fresh ids every time.      *)
InsertRows(w) ==
    /\ doing[w] = "persisting"
    /\ AddRows(w)
    /\ Goes(w, "mirroring")
    /\ UNCHANGED <<lists, enq, batch, mirror, history>>

(* The insert raises. It may have been committed all the same when only its  *)
(* acknowledgement was lost.                                                 *)
InsertRaises(w) ==
    /\ doing[w] = "persisting"
    /\ \/ UNCHANGED <<evals, ambiguous>>
       \/ AddRows(w) /\ ambiguous' = ambiguous \cup TracesOf(batch[w])
    /\ Goes(w, "requeueing")
    /\ UNCHANGED <<lists, enq, batch, mirror, trimmed, lost>>

(* Variant: the mirror's failure fails the batch.                            *)
MirrorRaises(w) ==
    /\ doing[w] = "mirroring"
    /\ Goes(w, "requeueing")
    /\ UNCHANGED <<lists, enq, batch, rows, history>>

(* The mirror's failure is swallowed; either way the batch is finished.      *)
Mirror(w) ==
    /\ doing[w] = "mirroring"
    /\ mirror' \in {mirror, mirror \cup TracesOf(batch[w])}
    /\ batch' = [batch EXCEPT ![w] = <<>>]
    /\ Goes(w, "idle")
    /\ UNCHANGED <<lists, enq, evals, history>>

RequeueUncounted(w) ==
    /\ doing[w] = "requeueing"
    /\ batch[w] # <<>>
    /\ queue' = <<Head(batch[w])>> \o queue
    /\ batch' = [batch EXCEPT ![w] = Tail(@)]
    /\ UNCHANGED <<dlq, enq, doing, rows, history>>

(* requeue_or_dead_letter_batch, one item per round trip.                    *)
Requeue(w) ==
    /\ doing[w] = "requeueing"
    /\ batch[w] # <<>>
    /\ LET item == [Head(batch[w]) EXCEPT !.retries = @ + 1] IN
       IF item.retries > MaxRetries
       THEN dlq' = <<item>> \o dlq /\ UNCHANGED queue
       ELSE queue' = <<item>> \o queue /\ UNCHANGED dlq
    /\ batch' = [batch EXCEPT ![w] = Tail(@)]
    /\ UNCHANGED <<enq, doing, rows, history>>

TrimQueue(w) ==
    /\ doing[w] = "requeueing"
    /\ batch[w] = <<>>
    /\ queue' = Kept(queue, MaxLen)
    /\ trimmed' = trimmed \cup TracesOf(Cut(queue, MaxLen))
    /\ Goes(w, "dlqtrim")
    /\ UNCHANGED <<dlq, enq, batch, rows, lost, ambiguous>>

TrimDlq(w) ==
    /\ doing[w] = "dlqtrim"
    /\ dlq' = Kept(dlq, DlqMaxLen)
    /\ trimmed' = trimmed \cup TracesOf(Cut(dlq, DlqMaxLen))
    /\ Goes(w, "idle")
    /\ UNCHANGED <<queue, enq, batch, rows, lost, ambiguous>>

(* The worker dies, or Redis fails inside pop_batch (which process_once does *)
(* not guard) or inside the requeue (whose error is only logged): what the   *)
(* worker still held is gone. Rows already committed stay.                   *)
DropBatch(w) ==
    /\ doing[w] # "idle"
    /\ lost' = lost \cup TracesOf(batch[w])
    /\ batch' = [batch EXCEPT ![w] = <<>>]
    /\ Goes(w, "idle")
    /\ UNCHANGED <<lists, enq, rows, trimmed, ambiguous>>

Working(w) ==
    \/ PopOne(w) \/ PopDone(w)
    \/ PrimaryAnswers(w) \/ PrimaryFails(w) \/ FallbackYieldsRows(w) \/ FallbackRaises(w)
    \/ InsertRows(w) \/ InsertRaises(w) \/ Mirror(w)
    \/ Requeue(w) \/ TrimQueue(w) \/ TrimDlq(w)

QueueNext ==
    \/ \E t \in Traces : Enqueue(t) \/ TrimAfterPush(t) \/ EnqueueFails(t)
    \/ \E w \in Workers : Working(w) \/ DropBatch(w)

QueueSpec == QueueInit /\ [][QueueNext]_queueVars

(* run_forever polls for ever and every call it awaits has a timeout.        *)
FairQueueSpec == QueueSpec /\ \A w \in Workers : WF_queueVars(Working(w))

-----------------------------------------------------------------------------
(* Properties *)

Enqueuing == {"new", "pushed", "done", "refused", "untrimmed"}
Doing == {"idle", "popping", "judging", "fallback", "persisting", "mirroring",
          "requeueing", "dlqtrim"}

QueueTypeOK ==
    /\ queue \in Seq(Item) /\ dlq \in Seq(Item)
    /\ enq \in [Traces -> Enqueuing]
    /\ doing \in [Workers -> Doing]
    /\ batch \in [Workers -> Seq(Item)]
    /\ evals \in [Traces -> Nat]
    /\ mirror \subseteq Traces /\ trimmed \subseteq Traces /\ lost \subseteq Traces
    /\ ambiguous \subseteq Traces

HeldBy(t) == {w \in Workers : t \in TracesOf(batch[w])}
Queued(t) == Count(t, queue) + Count(t, dlq)

(* A trace that reached the queue and is no longer anywhere was judged, or   *)
(* fell to a full list, or went down with a failing worker: no ordinary path *)
(* (retry, fallback, dead letter) drops it.                                  *)
NothingDropped ==
    \A t \in Traces : enq[t] \in {"pushed", "done", "untrimmed"} =>
        Queued(t) = 1 \/ HeldBy(t) # {} \/ evals[t] > 0 \/ t \in trimmed \cup lost

(* A trace has one row, and none while it still circulates, unless the       *)
(* acknowledgement of an insert was lost; the mirror shows only traces with  *)
(* a row.                                                                    *)
OneRowPerTrace ==
    \A t \in Traces :
        /\ t \notin ambiguous => evals[t] <= 1 /\ (evals[t] = 1 => Queued(t) = 0)
        /\ t \in mirror => evals[t] > 0

(* Every trace that got into the queue is settled: retries are bounded, so   *)
(* a model that keeps failing cannot keep a trace circulating for ever.      *)
TracesSettle ==
    \A t \in Traces :
        enq[t] = "pushed" ~> (evals[t] > 0 \/ t \in TracesOf(dlq) \/ t \in trimmed \cup lost)

=============================================================================
