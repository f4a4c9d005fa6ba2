----------------------------- MODULE EvalStatus -----------------------------
(***************************************************************************)
(* What the chat widget is told of the evaluation of its turn (eval_store/  *)
(* status.py, the route eval-status and useEvalStatus.ts): a status derived *)
(* from the rows that AgentStream's tasks and the judge's worker leave, and *)
(* from how old they are. The route reads the trace before the scores, which *)
(* are only ever gained: it answers the status as of the first read, or      *)
(* "complete". The widget polls until the answer is not "pending".          *)
(***************************************************************************)
EXTENDS AgentStream

VARIABLES
    age,      \* of the row: within TRACE_STATUS_GRACE_SECONDS of updated_at, or not
    timedOut, \* SHADOW_TIMED_OUT_SECONDS have passed since queued_at
    results,  \* eval_results has rows of the trace
    verdict   \* shadow_judge_evals has one

statusVars == <<age, timedOut, results, verdict>>

StatusInit ==
    /\ Init
    /\ age = "fresh" /\ timedOut = FALSE
    /\ results = FALSE /\ verdict = FALSE

-----------------------------------------------------------------------------
(* derive_eval_status *)

Evaluated == results \/ verdict

(* Variants: results are not waited for; a queued trace waits for ever.     *)
StatusAtOnce ==
    IF row = NoRow THEN "not_found"
    ELSE IF Evaluated THEN "complete"
    ELSE IF row.shadow = "queued" THEN IF timedOut THEN "unavailable" ELSE "pending"
    ELSE IF age = "fresh" /\ row.inline = "none" THEN "pending" ELSE "unavailable"

StatusNeverTimedOut ==
    IF row = NoRow THEN "not_found"
    ELSE IF Evaluated THEN "complete"
    ELSE IF row.shadow = "queued" \/ (age = "fresh" /\ row.inline \in {"none", "complete"})
    THEN "pending" ELSE "unavailable"

(* The worker never marks the lifecycle: a trace that was queued stays so.  *)
Status ==
    IF row = NoRow THEN "not_found"
    ELSE IF Evaluated THEN "complete"
    ELSE IF row.shadow = "queued" THEN IF timedOut THEN "unavailable" ELSE "pending"
    ELSE IF age = "fresh" /\ row.inline \in {"none", "complete"} THEN "pending"
    ELSE "unavailable"

-----------------------------------------------------------------------------
(* The writers, and time, which is told while it matters to the status *)

(* updated_at is set by every upsert; the results follow the events, and a   *)
(* bundle that fails may have stored them.                                  *)
StreamStep ==
    /\ Next
    /\ age' = IF row' # row \/ CommitRow \/ \E t \in Persisters : UpsertRow(t)
              THEN "fresh" ELSE age
    /\ LET ending == pc["commit"] = "detailing" /\ snap["commit"].inline = "complete" IN
       results' \in {results \/ (ending /\ CommitDetails)}
                      \cup {r \in {TRUE} : ending /\ CommitFails}
    /\ UNCHANGED <<timedOut, verdict>>

(* The worker judged the trace: ShadowQueue tells when it does not.         *)
Judge ==
    /\ pushes > 0 /\ ~verdict
    /\ verdict' = TRUE
    /\ UNCHANGED <<vars, age, timedOut, results>>

(* The attempts of a write follow each other faster than the grace ends.    *)
GraceEnds ==
    /\ row # NoRow /\ ~Evaluated /\ age = "fresh" /\ ~\E t \in Tasks : Writing(t)
    /\ age' = "old"
    /\ UNCHANGED <<vars, timedOut, results, verdict>>

(* The backlog it tells of before that is "pending" too.                    *)
QueueTimesOut ==
    /\ row # NoRow /\ ~Evaluated /\ row.shadow = "queued" /\ age = "old"
    /\ timedOut' = TRUE
    /\ UNCHANGED <<vars, age, results, verdict>>

StatusNext == StreamStep \/ Judge \/ GraceEnds \/ QueueTimesOut

(* The writers run on, and time passes.                                     *)
StatusSpec ==
    /\ StatusInit /\ [][StatusNext]_<<vars, statusVars>>
    /\ Fairness
    /\ WF_statusVars(GraceEnds) /\ WF_statusVars(QueueTimesOut)

-----------------------------------------------------------------------------
(* Properties *)

(* A client that was told its trace finds it, or every attempt of the        *)
(* stream to write it had failed.                                           *)
ToldTraceIsFound ==
    "done" \in sent /\ Status = "not_found" => ~schema \/ faults >= MaxAttempts

(* "unavailable", at which the widget stops, is not the last answer before   *)
(* "complete", unless the trace waited too long in the queue or its push was *)
(* reported as failed and had been executed.                                *)
UnavailableHolds ==
    [][Status = "unavailable" /\ Status' = "complete" /\ ~abandoned =>
           timedOut \/ (collector.shadow = "failed" /\ verdict')]_<<vars, statusVars>>

(* Whatever fails, the status of a turn does not stay pending for ever.     *)
PendingEnds == []<>(Status # "pending")

=============================================================================
