----------------------------- MODULE TurnTrace -----------------------------
(***************************************************************************)
(* The trace of a turn, on both sides of the judge's queue: what the stream *)
(* and the tasks it leaves behind write of it, with the status told of it,  *)
(* and how the queue and the worker bring it to its verdict. The stream's   *)
(* last step of the hand-over is the LPUSH the queue starts from, and the   *)
(* worker's row is all that the status knows of it: no step is one of both  *)
(* sides, so the system is one of them, chosen at the start.                *)
(***************************************************************************)
EXTENDS EvalStatus, ShadowQueue

VARIABLE side  \* which side this is

streamVars == <<vars, statusVars>>
traceVars == <<side, streamVars, queueVars>>

TraceInit == side \in {"stream", "queue"} /\ StatusInit /\ QueueInit

StreamMoves == side = "stream" /\ StatusNext /\ UNCHANGED <<side, queueVars>>
QueueMoves == side = "queue" /\ QueueNext /\ UNCHANGED <<side, streamVars>>

TraceNext == StreamMoves \/ QueueMoves

(* Each side runs on, and time passes, as in StatusSpec and FairQueueSpec.   *)
StreamRuns ==
    /\ WF_vars(side = "stream" /\ (RateLimited \/ SetupFails \/ Admit))
    /\ WF_vars(side = "stream" /\ Streaming) /\ WF_vars(side = "stream" /\ Committing)
    /\ WF_vars(side = "stream" /\ Pushing)
    /\ \A t \in Persisters : WF_vars(side = "stream" /\ Persisting(t))
    /\ WF_statusVars(side = "stream" /\ GraceEnds)
    /\ WF_statusVars(side = "stream" /\ QueueTimesOut)

QueueRuns == \A w \in Workers : WF_queueVars(side = "queue" /\ Working(w))

TraceSpec == TraceInit /\ [][TraceNext]_traceVars /\ StreamRuns /\ QueueRuns

-----------------------------------------------------------------------------
(* Properties *)

(* The stream of a client that stays is answered to its end, and everything  *)
(* it left behind ends too: Settles, on the side where there is a stream.   *)
TurnSettles == side = "stream" => Settles

=============================================================================
