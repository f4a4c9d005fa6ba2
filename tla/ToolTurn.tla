------------------------------ MODULE ToolTurn ------------------------------
(***************************************************************************)
(* The turns of one chat session on one worker: the loop between the model  *)
(* and the tools (core/recursive_rag_graph.py), the policy for side-effect  *)
(* tools (tools/tool_execution_policy.py), the worker's MCP connection with  *)
(* its reconnect (tools/mcp_manager.py) and the transcript the turns leave  *)
(* in the checkpointer (agent_stream.py, agent_query.py). Turns of a        *)
(* session overlap when it is open in two tabs.                             *)
(***************************************************************************)
EXTENDS Naturals, Sequences

CONSTANTS
    Turns,         \* requests of the session
    Tools,         \* tool calls the model can make: a tool with its arguments
    SideEffect,    \* those of generate_otp, validate_otp, select_loan, ...
    Ghost,         \* a call of a tool that does not exist
    MaxIterations, \* max_iterations of the graph
    MaxCalls,      \* bound: calls in one message of the model
    None

ASSUME ToolsAssumption ==
    /\ SideEffect \subseteq Tools /\ Ghost \notin Tools
    /\ MaxIterations \in Nat \ {0} /\ MaxCalls \in Nat \ {0}
    /\ None \notin Turns

VARIABLES
    loaded,    \* tool_blueprints: "none", or those of an "open" or a "closed" session
    lock,      \* who holds call_lock
    pc,        \* pc[t]: where turn t is suspended
    bound,     \* bound[t]: the session its tools were built on is open
    calls,     \* calls[t]: tool calls of the last message, to be answered
    cache,     \* cache[t]: tool_execution_cache
    iteration, \* iteration[t]
    thread,    \* the latest checkpoint of the session
    mine,      \* mine[t]: the transcript as turn t carries it
    found,     \* found[t]: the checkpoint that is about to be stamped
    ran,       \* history: times the server ran a side-effect call
    cut,       \* history: turns ended at the limit, cancelled or failed
    overlapped \* history: turns that ran beside another

manager == <<loaded, lock, bound>>
loop == <<calls, cache, iteration>>
history == <<ran, cut, overlapped>>
vars == <<manager, pc, loop, thread, mine, found, history>>

(* A transcript: the turns it has messages of, whose message is the last and *)
(* of which kind, and whether it has tool calls nobody answered.             *)
NoThread == [turns |-> {}, last |-> None, kind |-> "none", dangling |-> FALSE]

Running(t) == pc[t] \notin {"new", "refused", "done"}
Goes(t, to) == pc' = [pc EXCEPT ![t] = to]

Init ==
    /\ loaded = "open" /\ lock = None
    /\ pc = [t \in Turns |-> "new"]
    /\ bound = [t \in Turns |-> FALSE]
    /\ calls = [t \in Turns |-> <<>>] /\ cache = [t \in Turns |-> {}]
    /\ iteration = [t \in Turns |-> 0]
    /\ thread = NoThread
    /\ mine = [t \in Turns |-> NoThread] /\ found = [t \in Turns |-> NoThread]
    /\ ran = [t \in Turns |-> [op \in SideEffect |-> 0]]
    /\ cut = {} /\ overlapped = {}

Appended(m, t, kind, dangling) ==
    [m EXCEPT !.last = t, !.kind = kind, !.dangling = @ \/ dangling, !.turns = @ \cup {t}]

(* A turn writes the whole transcript it carries as the latest checkpoint.   *)
Saves(t, m) ==
    /\ mine' = [mine EXCEPT ![t] = m]
    /\ thread' = m

Ends(t) ==
    /\ Goes(t, "done")
    /\ calls' = [calls EXCEPT ![t] = <<>>] /\ cache' = [cache EXCEPT ![t] = {}]
    /\ iteration' = [iteration EXCEPT ![t] = 0]
    /\ mine' = [mine EXCEPT ![t] = NoThread] /\ found' = [found EXCEPT ![t] = NoThread]

-----------------------------------------------------------------------------
(* The turn: its tools are bound to the raw tools of the moment.             *)

Start(t) ==
    /\ pc[t] = "new"
    /\ loaded # "none"
    /\ Goes(t, "model")
    /\ bound' = [bound EXCEPT ![t] = loaded = "open"]
    /\ Saves(t, Appended(thread, t, "human", FALSE))
    /\ LET others == {u \in Turns \ {t} : Running(u)} IN
       overlapped' = overlapped \cup (IF others = {} THEN {} ELSE others \cup {t})
    /\ UNCHANGED <<loaded, lock, loop, found, ran, cut>>

(* No tools loaded: the request is refused.                                 *)
Refuse(t) ==
    /\ pc[t] = "new" /\ loaded = "none"
    /\ Goes(t, "refused")
    /\ UNCHANGED <<manager, loop, thread, mine, found, history>>

Answer(t) ==
    /\ pc[t] = "model"
    /\ Saves(t, Appended(mine[t], t, "ai", FALSE))
    /\ Goes(t, "answered")
    /\ UNCHANGED <<manager, loop, found, history>>

(* The model calls tools. At the limit the graph ends with the calls of this *)
(* message unanswered.                                                      *)
CallTools(t) ==
    /\ pc[t] = "model"
    /\ Saves(t, Appended(mine[t], t, "ai", TRUE))
    /\ IF iteration[t] >= MaxIterations
       THEN /\ Goes(t, "answered")
            /\ cut' = cut \cup {t}
            /\ UNCHANGED calls
       ELSE /\ Goes(t, "tools")
            /\ \E n \in 1..MaxCalls : \E s \in [1..n -> Tools \cup {Ghost}] :
                  calls' = [calls EXCEPT ![t] = s]
            /\ UNCHANGED cut
    /\ UNCHANGED <<manager, cache, iteration, found, ran, overlapped>>

ModelFails(t) ==
    /\ pc[t] = "model"
    /\ Ends(t)
    /\ UNCHANGED <<manager, thread, history>>

-----------------------------------------------------------------------------
(* DedupToolNode                                                            *)

Answered(t, done) ==
    /\ calls' = [calls EXCEPT ![t] = Tail(@)]
    /\ cache' = [cache EXCEPT ![t] = @ \cup (done \cap SideEffect)]
    /\ Goes(t, "tools")

(* Answered without a call: no such tool, or its result is in the cache.     *)
Skip(t) ==
    /\ pc[t] = "tools" /\ calls[t] # <<>>
    /\ Head(calls[t]) \in cache[t] \cup {Ghost}
    /\ Answered(t, {})
    /\ UNCHANGED <<manager, iteration, thread, mine, found, history>>

Invoke(t) ==
    /\ pc[t] = "tools" /\ calls[t] # <<>>
    /\ Head(calls[t]) \notin cache[t] \cup {Ghost}
    /\ Goes(t, "calling")
    /\ UNCHANGED <<manager, loop, thread, mine, found, history>>

Ran(t) ==
    ran' = IF Head(calls[t]) \in SideEffect THEN [ran EXCEPT ![t][Head(calls[t])] = @ + 1] ELSE ran

Returns(t) ==
    /\ pc[t] = "calling" /\ bound[t]
    /\ Ran(t)
    /\ Answered(t, {Head(calls[t])})
    /\ UNCHANGED <<manager, iteration, thread, mine, found, cut, overlapped>>

(* Variant: only results are cached.                                         *)
BreaksUncached(t) ==
    /\ pc[t] = "calling"
    /\ Ran(t) \/ UNCHANGED ran
    /\ IF Head(calls[t]) \in SideEffect THEN Answered(t, {})
       ELSE Goes(t, "lock") /\ UNCHANGED <<calls, cache>>
    /\ UNCHANGED <<manager, iteration, thread, mine, found, cut, overlapped>>

(* The call fails, at the latest because its session is closed; the server   *)
(* may have run it. A side-effect tool is not tried again, and what it said  *)
(* goes to the cache like a result.                                         *)
Breaks(t) ==
    /\ pc[t] = "calling"
    /\ Ran(t) \/ UNCHANGED ran
    /\ IF Head(calls[t]) \in SideEffect THEN Answered(t, {Head(calls[t])})
       ELSE Goes(t, "lock") /\ UNCHANGED <<calls, cache>>
    /\ UNCHANGED <<manager, iteration, thread, mine, found, cut, overlapped>>

(* Variant: the messages of the tools are not kept.                          *)
ToolsDoneUnsaved(t) ==
    /\ pc[t] = "tools" /\ calls[t] = <<>>
    /\ iteration' = [iteration EXCEPT ![t] = @ + 1]
    /\ Goes(t, "model")
    /\ UNCHANGED <<manager, calls, cache, found, thread, mine, history>>

ToolsDone(t) ==
    /\ pc[t] = "tools" /\ calls[t] = <<>>
    /\ iteration' = [iteration EXCEPT ![t] = @ + 1]
    /\ Saves(t, [mine[t] EXCEPT !.kind = "tool", !.dangling = FALSE])
    /\ Goes(t, "model")
    /\ UNCHANGED <<manager, calls, cache, found, history>>

-----------------------------------------------------------------------------
(* The reconnect, under call_lock: close the session of every tool built so  *)
(* far, open another, and call the fresh tool once more.                    *)

Acquire(t) ==
    /\ pc[t] = "lock" /\ lock = None
    /\ lock' = t
    /\ Goes(t, "closing")
    /\ UNCHANGED <<loaded, bound, loop, thread, mine, found, history>>

Close(t) ==
    /\ pc[t] = "closing"
    /\ bound' = [u \in Turns |-> FALSE]
    /\ loaded' = "none"
    /\ Goes(t, "opening")
    /\ UNCHANGED <<lock, loop, thread, mine, found, history>>

(* The session is closed, and the tools made from it stay.                   *)
SessionEnds ==
    /\ bound' = [u \in Turns |-> FALSE]
    /\ loaded' = IF loaded = "open" THEN "closed" ELSE loaded

(* aclose raises: the call fails, and the next turn gets tools of a session  *)
(* that is closed. Nothing is left to close the next time.                  *)
CloseFails(t) ==
    /\ pc[t] = "closing" /\ loaded = "open"
    /\ SessionEnds
    /\ lock' = None
    /\ Answered(t, {})
    /\ UNCHANGED <<iteration, thread, mine, found, history>>

Open(t) ==
    /\ pc[t] = "opening"
    /\ loaded' = "open"
    /\ Goes(t, "retry")
    /\ UNCHANGED <<lock, bound, loop, thread, mine, found, history>>

OpenFails(t) ==
    /\ pc[t] = "opening"
    /\ lock' = None
    /\ Answered(t, {})
    /\ UNCHANGED <<loaded, bound, iteration, thread, mine, found, history>>

(* Variant: the lock is kept when the call fails again.                      *)
RetryKeepsLock(t) ==
    /\ pc[t] = "retry"
    /\ \/ Ran(t) /\ lock' = None
       \/ UNCHANGED <<ran, lock>>
    /\ Answered(t, {})
    /\ UNCHANGED <<loaded, bound, iteration, thread, mine, found, cut, overlapped>>

Retry(t) ==
    /\ pc[t] = "retry"
    /\ Ran(t) \/ UNCHANGED ran
    /\ lock' = None
    /\ Answered(t, {})
    /\ UNCHANGED <<loaded, bound, iteration, thread, mine, found, cut, overlapped>>

-----------------------------------------------------------------------------
(* After the answer: the stream stamps the last message it finds in the      *)
(* latest checkpoint with its own answer and trace id.                      *)

FindLast(t) ==
    /\ pc[t] = "answered"
    /\ IF thread.kind = "ai"
       THEN /\ found' = [found EXCEPT ![t] = thread]
            /\ Goes(t, "stamp")
            /\ UNCHANGED <<loop, mine>>
       ELSE Ends(t)
    /\ UNCHANGED <<manager, thread, history>>

(* The message is replaced where its turn still is, or appended.             *)
Stamped(m, owner) ==
    [m EXCEPT !.turns = @ \cup {owner},
              !.last = IF owner \in m.turns THEN @ ELSE owner,
              !.kind = IF owner \in m.turns THEN @ ELSE "ai"]

Stamp(t) ==
    /\ pc[t] = "stamp"
    /\ thread' = Stamped(thread, found[t].last)
    /\ Ends(t)
    /\ UNCHANGED <<manager, history>>

(* The plain query answers and stamps nothing.                              *)
Reply(t) ==
    /\ pc[t] = "answered"
    /\ Ends(t)
    /\ UNCHANGED <<manager, thread, history>>

(* The stream notices at an event of the graph that its client is gone, and  *)
(* goes on to the stamping; the graph, which ends with it, stops here.       *)
BreaksOff(t) ==
    /\ pc[t] \in {"model", "tools", "calling", "lock", "closing", "opening", "retry"}
    /\ Goes(t, "answered")
    /\ UNCHANGED <<loop, mine, found>>

(* The client leaves: its request is cancelled, at any await, or breaks off. *)
(* Locks are released, a reconnect stays where it was.                      *)
Cancel(t) ==
    /\ Running(t)
    /\ Ends(t) \/ BreaksOff(t)
    /\ cut' = cut \cup {t}
    /\ lock' = IF lock = t THEN None ELSE lock
    /\ \/ pc[t] = "closing" /\ SessionEnds
       \/ UNCHANGED <<loaded, bound>>
    /\ UNCHANGED <<thread, ran, overlapped>>

Step(t) ==
    \/ Answer(t) \/ CallTools(t) \/ ModelFails(t)
    \/ Skip(t) \/ Invoke(t) \/ Returns(t) \/ Breaks(t) \/ ToolsDone(t)
    \/ Acquire(t) \/ Close(t) \/ CloseFails(t) \/ Open(t) \/ OpenFails(t) \/ Retry(t)
    \/ FindLast(t) \/ Stamp(t) \/ Reply(t)

Next == \E t \in Turns : Start(t) \/ Refuse(t) \/ Step(t) \/ Cancel(t)

(* The model, the tool server and Redis answer or time out.                 *)
Spec == Init /\ [][Next]_vars /\ \A t \in Turns : WF_vars(Step(t))

-----------------------------------------------------------------------------
(* Properties *)

Points == {"new", "model", "tools", "calling", "lock", "closing", "opening",
           "retry", "answered", "stamp", "done", "refused"}

TypeOK ==
    /\ loaded \in {"none", "open", "closed"} /\ lock \in Turns \cup {None}
    /\ pc \in [Turns -> Points]
    /\ bound \in [Turns -> BOOLEAN]
    /\ \A t \in Turns :
          /\ calls[t] \in Seq(Tools \cup {Ghost}) /\ cache[t] \subseteq SideEffect
          /\ iteration[t] \in 0..MaxIterations
    /\ cut \subseteq Turns /\ overlapped \subseteq Turns

(* "Suppressing duplicate side-effect tool call within run": however often    *)
(* the model repeats itself and whatever breaks, the server runs a           *)
(* side-effect call at most once a turn.                                    *)
SideEffectsRunOnce ==
    \A t \in Turns : \A op \in SideEffect : ran[t][op] <= 1

(* A transcript ends in unanswered tool calls between turns only if a turn    *)
(* was cut short: at the limit, by a client that left, or by a turn beside   *)
(* it. The model provider refuses such a transcript.                        *)
TranscriptIsClosed ==
    cut = {} /\ overlapped = {} /\ (\A t \in Turns : ~Running(t)) => ~thread.dangling

(* A turn that was started ends: no turn waits for call_lock for ever.       *)
TurnEnds == \A t \in Turns : Running(t) ~> pc[t] = "done"

=============================================================================
