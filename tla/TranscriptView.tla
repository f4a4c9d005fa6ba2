--------------------------- MODULE TranscriptView ---------------------------
(***************************************************************************)
(* What the admin console shows of a session (api/admin_analytics/          *)
(* traces.py): one bubble per turn, made of the messages the turn left in    *)
(* the checkpointer, with its tool outputs, its text and the trace it was     *)
(* stamped with. The writers are those of ToolTurn at the grain of a        *)
(* message: each turn writes back the transcript it carries, and the stream  *)
(* stamps the last answer it finds.                                         *)
(***************************************************************************)
EXTENDS ToolTurn

CONSTANTS
    Hops,      \* iterations with tool calls
    CallsAHop  \* bound: tool calls in one message

ASSUME ViewAssumption == Hops \in Nat /\ CallsAHop \in Nat

VARIABLES
    at,       \* at[t]: where turn t is
    hop,      \* hop[t]: iterations it has begun
    carried,  \* carried[t]: the transcript as the turn carries it
    saved,    \* the latest checkpoint's messages
    target,   \* target[t]: the message about to be stamped
    beside    \* history: turns that ran beside another

viewVars == <<at, hop, carried, saved, target, beside>>

(* calls: the tool calls an AI message asks for, or the one a tool answers;   *)
(* with turn and hop they are the tool_call_id. text: has content.          *)
Message(t, kind, ks, text) ==
    [turn |-> t, kind |-> kind, hop |-> hop[t], calls |-> ks, text |-> text, trace |-> None]

ViewInit ==
    /\ at = [t \in Turns |-> "new"]
    /\ hop = [t \in Turns |-> 0]
    /\ carried = [t \in Turns |-> <<>>]
    /\ saved = <<>>
    /\ target = [t \in Turns |-> 0]
    /\ beside = {}

UnderWay(t) == at[t] \notin {"new", "over"}

Writes(t, messages, to) ==
    /\ carried' = [carried EXCEPT ![t] = messages]
    /\ saved' = messages
    /\ at' = [at EXCEPT ![t] = to]
    /\ UNCHANGED target

Question(t) ==
    /\ at[t] = "new"
    /\ Writes(t, Append(saved, Message(t, "human", {}, TRUE)), "model")
    /\ LET others == {u \in Turns \ {t} : UnderWay(u)} IN
       beside' = beside \cup (IF others = {} THEN {} ELSE others \cup {t})
    /\ UNCHANGED hop

FinalAnswer(t) ==
    /\ at[t] = "model"
    /\ Writes(t, Append(carried[t], Message(t, "ai", {}, TRUE)), "answered")
    /\ UNCHANGED <<hop, beside>>

(* A message with tool calls, perhaps with text; the last one allowed stays  *)
(* unanswered.                                                              *)
AskTools(t) ==
    /\ at[t] = "model"
    /\ \E n \in 1..CallsAHop, text \in BOOLEAN :
          Writes(t, Append(carried[t], Message(t, "ai", 1..n, text)),
                 IF hop[t] = Hops THEN "answered" ELSE "tools")
    /\ UNCHANGED <<hop, beside>>

ToolsAnswer(t) ==
    /\ at[t] = "tools"
    /\ LET asked == carried[t][Len(carried[t])].calls IN
       Writes(t, carried[t] \o [k \in asked |-> Message(t, "tool", {k}, TRUE)], "model")
    /\ hop' = [hop EXCEPT ![t] = @ + 1]
    /\ UNCHANGED beside

EndsTurn(t) ==
    /\ at' = [at EXCEPT ![t] = "over"]
    /\ carried' = [carried EXCEPT ![t] = <<>>]
    /\ target' = [target EXCEPT ![t] = 0]
    /\ hop' = [hop EXCEPT ![t] = 0]

(* The graph fails or the client leaves; the plain query stamps nothing.     *)
LeaveOff(t) ==
    /\ UnderWay(t)
    /\ EndsTurn(t)
    /\ UNCHANGED <<saved, beside>>

(* The stream notices that its client is gone, and goes on to the stamping.  *)
BreakOff(t) ==
    /\ at[t] \in {"model", "tools"}
    /\ at' = [at EXCEPT ![t] = "answered"]
    /\ UNCHANGED <<hop, carried, saved, target, beside>>

FindAnswer(t) ==
    /\ at[t] = "answered"
    /\ saved[Len(saved)].kind = "ai"
    /\ at' = [at EXCEPT ![t] = "stamping"]
    /\ target' = [target EXCEPT ![t] = [saved[Len(saved)] EXCEPT !.trace = t,
                     !.text = \E i \in DOMAIN carried[t] :
                                carried[t][i].turn = t /\ carried[t][i].kind = "ai" /\ carried[t][i].text]]
    /\ UNCHANGED <<hop, carried, saved, beside>>

Same(m, n) == m.kind = n.kind /\ m.turn = n.turn /\ m.hop = n.hop

(* add_messages: the message with this id is replaced, or it is appended.    *)
StampAnswer(t) ==
    /\ at[t] = "stamping"
    /\ saved' = IF \E i \in DOMAIN saved : Same(saved[i], target[t])
                THEN [i \in DOMAIN saved |-> IF Same(saved[i], target[t]) THEN target[t] ELSE saved[i]]
                ELSE Append(saved, target[t])
    /\ EndsTurn(t)
    /\ UNCHANGED beside

ViewNext ==
    \E t \in Turns :
        \/ Question(t) \/ FinalAnswer(t) \/ AskTools(t) \/ ToolsAnswer(t)
        \/ LeaveOff(t) \/ BreakOff(t) \/ FindAnswer(t) \/ StampAnswer(t)

-----------------------------------------------------------------------------
(* session_traces. The items that are kept, by their number in the            *)
(* checkpoint: the assistant's, the user's, and the tools' which are skipped. *)

Assistants == {i \in DOMAIN saved : saved[i].kind = "ai"}
Questions == {i \in DOMAIN saved : saved[i].kind = "human"}
Outputs == {i \in DOMAIN saved : saved[i].kind = "tool"}

LastOf(S) == CHOOSE i \in S : \A j \in S : j <= i

(* _build_tool_call_lookup: the outputs of the calls message i asks for.     *)
OutputsOf(i) ==
    {j \in Outputs : /\ saved[j].turn = saved[i].turn /\ saved[j].hop = saved[i].hop
                     /\ saved[j].calls \cap saved[i].calls # {}}

(* The run of assistant items around i, which ends at the user's.           *)
RunOf(i) ==
    {j \in Assistants : \A q \in Questions : ~(i < q /\ q < j) /\ ~(j < q /\ q < i)}

(* _flush: the run's last item with text is its answer, or its last item;    *)
(* each item's outputs are listed after those of the items before it.        *)
Flush(run) ==
    LET texts == {i \in run : saved[i].text}
        answer == LastOf(IF texts = {} THEN run ELSE texts) IN
    [id |-> answer, trace |-> saved[answer].trace, turns |-> {saved[i].turn : i \in run},
     outputs |-> UNION {{i} \X OutputsOf(i) : i \in run}]

(* _collapse_assistant_run: the bubbles; the user's items pass untouched.    *)
SessionView == {Flush(RunOf(i)) : i \in Assistants}

(* Variant: the session's first question.                                    *)
QuestionOfFirst(idx) == CHOOSE i \in Questions : \A j \in Questions : i <= j

(* _checkpoint_trace_detail: the last question before the message.           *)
QuestionOf(idx) == LastOf({i \in Questions : i < idx})

-----------------------------------------------------------------------------
(* Properties *)

(* "Exactly one bubble per logical turn", if none ran beside it: it shows     *)
(* every tool output of the turn once, in the order they came, and the trace *)
(* and question of the turn, whichever hops had text.                       *)
OneBubblePerTurn ==
    \A t \in Turns \ beside :
        LET own(i) == saved[i].turn = t IN
        (\E i \in Assistants : own(i)) =>
            \E bubble \in SessionView :
                /\ \A other \in SessionView : t \in other.turns => other = bubble
                /\ bubble.turns = {t}
                /\ {p[2] : p \in bubble.outputs} = {j \in Outputs : own(j)}
                /\ \A p, q \in bubble.outputs : p[2] = q[2] => p = q
                /\ \A p, q \in bubble.outputs : p[1] < q[1] => p[2] < q[2]
                /\ (\E i \in DOMAIN saved : own(i) /\ saved[i].trace = t) => bubble.trace = t
                /\ own(QuestionOf(bubble.id))

=============================================================================
