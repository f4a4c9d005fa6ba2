------------------------------ MODULE ChatTurn ------------------------------
(***************************************************************************)
(* A chat session's turns, what the console shows of them, and the          *)
(* classification beside them. The view reads what the turns leave in the   *)
(* checkpointer, at the grain of a message; the classification shares only  *)
(* the question. None writes what another reads, so the system is one of    *)
(* the three: which one is chosen at the start.                             *)
(***************************************************************************)
EXTENDS TranscriptView, QueryRouter

VARIABLE looking  \* which part this is

chatVars == <<looking, vars, viewVars, routerVars>>

ChatInit ==
    /\ looking \in {"turns", "view", "router"}
    /\ Init /\ ViewInit /\ RouterInit
    /\ looking # "router" => stored = {}

TurnStep ==
    /\ looking = "turns" /\ Next
    /\ UNCHANGED <<looking, viewVars, routerVars>>

ViewStep ==
    /\ looking = "view" /\ ViewNext
    /\ UNCHANGED <<looking, vars, routerVars>>

RouterStep ==
    /\ looking = "router" /\ RouterNext
    /\ UNCHANGED <<looking, vars, viewVars>>

ChatNext == TurnStep \/ ViewStep \/ RouterStep

(* The model, the tool server and Redis answer or time out.                 *)
ChatSpec ==
    /\ ChatInit /\ [][ChatNext]_chatVars
    /\ \A t \in Turns : WF_vars(looking = "turns" /\ Step(t))

=============================================================================
