--------------------------- MODULE RequestChecks ---------------------------
(***************************************************************************)
(* What a request has to pass before the agent works on it: the exit list, *)
(* the session's risk engine, the settings its turn is resolved from and    *)
(* the inline guard, in this order. The one hands nothing to the next but   *)
(* the request, and no two share a key, so the system is one of the four    *)
(* checks: which one is chosen at the start.                               *)
(***************************************************************************)
EXTENDS GuardedPrompt, ExitList, SessionRisk, SessionSettings

VARIABLE checking  \* which check this is

checkVars == <<checking, vars, exitVars, riskVars, settingsVars>>

ChecksInit ==
    /\ checking \in {"exits", "risk", "settings", "guard"}
    /\ Init /\ ExitInit /\ RiskInit /\ SettingsInit
    /\ checking # "exits" => published = {}
    /\ checking # "settings" => config = Nothing

GuardStep ==
    /\ checking = "guard" /\ Next
    /\ UNCHANGED <<checking, exitVars, riskVars, settingsVars>>

ExitStep ==
    /\ checking = "exits" /\ ExitNext
    /\ UNCHANGED <<checking, vars, riskVars, settingsVars>>

RiskStep ==
    /\ checking = "risk" /\ RiskNext
    /\ UNCHANGED <<checking, vars, exitVars, settingsVars>>

SettingsStep ==
    /\ checking = "settings" /\ SettingsNext
    /\ UNCHANGED <<checking, vars, exitVars, riskVars>>

ChecksNext == GuardStep \/ ExitStep \/ RiskStep \/ SettingsStep

ChecksSpec == ChecksInit /\ [][ChecksNext]_checkVars

=============================================================================
