--------------------------- MODULE SessionSettings ---------------------------
(***************************************************************************)
(* The settings of one session: the hash agent:config:{sid} as the routes   *)
(* of api/endpoints/sessions.py write, merge and delete it, and the turns   *)
(* that resolve model, provider and key from it (core/resource_resolver.py, *)
(* llm/client.py). A session can be signed out and go on under its id: what  *)
(* the next customer sends belongs to a new epoch, and a key is the epoch it *)
(* was sent in. The prompt and the effort are merged like the model.        *)
(***************************************************************************)
EXTENDS Naturals

CONSTANTS
    Turns,      \* turns of the session
    MaxEpoch,   \* bound: logouts, plus one
    ServerKeys, \* providers the server has keys of its own for
    ServerKey   \* a key of the server

ASSUME SettingsAssumption ==
    MaxEpoch \in Nat \ {0} /\ ServerKeys \subseteq {"groq", "openrouter"} /\ ServerKey \notin Nat

Providers == {"groq", "openrouter", "nvidia"}
DefaultModel == "openai/gpt"
Models == {DefaultModel, "llama", "nvidia/nemotron"}
Empty == ""
NoKey == 0

VARIABLES
    config, \* the hash; an empty field is read like a missing one
    epoch,  \* history: how often the session was signed out, plus one
    turn    \* turn[t]: what turn t has resolved

settingsVars == <<config, epoch, turn>>

Nothing == [model |-> Empty, provider |-> Empty, key |-> [p \in Providers |-> NoKey]]
NoTurn == [stage |-> "idle", provider |-> Empty, key |-> NoKey, since |-> 0]

(* initialize_session, or an id the client made up.                          *)
SettingsInit ==
    /\ config \in {Nothing, [Nothing EXCEPT !.model = DefaultModel, !.provider = "groq"]}
    /\ epoch = 1
    /\ turn = [t \in Turns |-> NoTurn]

-----------------------------------------------------------------------------
(* The routes *)

(* set_config writes what is not empty; of the NVIDIA key also "", which      *)
(* takes it back.                                                           *)
Merged(model, provider, sent, clears) ==
    [model |-> IF model = Empty THEN config.model ELSE model,
     provider |-> IF provider = Empty THEN config.provider ELSE provider,
     key |-> [p \in Providers |->
                IF p \in sent THEN epoch
                ELSE IF p = "nvidia" /\ clears THEN NoKey ELSE config.key[p]]]

Configure ==
    /\ \E model \in Models \cup {Empty}, provider \in Providers \cup {Empty},
          sent \in SUBSET Providers, clears \in BOOLEAN :
          config' = Merged(model, provider, sent, clears)
    /\ UNCHANGED <<epoch, turn>>

(* Variant: signing out leaves the settings.                                 *)
LogOutKeepsConfig ==
    /\ epoch < MaxEpoch
    /\ epoch' = epoch + 1
    /\ UNCHANGED <<config, turn>>

LogOut ==
    /\ epoch < MaxEpoch
    /\ epoch' = epoch + 1
    /\ config' = Nothing
    /\ UNCHANGED turn

-----------------------------------------------------------------------------
(* resolve_agent_resources *)

InferredProvider(model) ==
    CASE model = "nvidia/nemotron" -> "nvidia"
      [] model = DefaultModel -> "openrouter"
      [] OTHER -> "groq"

(* The default model is not looked at for its provider.                      *)
ResolvedProvider ==
    IF config.provider # Empty THEN config.provider
    ELSE IF config.model # Empty THEN InferredProvider(config.model) ELSE "groq"

(* _require_session_provider_key                                             *)
KeyIsThere(p) == p = "groq" \/ config.key[p] # NoKey

SessionOrServer(p) ==
    IF config.key[p] # NoKey THEN config.key[p]
    ELSE IF p \in ServerKeys THEN ServerKey ELSE NoKey

Becomes(t, stage, key) ==
    turn' = [turn EXCEPT ![t] =
        [stage |-> stage, provider |-> ResolvedProvider, key |-> key, since |-> epoch]]

(* A Groq turn without a key of its session awaits one of the server's.       *)
Resolve(t) ==
    LET p == ResolvedProvider IN
    /\ turn[t].stage = "idle" /\ KeyIsThere(p)
    /\ IF p = "groq" /\ config.key[p] = NoKey
       THEN "groq" \in ServerKeys /\ Becomes(t, "rotating", NoKey)
       ELSE Becomes(t, "running", SessionOrServer(p))
    /\ UNCHANGED <<config, epoch>>

NextKey(t) ==
    /\ turn[t].stage = "rotating"
    /\ turn' = [turn EXCEPT ![t].stage = "running", ![t].key = ServerKey]
    /\ UNCHANGED <<config, epoch>>

(* The turn is over, or failed before the model was asked.                   *)
Finish(t) ==
    /\ turn[t].stage # "idle"
    /\ turn' = [turn EXCEPT ![t] = NoTurn]
    /\ UNCHANGED <<config, epoch>>

SettingsNext ==
    \/ Configure \/ LogOut
    \/ \E t \in Turns : Resolve(t) \/ NextKey(t) \/ Finish(t)

-----------------------------------------------------------------------------
(* "Server fallback is disabled": whatever was configured, taken back and     *)
(* signed out before, a turn asks its provider with a key that was sent for   *)
(* the session since it was last signed out; only Groq's may be the server's. *)
SessionPays ==
    \A t \in Turns : turn[t].stage = "running" =>
        \/ turn[t].key = turn[t].since
        \/ turn[t].key = ServerKey /\ turn[t].provider = "groq"

=============================================================================
