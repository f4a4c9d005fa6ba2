---------------------------- MODULE TokenFamily ----------------------------
(***************************************************************************)
(* What a refresh-token family promises its clients, with no store, no     *)
(* WATCH and no race in it: a family is opened once with a first token, a  *)
(* live family exchanges exactly its current token for a token never used  *)
(* before, in one indivisible step, and a family that has been closed      *)
(* (logout, replay, end of its window) stays closed.                       *)
(***************************************************************************)

CONSTANTS
    Families,  \* refresh-token families (one per login)
    Tokens,    \* token identifiers (uuid4 hex)
    NoToken    \* the current token of a family that is not open

VARIABLES
    phase,     \* phase[f]: "unborn", "open" or "closed"
    head,      \* head[f]: the one token the family would accept
    used       \* every token identifier that has ever been minted

familyVars == <<phase, head, used>>

Init ==
    /\ phase = [f \in Families |-> "unborn"]
    /\ head = [f \in Families |-> NoToken]
    /\ used = {}

Open(f, t) ==
    /\ phase[f] = "unborn"
    /\ t \in Tokens \ used
    /\ phase' = [phase EXCEPT ![f] = "open"]
    /\ head' = [head EXCEPT ![f] = t]
    /\ used' = used \cup {t}

Exchange(f, t) ==
    /\ phase[f] = "open"
    /\ t \in Tokens \ used
    /\ head' = [head EXCEPT ![f] = t]
    /\ used' = used \cup {t}
    /\ UNCHANGED phase

(* Several families may reach the end of their window at the same instant.  *)
Close(S) ==
    /\ \A f \in S : phase[f] = "open"
    /\ phase' = [f \in Families |-> IF f \in S THEN "closed" ELSE phase[f]]
    /\ head' = [f \in Families |-> IF f \in S THEN NoToken ELSE head[f]]
    /\ UNCHANGED used

Next ==
    \/ \E f \in Families, t \in Tokens : Open(f, t) \/ Exchange(f, t)
    \/ \E S \in SUBSET Families : Close(S)

Spec == Init /\ [][Next]_familyVars

=============================================================================
