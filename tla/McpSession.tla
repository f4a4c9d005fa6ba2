----------------------------- MODULE McpSession -----------------------------
(***************************************************************************)
(* One customer session of the MCP tool server: the JSON blob under the     *)
(* session id in Redis (mcp_service/session_store.py), the tools that read  *)
(* and rewrite it (server.py, auth_api.py, core_api.py), the deletion of    *)
(* the session by the agent service and the one-time download link. Two    *)
(* tools of a session run at once when the customer has two tabs, or when   *)
(* the agent gave up on a call the server is still working on.              *)
(***************************************************************************)
EXTENDS Naturals

CONSTANTS
    Calls,     \* slots: tool calls that may be under way at once
    Phones,    \* the customers' phone numbers
    Loans,     \* loan numbers
    LoansOf,   \* the loans the CRM has for a phone number
    Tickets,   \* download tokens
    Nothing    \* no number, no loan, no link

ASSUME LoansAssumption ==
    /\ LoansOf \in [Phones -> SUBSET Loans]
    /\ Nothing \notin Phones \cup Loans \cup {"own", "excused", "crossed"}

VARIABLES
    session,  \* the blob: phone_number, whose access_token, app_id
    point,    \* point[c]: where call c is suspended
    tool,     \* tool[c]: its name and its argument
    read,     \* read[c]: the blob it has read last
    link,     \* link[t]: whether dl_token:t sends a token with that customer's loan
    login,    \* history: who validated a code last, since the last deletion
    overlap,  \* history: calls overlapped, since a deletion nothing overlapped
    relogin   \* history: one customer logged in over another

slot == <<point, tool, read>>
mcpHistory == <<login, overlap, relogin>>
mcpVars == <<session, slot, link, mcpHistory>>

Empty == [phone |-> Nothing, owner |-> Nothing, app |-> Nothing]
Blobs == [phone : Phones \cup {Nothing}, owner : Phones \cup {Nothing}, app : Loans \cup {Nothing}]

(* Tools that read the blob only, and those that need a customer.           *)
Names == {"generate_otp", "validate_otp", "select_loan", "look", "download", "logout"}
Idle == [name |-> "none", arg |-> Nothing]

Known(blob) == IF blob.owner = Nothing THEN {} ELSE LoansOf[blob.owner]
OwnLoan(blob) == blob.app \in Known(blob) \cup {Nothing}

McpInit ==
    /\ session = Empty
    /\ point = [c \in Calls |-> "idle"]
    /\ tool = [c \in Calls |-> Idle]
    /\ read = [c \in Calls |-> Empty]
    /\ link = [t \in Tickets |-> Nothing]
    /\ login = Nothing /\ overlap = FALSE /\ relogin = FALSE

Overlapped(c) == \E d \in Calls \ {c} : point[d] # "idle"
Moves(c, to) == point' = [point EXCEPT ![c] = to]
Forgotten(c) == read' = [read EXCEPT ![c] = Empty]
Finishes(c) ==
    /\ Moves(c, "idle")
    /\ tool' = [tool EXCEPT ![c] = Idle]
    /\ Forgotten(c)
Reads(c) == read' = [read EXCEPT ![c] = session]
At(c, name, where) == tool[c].name = name /\ point[c] = where

-----------------------------------------------------------------------------
(* Every tool touches the session first: update is a get and a set of the   *)
(* whole blob.                                                              *)

Begin(c) ==
    /\ point[c] = "idle"
    /\ \E name \in Names, arg \in Phones \cup Loans \cup {Nothing} :
          /\ CASE name = "generate_otp" -> arg \in Phones
               [] name = "select_loan"  -> arg \in Loans
               [] OTHER                 -> arg = Nothing
          /\ tool' = [tool EXCEPT ![c] = [name |-> name, arg |-> arg]]
    /\ Reads(c)
    /\ Moves(c, "touched")
    /\ overlap' = (overlap \/ Overlapped(c))
    /\ UNCHANGED <<session, link, login, relogin>>

TouchWrite(c) ==
    /\ point[c] = "touched"
    /\ session' = read[c]
    /\ Moves(c, "run") /\ Forgotten(c)
    /\ UNCHANGED <<tool, link, mcpHistory>>

(* The get of a tool's own update.                                           *)
UpdateRead(c) ==
    /\ \/ At(c, "generate_otp", "run") /\ Moves(c, "set_phone")
       \/ point[c] = "validated" /\ Moves(c, "set_login")
       \/ point[c] = "select" /\ Moves(c, "set_loan")
    /\ Reads(c)
    /\ UNCHANGED <<session, tool, link, mcpHistory>>

-----------------------------------------------------------------------------
(* generate_otp keeps the number, then has the CRM send a code.             *)

(* Variant: the number replaces the blob.                                    *)
StorePhoneAlone(c) ==
    /\ point[c] = "set_phone"
    /\ session' = [Empty EXCEPT !.phone = tool[c].arg]
    /\ Moves(c, "send") /\ Forgotten(c)
    /\ UNCHANGED <<tool, link, mcpHistory>>

StorePhone(c) ==
    /\ point[c] = "set_phone"
    /\ session' = [read[c] EXCEPT !.phone = tool[c].arg]
    /\ Moves(c, "send") /\ Forgotten(c)
    /\ UNCHANGED <<tool, link, mcpHistory>>

SendOtp(c) ==
    /\ point[c] = "send"
    /\ Finishes(c)
    /\ UNCHANGED <<session, link, mcpHistory>>

(* validate_otp reads the number, asks the CRM, and on success updates the  *)
(* blob with the token, the number it has read and the loans; with one loan *)
(* app_id too. The number under check is kept in arg.                       *)
ValidateOtp(c) ==
    /\ At(c, "validate_otp", "run")
    /\ IF session.phone = Nothing THEN Finishes(c)
       ELSE /\ tool' = [tool EXCEPT ![c].arg = session.phone]
            /\ Moves(c, "check")
            /\ UNCHANGED read
    /\ UNCHANGED <<session, link, mcpHistory>>

OtpAccepted(c) ==
    /\ point[c] = "check"
    /\ Moves(c, "validated")
    /\ UNCHANGED <<session, tool, read, link, mcpHistory>>

OtpRefused(c) ==
    /\ point[c] = "check"
    /\ Finishes(c)
    /\ UNCHANGED <<session, link, mcpHistory>>

StoreLogin(c) ==
    LET phone == tool[c].arg IN
    /\ point[c] = "set_login"
    /\ session' = [phone |-> phone, owner |-> phone,
                   app |-> IF \E l \in Loans : LoansOf[phone] = {l}
                           THEN CHOOSE l \in LoansOf[phone] : TRUE ELSE read[c].app]
    /\ login' = phone
    /\ relogin' = (relogin \/ read[c].owner \notin {Nothing, phone})
    /\ Finishes(c)
    /\ UNCHANGED <<link, overlap>>

-----------------------------------------------------------------------------
(* The loans                                                                *)

(* list_loans, is_logged_in and the search look at the blob at most; a tool  *)
(* about a loan reads token and loan at once (_hydrate) and asks the CRM.   *)
Look(c) ==
    /\ At(c, "look", "run")
    /\ Finishes(c)
    /\ UNCHANGED <<session, link, mcpHistory>>

(* Variant: any loan number is taken.                                       *)
SelectAnyLoan(c) ==
    /\ At(c, "select_loan", "run")
    /\ Moves(c, "select") /\ UNCHANGED <<tool, read>>
    /\ UNCHANGED <<session, link, mcpHistory>>

SelectLoan(c) ==
    /\ At(c, "select_loan", "run")
    /\ IF tool[c].arg \in Known(session) THEN Moves(c, "select") /\ UNCHANGED <<tool, read>>
       ELSE Finishes(c)
    /\ UNCHANGED <<session, link, mcpHistory>>

StoreLoan(c) ==
    /\ point[c] = "set_loan"
    /\ session' = [read[c] EXCEPT !.app = tool[c].arg]
    /\ Finishes(c)
    /\ UNCHANGED <<link, mcpHistory>>

Download(c) ==
    /\ At(c, "download", "run")
    /\ IF session.owner = Nothing THEN Finishes(c)
       ELSE Reads(c) /\ Moves(c, "fetch") /\ UNCHANGED tool
    /\ UNCHANGED <<session, link, mcpHistory>>

(* The CRM has the document: a link is stored for ten minutes. If not, the   *)
(* tool writes a letter of its own.                                         *)
IssueLink(c) ==
    /\ point[c] = "fetch"
    /\ \/ \E t \in Tickets :
             /\ link[t] = Nothing
             /\ link' = [link EXCEPT ![t] = IF OwnLoan(read[c]) THEN "own"
                                             ELSE IF overlap \/ relogin THEN "excused"
                                             ELSE "crossed"]
       \/ UNCHANGED link
    /\ Finishes(c)
    /\ UNCHANGED <<session, mcpHistory>>

(* GET and DEL in one MULTI.                                                *)
Redeem ==
    /\ \E t \in Tickets :
          /\ link[t] # Nothing
          /\ link' = [link EXCEPT ![t] = Nothing]
    /\ UNCHANGED <<session, slot, mcpHistory>>

LinkExpires ==
    /\ \E t \in Tickets : link[t] # Nothing /\ link' = [link EXCEPT ![t] = Nothing]
    /\ UNCHANGED <<session, slot, mcpHistory>>

-----------------------------------------------------------------------------
(* The logout tool, and the route that deletes configuration and session.   *)

(* What a deletion forgets; what is still under way may write again.         *)
Forgets(busy) == login' = Nothing /\ overlap' = busy /\ relogin' = FALSE

Logout(c) ==
    /\ At(c, "logout", "run")
    /\ session' = Empty
    /\ Forgets(Overlapped(c))
    /\ Finishes(c)
    /\ UNCHANGED link

DeleteSession ==
    /\ session' = Empty
    /\ Forgets(\E c \in Calls : point[c] # "idle")
    /\ UNCHANGED <<slot, link>>

(* Redis fails or the server stops: the call ends where it is.              *)
CallFails(c) ==
    /\ point[c] # "idle"
    /\ Finishes(c)
    /\ UNCHANGED <<session, link, mcpHistory>>

McpNext ==
    \/ Redeem \/ LinkExpires \/ DeleteSession
    \/ \E c \in Calls :
          \/ Begin(c) \/ TouchWrite(c) \/ UpdateRead(c)
          \/ StorePhone(c) \/ SendOtp(c)
          \/ ValidateOtp(c) \/ OtpAccepted(c) \/ OtpRefused(c) \/ StoreLogin(c)
          \/ Look(c) \/ SelectLoan(c) \/ StoreLoan(c)
          \/ Download(c) \/ IssueLink(c)
          \/ Logout(c) \/ CallFails(c)

McpSpec == McpInit /\ [][McpNext]_mcpVars

-----------------------------------------------------------------------------
(* Properties *)

Places == {"idle", "touched", "run", "set_phone", "send", "check",
           "validated", "set_login", "select", "set_loan", "fetch"}

McpTypeOK ==
    /\ session \in Blobs
    /\ point \in [Calls -> Places]
    /\ read \in [Calls -> Blobs]
    /\ link \in [Tickets -> {"own", "excused", "crossed", Nothing}]
    /\ login \in Phones \cup {Nothing}

(* As long as a session's tools run one after the other, each of which       *)
(* rewrites the whole blob, the session is logged in exactly as the last     *)
(* validate_otp left it: no update loses the token, none survives a logout. *)
LoginIsKept == ~overlap => session.owner = login

(* The active loan is one of the loans of the customer whose token is sent   *)
(* with it, now or by a download link later, unless tools overlapped or      *)
(* another customer logged in on top.                                       *)
LoanIsOwners ==
    /\ ~overlap /\ ~relogin => OwnLoan(session)
    /\ \A t \in Tickets : link[t] # "crossed"

=============================================================================
