------------------------------ MODULE MockBank ------------------------------
(***************************************************************************)
(* The back office replay is tried on (apps/mock_bank): a frameset whose   *)
(* content frame shows one page after another, served by handlers that     *)
(* share one guard, with faults that are armed from outside and used up by *)
(* the requests they fail.                                                 *)
(*                                                                         *)
(* A request is answered, and its page shown, at any time after it was     *)
(* made; until then the frame shows, and lets be used, what it did before. *)
(***************************************************************************)
EXTENDS Integers, Screens

CONSTANTS Members,      \* the member numbers people ask about
          Account,      \* [Members -> what is on file]
          Printed,      \* [Members -> the balance, status and reference pages print]
          Counts,       \* how often a fault may be armed to trigger; -1 is for ever
          Nobody        \* no member

Faults == {"transient_load", "session_timeout", "undeclared_dialog", "validation_error"}

ASSUME BankAssumption ==
  /\ Account \in [Members -> {"savings", "checking_only", "restricted", "not_on_file"}]
  /\ Counts \subseteq Int
  /\ Nobody \notin Members
  /\ NoText \notin Members

(* What screens are told apart by; no page prints one of these as a value, *)
(* but a value may be blank.                                               *)
Wording ==
  {"Savings_Balance", "No_records_found", "not_authorized", "No_savings_account_on_file",
   "below_the_minimum_required"}

AsOf == "09/11/2026"

ASSUME PrintedAssumption ==
  /\ \A m \in Members :
       Wording \cap {Printed[m].balance, Printed[m].status, Printed[m].reference} = {}
  /\ AsOf # NoText

VARIABLES session,   \* the browser holds the session cookie
          armed,     \* [Faults -> triggers left]
          request,   \* the content frame's request that is not answered yet
          content,   \* the document in the content frame
          failing,   \* urls whose last answer, since the shell was loaded, was an error
          opened     \* sub-account requests recorded for the run at hand

bank == <<session, armed, request, content, failing, opened>>

(* What a form may be sent with: a field name to a text.                   *)
Fields(page) ==
  CASE page \in {"sign_on", "refused"} -> {"Operator_ID", "Password"}
    [] page \in {"search", "search_again"} -> {"Member_Number"}
    [] page \in {"form", "form_again", "rejected"} -> {"Account_Type", "Initial_Deposit"}
    [] OTHER -> {}

Document(page, member) ==
  [page |-> page, about |-> member, fields |-> [f \in Fields(page) |-> NoText]]

Blank == Document("none", Nobody)

Request(to, member, fields) == [to |-> to, about |-> member, fields |-> fields]

NoRequest == Request("none", Nobody, <<>>)
Get(to, member) == Request(to, member, <<>>)

Url(r) ==
  CASE r.to \in {"GET_login", "POST_login"}   -> "/login"
    [] r.to \in {"GET_search", "POST_search"} -> "/search"
    [] r.to \in {"GET_form", "POST_form"}     -> "/member/new-subaccount"
    [] OTHER -> "/member"

-----------------------------------------------------------------------------
(* The templates.  Pages one click apart differ in their number of nodes.  *)
Label(text)        == Node("cell", text, NoText, NoText)
Entry(label, text) == Node("cell", text, NoText, label)
Link(text)         == Node("link", text, NoText, NoText)
Button(text)       == Node("button", text, NoText, NoText)
SignOff            == Link("Sign_Off")

Nodes(d) ==
  CASE d.page \in {"sign_on", "refused"} ->
         {Node("textbox", f, d.fields[f], f) : f \in Fields(d.page)}
         \cup {Button("Sign_On")}
         \cup (IF d.page = "refused" THEN {Label("Invalid_operator_ID_or_password")} ELSE {})
    [] d.page \in {"search", "search_again"} ->
         {SignOff, Node("textbox", "Member_Number", d.fields["Member_Number"], "Member_Number"),
          Button("Search"), Label("Seeded_members")}
         \cup (IF d.page = "search_again" THEN {Label("Member_number_is_required")} ELSE {})
    [] d.page = "not_found" -> {SignOff, Label("No_records_found"), Link("Return_to_search")}
    [] d.page = "denied"    -> {SignOff, Label("not_authorized"), Link("Return_to_search")}
    [] d.page = "record"    ->
         {SignOff, Label("Accounts_Overview"), Label("Status"), Label("Checking"),
          Link("Open_Sub-Account")}
         \cup (IF Account[d.about] = "savings"
               THEN {Label("Savings_Balance"), Entry("Savings_Balance", Printed[d.about].balance),
                     Entry("Status", Printed[d.about].status),
                     Label("As_Of"), Entry("As_Of", AsOf)}
               ELSE {Label("No_savings_account_on_file")})
    [] d.page \in {"form", "form_again", "rejected"} ->
         {SignOff, Label("Account_Type"), Label("Initial_Deposit"),
          Node("combobox", NoText, d.fields["Account_Type"], "Account_Type"),
          Node("textbox", NoText, d.fields["Initial_Deposit"], "Initial_Deposit"),
          Button("Open_Account"), Link("Cancel")}
         \cup (CASE d.page = "rejected"   -> {Label("below_the_minimum_required")}
                 [] d.page = "form_again" -> {Label("Initial_deposit_is_required")}
                 [] OTHER -> {})
    [] d.page = "confirmation" ->
         {SignOff, Label("Reference"), Entry("Reference", Printed[d.about].reference)}
    [] d.page = "notice"      -> {Label("System_Notice"), Button("Continue")}
    [] d.page = "unavailable" -> {Label("Service_Temporarily_Unavailable")}
    [] d.page = "none"        -> {}

(* The driver's _last_status: an error in any frame wins.                  *)
LastStatus == IF failing = {} THEN 200 ELSE 502

Screen == [url |-> "/", status |-> LastStatus, nodes |-> Nodes(content)]

-----------------------------------------------------------------------------
Triggers(fault) == armed[fault] # 0

Consume(fault) == armed' = [armed EXCEPT ![fault] = IF @ > 0 THEN @ - 1 ELSE @]

Arm(fault, count) ==
  /\ armed' = [armed EXCEPT ![fault] = count]
  /\ UNCHANGED <<session, request, content, failing, opened>>

Shows(document) ==
  /\ request' = NoRequest
  /\ content' = document
  /\ failing' = failing \ {Url(request)}

Redirects(r) ==
  /\ request' = r
  /\ failing' = failing \ {Url(request)}
  /\ UNCHANGED content

(* The shell: index, and what reloading it comes to, for its content frame *)
(* begins again at its src.                                                *)
ShowsShell ==
  /\ content' = Blank
  /\ failing' = {}
  /\ request' = Get(IF session THEN "GET_search" ELSE "GET_login", Nobody)

LoadShell == ShowsShell /\ UNCHANGED <<session, armed, opened>>

(* guard.                                                                  *)
Guarded == request.to \notin {"none", "GET_login", "POST_login"}

Unavailable ==
  /\ Guarded /\ Triggers("transient_load")
  /\ Consume("transient_load")
  /\ request' = NoRequest
  /\ content' = Document("unavailable", Nobody)
  /\ failing' = failing \cup {Url(request)}
  /\ UNCHANGED <<session, opened>>

SessionExpires ==
  /\ Guarded /\ ~Triggers("transient_load") /\ Triggers("session_timeout")
  /\ Consume("session_timeout")
  /\ session' = FALSE
  /\ Redirects(Get("GET_login", Nobody))
  /\ UNCHANGED opened

NotSignedOn ==
  /\ Guarded /\ ~Triggers("transient_load") /\ ~Triggers("session_timeout") /\ ~session
  /\ Redirects(Get("GET_login", Nobody))
  /\ UNCHANGED <<session, armed, opened>>

Notice ==
  /\ Guarded /\ ~Triggers("transient_load") /\ ~Triggers("session_timeout") /\ session
  /\ Triggers("undeclared_dialog")
  /\ Consume("undeclared_dialog")
  /\ Shows(Document("notice", Nobody))
  /\ UNCHANGED <<session, opened>>

Passed(to) ==
  /\ request.to = to /\ session
  /\ \A fault \in {"transient_load", "session_timeout", "undeclared_dialog"} : ~Triggers(fault)

(* The handlers.                                                           *)
LoginForm ==
  /\ request.to = "GET_login"
  /\ Shows(Document("sign_on", Nobody))
  /\ UNCHANGED <<session, armed, opened>>

LoginSubmit ==
  /\ request.to = "POST_login"
  /\ IF \A f \in DOMAIN request.fields : request.fields[f] = "valid"
       THEN session' = TRUE /\ Redirects(Get("GET_search", Nobody))
       ELSE Shows(Document("refused", Nobody)) /\ UNCHANGED session
  /\ UNCHANGED <<armed, opened>>

SearchForm ==
  /\ Passed("GET_search")
  /\ Shows(Document("search", Nobody))
  /\ UNCHANGED <<session, armed, opened>>

(* A member no record is of, or whose record the operator may not see.     *)
Withheld(member) ==
  IF Account[member] = "not_on_file" THEN Document("not_found", member)
  ELSE Document("denied", Nobody)

Reachable(member) == Account[member] \in {"savings", "checking_only"}

SearchSubmit ==
  /\ Passed("POST_search")
  /\ LET asked == request.fields["Member_Number"]
     IN  IF asked = NoText THEN Shows(Document("search_again", Nobody))
         ELSE IF Reachable(asked) THEN Redirects(Get("GET_member", asked))
         ELSE Shows(Withheld(asked))
  /\ UNCHANGED <<session, armed, opened>>

(* The record, and the form from the record: both withheld alike.          *)
MemberPage(to, page) ==
  /\ Passed(to)
  /\ Shows(IF Reachable(request.about) THEN Document(page, request.about)
           ELSE Withheld(request.about))
  /\ UNCHANGED <<session, armed, opened>>

(* subaccount_submit.                                                      *)
SubaccountSubmit ==
  /\ Passed("POST_form")
  /\ LET filled == \A f \in DOMAIN request.fields : request.fields[f] # NoText
     IN  IF ~Reachable(request.about)
           THEN Shows(Withheld(request.about)) /\ UNCHANGED <<armed, opened>>
         ELSE IF Triggers("validation_error")
           THEN /\ Consume("validation_error")
                /\ Shows(Document("rejected", request.about))
                /\ UNCHANGED opened
         ELSE /\ IF filled
                   THEN Shows(Document("confirmation", request.about)) /\ opened' = opened + 1
                   ELSE Shows(Document("form_again", request.about)) /\ UNCHANGED opened
              /\ UNCHANGED armed
  /\ UNCHANGED session

Serve ==
  \/ Unavailable \/ SessionExpires \/ NotSignedOn \/ Notice
  \/ LoginForm \/ LoginSubmit \/ SearchForm \/ SearchSubmit
  \/ MemberPage("GET_member", "record")
  \/ MemberPage("GET_form", "form")
  \/ SubaccountSubmit

-----------------------------------------------------------------------------
(* What using a control of the document in the frame does.                 *)
Fill(label, text) ==
  /\ content' = [content EXCEPT !.fields[label] = text]
  /\ UNCHANGED <<session, armed, request, failing, opened>>

Press(button) ==
  /\ request' =
       CASE button = "Sign_On"          -> Request("POST_login", Nobody, content.fields)
         [] button = "Search"           -> Request("POST_search", Nobody, content.fields)
         [] button = "Open_Sub-Account" -> Get("GET_form", content.about)
         [] button = "Open_Account"     -> Request("POST_form", content.about, content.fields)
  /\ UNCHANGED <<session, armed, content, failing, opened>>
=============================================================================
