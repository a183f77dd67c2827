-------------------------- MODULE FaultMatrixProofs --------------------------
(***************************************************************************)
(* Whatever fails and however long pages take, a run of a reference        *)
(* capability tells the truth about its member or that it does not know.   *)
(*                                                                         *)
(* The argument: replay only goes on when the page it acted on has been    *)
(* answered (NoneInFlight), so that what it presses is on the page that is *)
(* there; every page that tells something of a member is about the one the *)
(* run was asked about (ContentTells), since every request is              *)
(* (RequestTells); and what is behind the run has been read from such a    *)
(* page (ReadSoFar) and has been sent once (OpenedOnce).                   *)
(*                                                                         *)
(* A look-up with one fault armed, or none, also ends as the documented    *)
(* matrix says: it goes through known stages (Tracked), each step takes it *)
(* from one to one (Onward), and the last step of each ends it as it must  *)
(* (Owed).  For this the pages have to be counted: a navigation is noticed *)
(* by the number of nodes, so that "the answer is there" means a page of   *)
(* another size, and what a predicate finds there is exactly one node.     *)
(***************************************************************************)
EXTENDS FaultMatrix, FiniteSetTheorems, TLAPS

SearchPages == {"search", "search_again"}
FormPages   == {"form", "form_again", "rejected"}
SignOnPages == {"sign_on", "refused"}
Pages == SearchPages \cup FormPages \cup SignOnPages
         \cup {"not_found", "denied", "record", "confirmation", "notice", "unavailable", "none"}

Balances   == {"savings_balance", "attentive_balance", "compiled_balance"}
Recovering == {"savings_balance", "attentive_balance"}

LastStep == IF task.capability = "open_subaccount" THEN 7 ELSE 5

Base == stack[1]

Frames == [index : 1 .. 8, attempts : Nat]

(* The step k of the run has been taken: it is before the one the run is   *)
(* at, or it is that one and its wait is on.                               *)
Behind(k) == Base.index > k \/ (Base.index = k /\ ~Nested /\ at = "wait")

-----------------------------------------------------------------------------
(* What is run, for whom, and that nothing is told before the end.         *)
Asked ==
  /\ task = [capability |-> task.capability, inputs |-> InputsFor(task.capability, On),
             valid |-> task.valid, session |-> task.session, armed |-> task.armed]
  /\ task.capability \in Balances \cup {"open_subaccount"}
  /\ at # "over" => On \in Members /\ result = NoResult
  /\ at = "over" => outputs = {}

(* Where a run can be; a remedy's capability only runs within those that   *)
(* declare one.                                                            *)
Located ==
  /\ at \in {"over", "load", "look", "act", "wait"}
  /\ stack \in Seq(Frames)
  /\ Len(stack) \in {1, 2}
  /\ Base.index <= LastStep + 1
  /\ at \in {"act", "wait"} /\ ~Nested => Base.index <= LastStep
  /\ Nested => /\ at \in {"look", "act", "wait"}
               /\ task.capability \in Recovering
               /\ Base.index <= LastStep
               /\ Top.index <= 4
               /\ at \in {"act", "wait"} => Top.index <= 3
  /\ at = "over" => stack = <<Frame>>

(* The page in the frame, and what it can say.                             *)
ContentTells ==
  /\ content = [page |-> content.page, about |-> content.about, fields |-> content.fields]
  /\ content.fields = [f \in Fields(content.page) |-> content.fields[f]]
  /\ content.page \in Pages
  /\ content.page \in {"record", "confirmation"} \cup FormPages =>
       On \in Members /\ content.about = On /\ Reachable(On)
  /\ content.page = "not_found" => Account[On] = "not_on_file"
  /\ content.page = "denied" => Account[On] = "restricted"
  /\ content.page \in SearchPages => content.fields["Member_Number"] \in {NoText, On}

(* The request under way, and what it asks for.                            *)
RequestTells ==
  /\ request.to = "none" => request = NoRequest
  /\ request.to \in {"none", "GET_login", "POST_login", "GET_search", "POST_search",
                     "GET_member", "GET_form", "POST_form"}
  /\ request # NoRequest => On \in Members
  /\ request.to \in {"GET_member", "GET_form", "POST_form"} =>
       request.about = On /\ Reachable(On)
  /\ request.to = "POST_search" => request.fields["Member_Number"] \in {NoText, On}

(* No step is begun while a request is under way, and none is over.        *)
NoneInFlight ==
  /\ at \in {"look", "act"} => request = NoRequest
  /\ at \in {"act", "wait"} => held.url = "/"
  /\ at = "act" => held.nodes = Nodes(content)
  /\ at = "wait" /\ request # NoRequest =>
       /\ Step.does = "click"
       /\ held.nodes = Nodes(content)
       /\ Step.target.is = "Search" => content.page \in SearchPages

(* What has been read is the member's and no blank, and all that is behind *)
(* was read.                                                               *)
ReadSoFar ==
  /\ at # "over" => outputs \subseteq Full /\ NoText \notin outputs
  /\ task.capability \in Balances =>
       /\ Behind(3) => Printed[On].balance \in outputs /\ Account[On] = "savings"
       /\ Behind(4) => Printed[On].status \in outputs
       /\ Behind(5) => AsOf \in outputs
  /\ task.capability = "open_subaccount" =>
       /\ Base.index > 3 \/ (Base.index = 3 /\ at \in {"act", "wait"}) => Account[On] = "savings"
       /\ Behind(7) => Printed[On].reference \in outputs /\ opened = 1

(* A sub-account is asked for once, and leaves no page behind that denies  *)
(* it.                                                                     *)
OpenedOnce ==
  /\ opened \in {0, 1}
  /\ opened = 1 => /\ task.capability = "open_subaccount"
                   /\ content.page \in {"confirmation", "none", "search", "sign_on", "unavailable",
                                        "notice"}
                   /\ request.to \in {"none", "GET_search", "GET_login"}
                   /\ at # "over" => Behind(6)
  /\ request.to = "POST_form" => /\ task.capability = "open_subaccount"
                                 /\ opened = 0
                                 /\ at # "over" => Behind(6)
  /\ content.page = "confirmation" => opened = 1

(* What the caller was told, once nothing can change it any more.          *)
Told ==
  /\ result.status \in {"success", "business_outcome"} =>
       at = "over" /\ request = NoRequest
  /\ TheTruthOrNothing

Inv == Asked /\ Located /\ ContentTells /\ RequestTells /\ NoneInFlight /\ ReadSoFar /\ OpenedOnce /\ Told

-----------------------------------------------------------------------------
(* The documents, step by step: what is done to what, and waited for.      *)
Doing(step, does, target, wait) ==
  step.does = does /\ step.target = target /\ step.wait = wait

LEMMA SavingsBalanceSteps ==
  ASSUME NEW wait
  PROVE  /\ Len(SavingsBalance(wait).steps) = 5
         /\ Doing(SavingsBalance(wait).steps[1], "type", Named("textbox", "Member_Number"), Stable)
         /\ SavingsBalance(wait).steps[1].value = Input("member_id")
         /\ Doing(SavingsBalance(wait).steps[2], "click", Named("button", "Search"), wait)
         /\ Doing(SavingsBalance(wait).steps[3], "extract", Beside("cell", "Savings_Balance"), Stable)
         /\ Doing(SavingsBalance(wait).steps[4], "extract", Beside("cell", "Status"), Stable)
         /\ Doing(SavingsBalance(wait).steps[5], "extract", Beside("cell", "As_Of"), Stable)
<1> DEFINE steps == SavingsBalance(wait).steps
<1>1. steps = <<Then(MemberAsked, MemberEntered), Submitted(wait), Shown("Savings_Balance"),
                Shown("Status"), Shown("As_Of")>>
  BY DEF SavingsBalance
<1>2. \A label : Doing(Shown(label), "extract", Beside("cell", label), Stable)
  BY SMT DEF Shown, Given, Read, Do, Doing
<1>3. Doing(Submitted(wait), "click", Named("button", "Search"), wait)
  BY SMT DEF Submitted, Then, Submit, Do, Doing
<1>4. Doing(MemberAsked, "type", Named("textbox", "Member_Number"), Stable)
      /\ MemberAsked.value = Input("member_id")
      /\ DOMAIN MemberAsked = DOMAIN EnterMember
  BY SMT DEF MemberAsked, Given, EnterMember, Do, Doing
<1>5. Doing(Then(MemberAsked, MemberEntered), "type", Named("textbox", "Member_Number"), Stable)
      /\ Then(MemberAsked, MemberEntered).value = Input("member_id")
  BY <1>4, SMT DEF MemberAsked, Then, Given, EnterMember, Do, Doing
<1> HIDE DEF steps
<1>6. Len(steps) = 5 /\ steps[1] = Then(MemberAsked, MemberEntered) /\ steps[2] = Submitted(wait)
      /\ steps[3] = Shown("Savings_Balance") /\ steps[4] = Shown("Status")
      /\ steps[5] = Shown("As_Of")
  BY <1>1, SMT
<1> QED
  BY <1>2, <1>3, <1>5, <1>6 DEF steps

LEMMA CompiledBalanceSteps ==
  /\ Len(CompiledBalance.steps) = 5
  /\ Doing(CompiledBalance.steps[1], "type", Named("textbox", "Member_Number"), Stable)
  /\ CompiledBalance.steps[1].value = Input("member_id")
  /\ Doing(CompiledBalance.steps[2], "click", Named("button", "Search"), Navigation)
  /\ Doing(CompiledBalance.steps[3], "extract", Beside("cell", "Savings_Balance"), Stable)
  /\ Doing(CompiledBalance.steps[4], "extract", Beside("cell", "Status"), Stable)
  /\ Doing(CompiledBalance.steps[5], "extract", Named("cell", AsOf), Stable)
BY SMTT(30) DEF CompiledBalance, Doing, EnterMember, Submit, Read, ReadText, Do

LEMMA OpenSubaccountSteps ==
  /\ Len(OpenSubaccount.steps) = 7
  /\ Doing(OpenSubaccount.steps[1], "type", Named("textbox", "Member_Number"), Stable)
  /\ OpenSubaccount.steps[1].value = Input("member_id")
  /\ Doing(OpenSubaccount.steps[2], "click", Named("button", "Search"), Navigation)
  /\ Doing(OpenSubaccount.steps[3], "click", Named("link", "Open_Sub-Account"), Navigation)
  /\ OpenSubaccount.steps[3].precondition = Exists("cell", "Savings_Balance")
  /\ Doing(OpenSubaccount.steps[4], "select", Beside("combobox", "Account_Type"), Stable)
  /\ Doing(OpenSubaccount.steps[5], "type", Beside("textbox", "Initial_Deposit"), Stable)
  /\ Doing(OpenSubaccount.steps[6], "click", Named("button", "Open_Account"), Navigation)
  /\ Doing(OpenSubaccount.steps[7], "extract", Beside("cell", "Reference"), Stable)
BY SMTT(30) DEF OpenSubaccount, Doing, MemberAsked, Submitted, Shown, Given, Then, EnterMember, Submit,
  Read, Do

LEMMA SignOnSteps ==
  /\ Len(SignOn.steps) = 3
  /\ Doing(SignOn.steps[1], "type", Named("textbox", "Operator_ID"), Stable)
  /\ Doing(SignOn.steps[2], "type", Named("textbox", "Password"), Stable)
  /\ Doing(SignOn.steps[3], "click", Named("button", "Sign_On"), Navigation)
BY SMTT(30) DEF SignOn, Doing, EnterSecret, Given, Do

-----------------------------------------------------------------------------
(* The stack: the run below, and whatever runs on top.                     *)
LEMMA Stacked ==
  ASSUME Located
  PROVE  /\ Base \in Frames /\ Base.index \in 1 .. 8
         /\ Top \in Frames /\ Top.index \in 1 .. 8
         /\ ~Nested => Top = Base /\ Len(stack) = 1
         /\ Nested => Top = stack[2] /\ Len(stack) = 2
<1>1. /\ Base \in Frames
      /\ Top \in Frames
      /\ ~Nested => Top = Base /\ Len(stack) = 1
      /\ Nested => Top = stack[2] /\ Len(stack) = 2
  BY DEF Located, Base, Top, Nested
<1> QED
  BY <1>1 DEF Frames

(* Taking the next step, or trying again, changes the top only.            *)
LEMMA Turned ==
  ASSUME stack \in Seq(Frames), Len(stack) \in {1, 2},
         NEW frame \in Frames, Turns(frame)
  PROVE  /\ stack' \in Seq(Frames)
         /\ Len(stack') = Len(stack)
         /\ stack'[Len(stack)] = frame
         /\ Len(stack) = 2 => stack'[1] = stack[1]
BY DEF Turns

(* The step a run is at, whenever it acts or waits.                        *)
SearchesAt ==
  /\ ~Nested /\ Base.index = 2
  /\ Step.does = "click" /\ Step.target = Named("button", "Search")
  /\ Step.wait \in {Navigation, Attentively}

ReadsAt(k, target) == ~Nested /\ Base.index = k /\ Doing(Step, "extract", target, Stable)

BalanceStep ==
  /\ task.capability \in Balances
  /\ \/ ReadsAt(3, Beside("cell", "Savings_Balance"))
     \/ ReadsAt(4, Beside("cell", "Status"))
     \/ ReadsAt(5, Beside("cell", "As_Of"))
     \/ ReadsAt(5, Named("cell", AsOf))

SubaccountStep ==
  /\ task.capability = "open_subaccount" /\ ~Nested
  /\ \/ Base.index = 3 /\ Doing(Step, "click", Named("link", "Open_Sub-Account"), Navigation)
     \/ Base.index = 4 /\ Doing(Step, "select", Beside("combobox", "Account_Type"), Stable)
     \/ Base.index = 5 /\ Doing(Step, "type", Beside("textbox", "Initial_Deposit"), Stable)
     \/ Base.index = 6 /\ Doing(Step, "click", Named("button", "Open_Account"), Navigation)
     \/ ReadsAt(7, Beside("cell", "Reference"))

SignOnStep ==
  /\ Nested
  /\ \/ Doing(Step, "type", Named("textbox", "Operator_ID"), Stable)
     \/ Doing(Step, "type", Named("textbox", "Password"), Stable)
     \/ Doing(Step, "click", Named("button", "Sign_On"), Navigation)

EntersAt ==
  /\ ~Nested /\ Base.index = 1
  /\ Doing(Step, "type", Named("textbox", "Member_Number"), Stable)
  /\ Step.value = Input("member_id")

LEMMA StepAt ==
  ASSUME Asked, Located, at \in {"act", "wait"}
  PROVE  EntersAt \/ SearchesAt \/ BalanceStep \/ SubaccountStep \/ SignOnStep
<1>1. /\ Base.index \in 1 .. 8 /\ Top.index \in 1 .. 8
      /\ ~Nested => Top = Base
  BY Stacked
<1>2. /\ ~Nested => Base.index <= LastStep
      /\ Nested => Top.index <= 3
  BY DEF Located
<1>3. task.capability \in Balances \cup {"open_subaccount"}
  BY DEF Asked
<1>4. CASE Nested
  <2>1. Step = SignOn.steps[Top.index] /\ Top.index \in {1, 2, 3}
    BY <1>1, <1>2, <1>4 DEF Step, Capability
  <2> QED
    BY <1>4, <2>1, SignOnSteps DEF SignOnStep
<1>5. CASE ~Nested /\ task.capability = "open_subaccount"
  <2>1. Step = OpenSubaccount.steps[Base.index]
    BY <1>1, <1>5 DEF Step, Capability, Capabilities
  <2>2. Base.index \in {1, 2, 3, 4, 5, 6, 7}
    BY <1>1, <1>2, <1>5 DEF LastStep
  <2> QED
    BY <1>5, <2>1, <2>2, OpenSubaccountSteps
    DEF SubaccountStep, EntersAt, SearchesAt, ReadsAt, Doing
<1>6. CASE ~Nested /\ task.capability \in Balances
  <2>1. Base.index \in {1, 2, 3, 4, 5}
    BY <1>1, <1>2, <1>6 DEF LastStep, Balances
  <2>2. CASE task.capability = "compiled_balance"
    <3>1. Step = CompiledBalance.steps[Base.index]
      BY <1>1, <1>6, <2>2 DEF Step, Capability, Capabilities
    <3> QED
      BY <1>6, <2>1, <3>1, CompiledBalanceSteps
      DEF BalanceStep, EntersAt, SearchesAt, ReadsAt, Doing
  <2>3. CASE task.capability # "compiled_balance"
    <3>1. PICK wait \in {Navigation, Attentively} :
            Step = SavingsBalance(wait).steps[Base.index]
      BY <1>1, <1>6, <2>3 DEF Step, Capability, Capabilities, Balances
    <3> QED
      BY <1>6, <2>1, <3>1, SavingsBalanceSteps
      DEF BalanceStep, EntersAt, SearchesAt, ReadsAt, Doing
  <2> QED
    BY <2>2, <2>3
<1> QED
  BY <1>3, <1>4, <1>5, <1>6

-----------------------------------------------------------------------------
(* The pages: what can only be found on which.                             *)
LEMMA Controls ==
  ASSUME NEW d, d.page \in Pages, NEW n \in Nodes(d)
  PROVE  /\ n.role = "button" /\ n.name = "Search" => d.page \in SearchPages
         /\ n.role = "button" /\ n.name = "Open_Account" => d.page \in FormPages
         /\ n.role = "button" /\ n.name = "Sign_On" => d.page \in SignOnPages
         /\ n.role = "link" /\ n.name = "Open_Sub-Account" => d.page = "record"
         /\ n.role = "textbox" /\ n.name = "Member_Number" =>
              d.page \in SearchPages /\ n.beside = "Member_Number"
         /\ n.role = "textbox" /\ n.name \in {"Operator_ID", "Password"} => n.beside = n.name
BY SMTT(30) DEF Pages, SearchPages, FormPages, SignOnPages, Nodes, Fields, Node, Label, Entry, Link,
  Button, SignOff, NoText

LEMMA Entries ==
  ASSUME NEW d, d.page \in Pages, NEW n \in Nodes(d), n.role = "cell"
  PROVE  /\ n.beside = "Savings_Balance" =>
              d.page = "record" /\ Account[d.about] = "savings" /\ n.name = Printed[d.about].balance
         /\ n.beside = "Status" =>
              d.page = "record" /\ Account[d.about] = "savings" /\ n.name = Printed[d.about].status
         /\ n.beside = "As_Of" => n.name = AsOf
         /\ n.beside = "Reference" =>
              d.page = "confirmation" /\ n.name = Printed[d.about].reference
BY SMTT(30) DEF Pages, SearchPages, FormPages, SignOnPages, Nodes, Node, Label, Entry, Link, Button,
  SignOff, NoText

LEMMA Wordings ==
  ASSUME NEW d, d.page \in Pages, d.page \in {"record", "confirmation"} => d.about \in Members,
         NEW n \in Nodes(d)
  PROVE  /\ n.name = "No_records_found" => d.page = "not_found"
         /\ n.name = "not_authorized" => d.page = "denied"
         /\ n.name = "No_savings_account_on_file" =>
              d.page = "record" /\ Account[d.about] # "savings"
         /\ n.name = "below_the_minimum_required" => d.page = "rejected"
         /\ n.name = "Savings_Balance" => d.page = "record" /\ Account[d.about] = "savings"
<1>1. \A m \in Members : /\ Printed[m].balance \notin Wording
                         /\ Printed[m].status \notin Wording
                         /\ Printed[m].reference \notin Wording
  BY PrintedAssumption
<1>2. CASE d.page \in {"record", "confirmation"}
  <2>1. /\ Printed[d.about].balance \notin Wording
        /\ Printed[d.about].status \notin Wording
        /\ Printed[d.about].reference \notin Wording
    BY <1>1, <1>2
  <2> QED
    BY <1>2, <2>1, SMTT(30)
    DEF Nodes, Node, Label, Entry, Link, Button, SignOff, NoText, Wording, AsOf
<1>3. CASE d.page \in SignOnPages
  <2>1. \A f \in Fields(d.page) : f \in {"Operator_ID", "Password"}
    BY <1>3 DEF SignOnPages, Fields
  <2> QED
    BY <1>3, <2>1, SMTT(30) DEF SignOnPages, Nodes, Node, Label, Button, NoText
<1>4. CASE d.page \notin {"record", "confirmation"} \cup SignOnPages
  BY <1>4, SMTT(30)
  DEF Pages, SearchPages, FormPages, SignOnPages, Nodes, Node, Label, Link, Button, SignOff, NoText
<1> QED
  BY <1>2, <1>3, <1>4

LEMMA SearchPage ==
  ASSUME NEW d, d.page \in SearchPages
  PROVE  /\ Button("Search") \in Nodes(d)
         /\ \A n \in Nodes(d) :
              n.name \notin {"Accounts_Overview", "No_records_found", "not_authorized"}
         /\ IsFiniteSet(Nodes(d))
<1> DEFINE common == {SignOff, Node("textbox", "Member_Number", d.fields["Member_Number"],
                                    "Member_Number"), Button("Search"), Label("Seeded_members")}
           told == IF d.page = "search_again" THEN {Label("Member_number_is_required")} ELSE {}
<1>1. Nodes(d) = common \cup told
  BY DEF Nodes, SearchPages
<1>2. Button("Search") \in common
  OBVIOUS
<1>3. \A n \in common \cup told :
        n.name \notin {"Accounts_Overview", "No_records_found", "not_authorized"}
  BY SMT DEF SignOff, Node, Button, Label, Link
<1>4. IsFiniteSet(common) /\ IsFiniteSet(told)
  <2>1. \A a : IsFiniteSet({a})
    BY FS_Singleton
  <2>2. \A a, b, c, e : IsFiniteSet({a, b, c, e})
    <3> TAKE a, b, c, e
    <3>1. {a, b, c, e} = ({a} \cup {b}) \cup ({c} \cup {e})
      OBVIOUS
    <3>2. IsFiniteSet({a} \cup {b}) /\ IsFiniteSet({c} \cup {e})
      BY <2>1, FS_Union
    <3>3. IsFiniteSet(({a} \cup {b}) \cup ({c} \cup {e}))
      BY <3>2, FS_Union
    <3> QED
      BY <3>1, <3>3
  <2> QED
    BY <2>1, <2>2, FS_EmptySet
<1> QED
  BY <1>1, <1>2, <1>3, <1>4, FS_Union

-----------------------------------------------------------------------------
(* What predicates come to.                                                *)
LEMMA TextHolds ==
  ASSUME NEW text, NEW screen, NEW inputs
  PROVE  Evaluate(Text(text), screen, inputs) <=> text \in TextContent(screen)
BY SMT DEF Evaluate, Asserted, Text

LEMMA ExistsHolds ==
  ASSUME NEW role, NEW name, NEW screen, NEW inputs, Evaluate(Exists(role, name), screen, inputs)
  PROVE  \E n \in screen.nodes : n.role = role /\ n.name = name
<1>1. Cardinality(Select(Query(role, {name}), screen)) >= 1
  BY SMT DEF Evaluate, Asserted, Exists, Some
<1>2. Select(Query(role, {name}), screen) # {}
  BY <1>1, FS_EmptySet
<1> QED
  BY <1>2 DEF Select, Query

(* While the search page is still there, none of the things a search may   *)
(* come to is seen.                                                        *)
LEMMA NotYet ==
  ASSUME NEW d, d.page \in SearchPages, NEW screen, screen.nodes = Nodes(d), NEW inputs
  PROVE  ~Evaluate(Attentively.until, screen, inputs)
<1>1. ~Asserted(Exists("cell", "Accounts_Overview"), screen, inputs)
  <2>1. Select(Query("cell", {"Accounts_Overview"}), screen) = {}
    BY SearchPage DEF Select, Query
  <2> QED
    BY <2>1, FS_EmptySet DEF Asserted, Exists, Some
<1>2. Asserted(Exists("button", "Search"), screen, inputs)
  <2> DEFINE found == Select(Query("button", {"Search"}), screen)
  <2>1. Button("Search") \in found /\ found \subseteq Nodes(d)
    BY SearchPage, SMT DEF Select, Query, Button, Node
  <2>2. IsFiniteSet(found) /\ found # {}
    BY <2>1, SearchPage, FS_Subset
  <2>3. Cardinality(found) >= 1
    BY <2>2, FS_CardinalityType, FS_EmptySet
  <2> QED
    BY <2>3 DEF Asserted, Exists, Some
<1>3. ~Asserted(Text("No_records_found"), screen, inputs)
      /\ ~Asserted(Text("not_authorized"), screen, inputs)
  BY SearchPage DEF Asserted, Text, TextContent
<1> QED
  BY <1>1, <1>2, <1>3, SMTT(30)
  DEF Attentively, Until, AnyOf, Not, Evaluate, Exists, Some, Text

-----------------------------------------------------------------------------
(* The end of a run: what it tells must be true, the rest is as it was.    *)
Truly(status, code, returned) ==
  /\ status = "success" =>
       /\ Account[On] = "savings"
       /\ returned = Full
       /\ opened = IF task.capability = "open_subaccount" THEN 1 ELSE 0
  /\ status = "business_outcome" =>
       /\ code \in {Negative, "validation_rejected"}
       /\ code = "validation_rejected" => task.capability = "open_subaccount"
       /\ opened = 0
  /\ status \in {"success", "business_outcome"} => request = NoRequest

LEMMA Ended ==
  ASSUME Inv, UNCHANGED <<task, bank>>, NEW status, NEW code, NEW returned,
         Ends(status, code, returned), Truly(status, code, returned)
  PROVE  Inv'
<1>1. /\ at' = "over" /\ stack' = <<Frame>> /\ outputs' = {}
      /\ result' = [status |-> status, code |-> code, outputs |-> returned]
  BY DEF Ends
<1>2. UNCHANGED <<task, request, content, opened>> /\ On' = On /\ Full' = Full /\ Negative' = Negative
  BY DEF bank, On, Full, Negative
<1>3. /\ stack' \in Seq(Frames) /\ Len(stack') = 1 /\ Base' = Frame /\ ~Nested'
  BY <1>1 DEF Frames, Frame, Base, Nested
<1>4. Asked'
  BY <1>1, <1>2 DEF Inv, Asked
<1>5. Located'
  BY <1>1, <1>3 DEF Located, LastStep, Frame
<1>6. ContentTells' /\ RequestTells'
  BY <1>2 DEF Inv, ContentTells, RequestTells
<1>7. NoneInFlight'
  BY <1>1 DEF NoneInFlight
<1>8. ReadSoFar'
  BY <1>1, <1>3 DEF ReadSoFar, Behind, Frame
<1>9. OpenedOnce'
  BY <1>1, <1>2 DEF Inv, OpenedOnce
<1>10. Told'
  BY <1>1, <1>2 DEF Inv, OpenedOnce, Told, TheTruthOrNothing, Truly
<1> QED
  BY <1>4, <1>5, <1>6, <1>7, <1>8, <1>9, <1>10 DEF Inv

LEMMA Failed ==
  ASSUME Inv, UNCHANGED <<task, bank>>, NEW code, Fails(code)
  PROVE  Inv'
<1>1. PICK status \in {"needs_human", "failed"}, returned \in {outputs, {}} :
        Ends(status, code, returned)
  BY DEF Fails
<1> QED
  BY <1>1, Ended DEF Truly

-----------------------------------------------------------------------------
LEMMA InitInv == Init => Inv
<1> SUFFICES ASSUME Init PROVE Inv
  OBVIOUS
<1>1. /\ at = "over" /\ stack = <<Frame>> /\ outputs = {} /\ result = NoResult /\ opened = 0
      /\ request = NoRequest /\ content = Blank
      /\ task.capability = "savings_balance" /\ On = Nobody
  BY DEF Init, On, InputsFor
<1>2. stack \in Seq(Frames) /\ Len(stack) = 1 /\ Base = Frame /\ ~Nested
  BY <1>1 DEF Frames, Frame, Base, Nested
<1>3. Asked
  BY <1>1 DEF Init, Asked, InputsFor, Balances
<1>4. Located
  BY <1>1, <1>2 DEF Located, LastStep, Frame
<1>5. ContentTells
  BY <1>1 DEF ContentTells, Blank, Document, Fields, Pages, SearchPages, FormPages
<1>6. RequestTells
  BY <1>1 DEF RequestTells, NoRequest, Request
<1>7. NoneInFlight /\ ReadSoFar
  BY <1>1, <1>2 DEF NoneInFlight, ReadSoFar, Behind, Frame
<1>8. OpenedOnce
  BY <1>1 DEF OpenedOnce, NoRequest, Request, Blank, Document
<1>9. Told
  BY <1>1 DEF Told, TheTruthOrNothing, NoResult
<1> QED
  BY <1>3, <1>4, <1>5, <1>6, <1>7, <1>8, <1>9 DEF Inv

(* A run begins, with the shell loading.                                   *)
LEMMA BeginStep ==
  ASSUME Inv, NEW capability \in DOMAIN Capabilities, NEW member \in Members, NEW valid \in BOOLEAN,
         Begin(capability, member, valid)
  PROVE  Inv'
<1>1. /\ at = "over" /\ at' = "load" /\ stack' = <<Frame>> /\ outputs' = outputs
      /\ result' = NoResult /\ opened' = 0
      /\ content' = Blank
      /\ task' = [capability |-> capability, inputs |-> InputsFor(capability, member),
                  valid |-> valid, session |-> session, armed |-> armed]
      /\ \/ request' = Get("GET_search", Nobody)
         \/ request' = Get("GET_login", Nobody)
  BY DEF Begin, Starts, ShowsShell
<1>2. On' = member /\ outputs' = {} /\ capability \in Balances \cup {"open_subaccount"}
  BY <1>1 DEF On, InputsFor, Inv, Asked, Capabilities, Balances
<1>3. stack' \in Seq(Frames) /\ Len(stack') = 1 /\ Base' = Frame /\ ~Nested'
  BY <1>1 DEF Frames, Frame, Base, Nested
<1>4. Asked'
  BY <1>1, <1>2 DEF Asked
<1>5. Located'
  BY <1>1, <1>3 DEF Located, LastStep, Frame
<1>6. ContentTells'
  BY <1>1 DEF ContentTells, Blank, Document, Fields, Pages, SearchPages, FormPages
<1>7. RequestTells'
  BY <1>1, <1>2 DEF RequestTells, Get, Request, NoRequest
<1>8. NoneInFlight' /\ ReadSoFar'
  BY <1>1, <1>2, <1>3 DEF NoneInFlight, ReadSoFar, Behind, Frame
<1>9. OpenedOnce'
  BY <1>1 DEF OpenedOnce, Get, Request, Blank, Document
<1>10. Told'
  BY <1>1 DEF Told, TheTruthOrNothing, NoResult
<1> QED
  BY <1>4, <1>5, <1>6, <1>7, <1>8, <1>9, <1>10 DEF Inv

(* What a fault armed, another turn of a wait or nothing at all leaves.    *)
LEMMA Kept ==
  ASSUME Inv, UNCHANGED <<task, stack, at, held, outputs, result, request, content, opened>>
  PROVE  Inv'
<1>1. UNCHANGED <<task, stack, at, held, outputs, result, request, content, opened>>
  OBVIOUS
<1>2. /\ On' = On /\ Full' = Full /\ Negative' = Negative /\ Base' = Base /\ Top' = Top
      /\ Nested' = Nested /\ LastStep' = LastStep /\ Step' = Step
      /\ \A k : Behind(k)' = Behind(k)
  BY <1>1 DEF On, Full, Negative, Base, Top, Nested, LastStep, Step, Capability, Behind
<1>3. Asked' /\ Located'
  BY <1>1, <1>2 DEF Inv, Asked, Located
<1>4. ContentTells' /\ RequestTells' /\ NoneInFlight'
  BY <1>1, <1>2 DEF Inv, ContentTells, RequestTells, NoneInFlight
<1>5. ReadSoFar' /\ OpenedOnce'
  BY <1>1, <1>2 DEF Inv, ReadSoFar, OpenedOnce
<1>6. Told'
  BY <1>1, <1>2 DEF Inv, Told, TheTruthOrNothing
<1> QED
  BY <1>3, <1>4, <1>5, <1>6 DEF Inv

-----------------------------------------------------------------------------
(* How many steps there are.                                               *)
LEMMA Lengths ==
  ASSUME Asked
  PROVE  Len(Capability.steps) = IF Nested THEN 3 ELSE LastStep
<1>1. CASE Nested
  BY <1>1, SignOnSteps DEF Capability
<1>2. CASE ~Nested /\ task.capability = "open_subaccount"
  BY <1>2, OpenSubaccountSteps DEF Capability, Capabilities, LastStep
<1>3. CASE ~Nested /\ task.capability = "compiled_balance"
  BY <1>3, CompiledBalanceSteps DEF Capability, Capabilities, LastStep
<1>4. CASE ~Nested /\ task.capability \in Recovering
  <2>1. PICK wait \in {Navigation, Attentively} : Capability = SavingsBalance(wait)
    BY <1>4 DEF Capability, Capabilities, Recovering
  <2> QED
    BY <1>4, <2>1, SavingsBalanceSteps DEF LastStep, Recovering
<1> QED
  BY <1>1, <1>2, <1>3, <1>4 DEF Asked, Balances, Recovering

LEMMA LoadedStep ==
  ASSUME Inv, Loaded
  PROVE  Inv'
<1>1. /\ at = "load" /\ at' = "look" /\ request = NoRequest
      /\ UNCHANGED <<task, stack, held, outputs, result, request, content, opened>>
  BY DEF Loaded, Looking, bank
<1>2. /\ On' = On /\ Full' = Full /\ Negative' = Negative /\ Base' = Base /\ Top' = Top
      /\ Nested' = Nested /\ LastStep' = LastStep
      /\ \A k : Behind(k)' = Behind(k)
  BY <1>1 DEF On, Full, Negative, Base, Top, Nested, LastStep, Behind
<1>3. Asked' /\ Located'
  BY <1>1, <1>2 DEF Inv, Asked, Located
<1>4. ContentTells' /\ RequestTells' /\ NoneInFlight'
  BY <1>1, <1>2 DEF Inv, ContentTells, RequestTells, NoneInFlight
<1>5. ReadSoFar' /\ OpenedOnce'
  BY <1>1, <1>2 DEF Inv, ReadSoFar, OpenedOnce
<1>6. Told'
  BY <1>1, <1>2 DEF Inv, Asked, Told, TheTruthOrNothing, NoResult
<1> QED
  BY <1>3, <1>4, <1>5, <1>6 DEF Inv

(* The step is the one to take here: the form of a sub-account is only     *)
(* opened from a record with savings on it.                                *)
LEMMA SeesExpectedStep ==
  ASSUME Inv, SeesExpected
  PROVE  Inv'
<1>1. /\ at = "look" /\ at' = "act" /\ held' = Screen /\ request = NoRequest
      /\ UNCHANGED <<task, stack, outputs, result, request, content, opened>>
  BY DEF SeesExpected, AtStep, Looking, bank, Inv, NoneInFlight
<1>2. /\ On' = On /\ Full' = Full /\ Negative' = Negative /\ Base' = Base /\ Top' = Top
      /\ Nested' = Nested /\ LastStep' = LastStep
      /\ \A k : Behind(k)' = Behind(k)
  BY <1>1 DEF On, Full, Negative, Base, Top, Nested, LastStep, Behind
<1>3. /\ Top.index <= IF Nested THEN 3 ELSE LastStep
      /\ ~Nested => Top = Base
  BY Lengths, Stacked DEF Inv, SeesExpected, AtStep
<1>4. Asked' /\ Located'
  BY <1>1, <1>2, <1>3 DEF Inv, Asked, Located
<1>5. ContentTells' /\ RequestTells'
  BY <1>1, <1>2 DEF Inv, ContentTells, RequestTells
<1>6. NoneInFlight'
  BY <1>1 DEF NoneInFlight, Screen
<1>7. ASSUME task.capability = "open_subaccount", Base.index = 3
      PROVE  Account[On] = "savings"
  <2>1. ~Nested
    BY <1>7 DEF Inv, Located, Recovering
  <2>2. Step = OpenSubaccount.steps[3]
    BY <1>3, <1>7, <2>1 DEF Step, Capability, Capabilities
  <2>3. Evaluate(Exists("cell", "Savings_Balance"), Screen, Inputs)
    BY <2>2, OpenSubaccountSteps DEF SeesExpected, Verdict, Classify
  <2>4. PICK n \in Nodes(content) : n.name = "Savings_Balance"
    BY <2>3, ExistsHolds DEF Screen
  <2> QED
    BY <2>4, Wordings DEF Inv, ContentTells
<1>8. ReadSoFar' /\ OpenedOnce'
  BY <1>1, <1>2, <1>7 DEF Inv, ReadSoFar, OpenedOnce
<1>9. Told'
  BY <1>1, <1>2 DEF Inv, Asked, Told, TheTruthOrNothing, NoResult
<1> QED
  BY <1>4, <1>5, <1>6, <1>8, <1>9 DEF Inv

-----------------------------------------------------------------------------
(* The first of what fires is one that fires.                              *)
LEMMA FirstFires ==
  ASSUME NEW indices, indices \subseteq {1, 2, 3}, indices # {}
  PROVE  First(indices) \in indices
<1>1. \E k \in indices : \A l \in indices : k <= l
  <2>1. CASE 1 \in indices
    BY <2>1
  <2>2. CASE 1 \notin indices /\ 2 \in indices
    BY <2>2
  <2>3. CASE indices = {3}
    BY <2>3
  <2> QED
    BY <2>1, <2>2, <2>3
<1> QED
  BY <1>1 DEF First

(* The negative answers that are declared, and the words they go by.       *)
Declared ==
  {<<"member_not_found", "No_records_found">>,
   <<"no_savings_account", "No_savings_account_on_file">>,
   <<"permission_denied", "not_authorized">>,
   <<"validation_rejected", "below_the_minimum_required">>}

LEMMA Outcomes ==
  ASSUME Asked, ~Nested, NEW k \in DOMAIN Capability.outcomes
  PROVE  /\ k \in {1, 2, 3}
         /\ \E pair \in Declared :
              /\ Capability.outcomes[k] = Outcome(pair[1], pair[2])
              /\ pair[1] = "validation_rejected" => task.capability = "open_subaccount"
<1>1. CASE task.capability = "compiled_balance"
  <2>1. Capability.outcomes = <<>>
    BY <1>1 DEF Capability, Capabilities, CompiledBalance
  <2> QED
    BY <2>1
<1>2. CASE task.capability = "open_subaccount"
  <2>1. Capability.outcomes = <<Outcome("validation_rejected", "below_the_minimum_required"),
                                Outcome("member_not_found", "No_records_found")>>
    BY <1>2 DEF Capability, Capabilities, OpenSubaccount
  <2> QED
    BY <1>2, <2>1 DEF Declared
<1>3. CASE task.capability \in Recovering
  <2>1. Capability.outcomes = <<Outcome("member_not_found", "No_records_found"),
                                Outcome("no_savings_account", "No_savings_account_on_file"),
                                Outcome("permission_denied", "not_authorized")>>
    BY <1>3 DEF Capability, Capabilities, SavingsBalance, Recovering
  <2> QED
    BY <2>1 DEF Declared
<1> QED
  BY <1>1, <1>2, <1>3 DEF Asked, Balances, Recovering

(* A declared answer ends the run with what the page says of its member;   *)
(* within a remedy it is a failure.                                        *)
LEMMA SeesOutcomeStep ==
  ASSUME Inv, SeesOutcome
  PROVE  Inv'
<1>1. CASE Nested
  BY <1>1, Failed DEF SeesOutcome, Looking
<1>2. CASE ~Nested
  <2> DEFINE fired == Fires(Capability.outcomes, Screen, Inputs)
             k == First(fired)
             code == Capability.outcomes[k].code
  <2>1. fired # {} /\ Ends("business_outcome", code, {}) /\ UNCHANGED <<task, bank>>
    BY <1>2 DEF SeesOutcome, Verdict, Classify, Looking
  <2>2. /\ fired \subseteq DOMAIN Capability.outcomes
        /\ \A j \in fired : Evaluate(Capability.outcomes[j].detect, Screen, Inputs)
    BY DEF Fires
  <2>3. Asked
    BY DEF Inv
  <2> HIDE DEF fired
  <2>4. k \in fired
    BY <1>2, <2>1, <2>2, <2>3, Outcomes, FirstFires
  <2>5. PICK pair \in Declared :
          /\ Capability.outcomes[k] = Outcome(pair[1], pair[2])
          /\ pair[1] = "validation_rejected" => task.capability = "open_subaccount"
    BY <1>2, <2>2, <2>3, <2>4, Outcomes
  <2>6. code = pair[1] /\ Evaluate(Text(pair[2]), Screen, Inputs)
    BY <2>2, <2>4, <2>5 DEF Outcome
  <2>7. PICK n \in Nodes(content) : n.name = pair[2]
    BY <2>6, TextHolds DEF TextContent, Screen
  <2>8. /\ pair[2] = "No_records_found" => content.page = "not_found"
        /\ pair[2] = "not_authorized" => content.page = "denied"
        /\ pair[2] = "No_savings_account_on_file" =>
             content.page = "record" /\ Account[content.about] # "savings"
        /\ pair[2] = "below_the_minimum_required" => content.page = "rejected"
    BY <2>7, Wordings DEF Inv, ContentTells
  <2>9. opened = 0
    BY <2>5, <2>8 DEF Declared, Inv, OpenedOnce
  <2>10. request = NoRequest
    BY DEF Inv, NoneInFlight, SeesOutcome
  <2>11. code \in {Negative, "validation_rejected"}
    BY <2>5, <2>6, <2>8 DEF Declared, Negative, Inv, ContentTells, Reachable
  <2>12. Truly("business_outcome", code, {})
    BY <2>5, <2>6, <2>9, <2>10, <2>11 DEF Truly
  <2> QED
    BY <2>1, <2>12, Ended
<1> QED
  BY <1>1, <1>2

LEMMA SeesUnexpectedStep ==
  ASSUME Inv, SeesUnexpected
  PROVE  Inv'
BY Failed DEF SeesUnexpected, Looking

LEMMA CheckpointFailsStep ==
  ASSUME Inv, CheckpointFails
  PROVE  Inv'
BY Failed DEF CheckpointFails, Looking

LEMMA NotResolvedStep ==
  ASSUME Inv, NotResolved
  PROVE  Inv'
BY Failed DEF NotResolved, Looking

LEMMA ReadsNothingStep ==
  ASSUME Inv, ReadsNothing
  PROVE  Inv'
BY Failed DEF ReadsNothing, Looking

LEMMA TimesOutStep ==
  ASSUME Inv, TimesOut
  PROVE  Inv'
BY Failed DEF TimesOut

LEMMA WaitGoesOnStep ==
  ASSUME Inv, WaitGoesOn
  PROVE  Inv'
BY Kept DEF WaitGoesOn, Looking, bank

LEMMA ArmsStep ==
  ASSUME Inv, NEW fault, NEW count, Arms(fault, count)
  PROVE  Inv'
BY Kept DEF Arms, Arm

-----------------------------------------------------------------------------
(* Only the savings balance, as written by hand, signs on again.           *)
LEMMA Remedies ==
  ASSUME Asked, NEW k \in DOMAIN Capability.recovery
  PROVE  /\ ~Nested /\ k \in {1, 2, 3}
         /\ Capability.recovery[k].remedy # "reload" => task.capability \in Recovering
<1>1. ~Nested /\ task.capability # "compiled_balance"
  <2>1. SignOn.recovery = <<>> /\ CompiledBalance.recovery = <<>>
    BY DEF SignOn, CompiledBalance
  <2> QED
    BY <2>1 DEF Capability, Capabilities
<1>2. CASE task.capability = "open_subaccount"
  <2>1. Capability.recovery = <<TransientLoad>>
    BY <1>1, <1>2 DEF Capability, Capabilities, OpenSubaccount
  <2> QED
    BY <1>1, <2>1 DEF TransientLoad
<1>3. CASE task.capability \in Recovering
  <2>1. Capability.recovery = <<TransientLoad, SessionExpired>>
    BY <1>1, <1>3 DEF Capability, Capabilities, SavingsBalance, Recovering
  <2> QED
    BY <1>1, <1>3, <2>1
<1> QED
  BY <1>1, <1>2, <1>3 DEF Asked, Balances, Recovering

(* Recovery tries the same step again, after a reload or a sign-on.        *)
LEMMA SeesRecoverableStep ==
  ASSUME Inv, SeesRecoverable
  PROVE  Inv'
<1> DEFINE fired == Fires(Capability.recovery, Screen, Inputs)
           rule == Capability.recovery[First(fired)]
           retried == [Top EXCEPT !.attempts = @ + 1]
<1>1. Asked /\ Located
  BY DEF Inv
<1>2. /\ AtStep /\ at = "look" /\ request = NoRequest
      /\ UNCHANGED task
      /\ fired # {} /\ fired \subseteq DOMAIN Capability.recovery
  BY DEF SeesRecoverable, AtStep, Verdict, Classify, Fires, Inv, NoneInFlight
<1>3. /\ ~Nested
      /\ rule.remedy # "reload" => task.capability \in Recovering
  <2> HIDE DEF fired
  <2>1. fired \subseteq {1, 2, 3} /\ ~Nested
    BY <1>1, <1>2, Remedies
  <2>2. First(fired) \in DOMAIN Capability.recovery
    BY <1>2, <2>1, FirstFires
  <2> QED
    BY <1>1, <2>1, <2>2, Remedies
<1>4. /\ Top = Base /\ Len(stack) = 1 /\ retried \in Frames /\ retried.index = Base.index
      /\ Base.index <= LastStep
  <2>1. Top = Base /\ Len(stack) = 1 /\ Base \in Frames
    BY <1>1, <1>3, Stacked
  <2>2. retried \in Frames /\ retried.index = Base.index
    BY <2>1 DEF Frames
  <2>3. Base.index <= LastStep
    BY <1>1, <1>2, <1>3, <2>1, Lengths DEF AtStep
  <2> QED
    BY <2>1, <2>2, <2>3
<1>5. CASE UNCHANGED bank /\ (Fails("recovery_exhausted") \/ Fails("policy_denied"))
  BY <1>2, <1>5, Failed
<1>6. CASE /\ Turns(retried) /\ at' = "load" /\ LoadShell
           /\ UNCHANGED <<held, seen, outputs, result>>
  <2>1. /\ at' = "load" /\ content' = Blank
        /\ UNCHANGED <<task, held, outputs, result, opened>>
        /\ \/ request' = Get("GET_search", Nobody)
           \/ request' = Get("GET_login", Nobody)
    BY <1>2, <1>6 DEF LoadShell, ShowsShell
  <2>2. /\ stack' \in Seq(Frames) /\ Len(stack') = 1 /\ ~Nested'
        /\ Base' = retried /\ Base'.index = Base.index
    <3>1. stack \in Seq(Frames) /\ Len(stack) \in {1, 2}
      BY <1>1 DEF Located
    <3>2. retried \in Frames /\ Turns(retried)
      BY <1>4, <1>6
    <3> HIDE DEF retried
    <3>3. stack' \in Seq(Frames) /\ Len(stack') = 1 /\ stack'[1] = retried
      BY <1>4, <3>1, <3>2, Turned
    <3> QED
      BY <1>4, <3>3 DEF Base, Nested
  <2>3. /\ On' = On /\ Full' = Full /\ Negative' = Negative /\ LastStep' = LastStep
        /\ \A k : Behind(k)' = Behind(k)
    BY <1>2, <2>1, <2>2 DEF On, Full, Negative, LastStep, Behind
  <2>4. Asked' /\ Located'
    BY <1>1, <1>2, <1>4, <2>1, <2>2, <2>3 DEF Asked, Located
  <2>5. ContentTells'
    BY <2>1 DEF ContentTells, Blank, Document, Fields, Pages, SearchPages, FormPages
  <2>6. RequestTells'
    BY <1>1, <1>2, <2>1, <2>3 DEF Asked, RequestTells, Get, Request, NoRequest
  <2>7. NoneInFlight'
    BY <2>1 DEF NoneInFlight
  <2>8. ReadSoFar'
    BY <1>2, <2>1, <2>2, <2>3 DEF Inv, ReadSoFar
  <2>9. OpenedOnce'
    BY <1>2, <2>1, <2>3 DEF Inv, OpenedOnce, Get, Request, Blank, Document
  <2>10. Told'
    BY <1>1, <1>2, <2>1, <2>3 DEF Asked, Inv, Told, TheTruthOrNothing, NoResult
  <2> QED
    BY <2>4, <2>5, <2>6, <2>7, <2>8, <2>9, <2>10 DEF Inv
<1>7. CASE /\ rule.remedy # "reload" /\ stack' = <<retried, Frame>> /\ UNCHANGED <<at, bank>>
           /\ UNCHANGED <<held, seen, outputs, result>>
  <2>1. UNCHANGED <<task, at, held, outputs, result, request, content, opened>>
    BY <1>2, <1>7 DEF bank
  <2>2. /\ stack' \in Seq(Frames) /\ Len(stack') = 2 /\ Nested'
        /\ Base'.index = Base.index /\ Top' = Frame
    BY <1>4, <1>7 DEF Base, Nested, Top, Frame, Frames
  <2>3. /\ On' = On /\ Full' = Full /\ Negative' = Negative /\ LastStep' = LastStep
        /\ \A k : Behind(k)' = Behind(k)
    BY <1>2, <2>1, <2>2 DEF On, Full, Negative, LastStep, Behind
  <2>4. Asked' /\ Located'
    BY <1>1, <1>2, <1>3, <1>4, <1>7, <2>1, <2>2, <2>3 DEF Asked, Located, Frame
  <2>5. ContentTells' /\ RequestTells' /\ NoneInFlight'
    BY <1>2, <2>1, <2>3 DEF Inv, ContentTells, RequestTells, NoneInFlight
  <2>6. ReadSoFar' /\ OpenedOnce'
    BY <1>2, <2>1, <2>2, <2>3 DEF Inv, ReadSoFar, OpenedOnce
  <2>7. Told'
    BY <2>1, <2>3 DEF Inv, Told, TheTruthOrNothing
  <2> QED
    BY <2>4, <2>5, <2>6, <2>7 DEF Inv
<1> QED
  BY <1>5, <1>6, <1>7 DEF SeesRecoverable

-----------------------------------------------------------------------------
(* Past the last step, everything that was to be read has been.            *)
LEMMA CheckpointHoldsStep ==
  ASSUME Inv, CheckpointHolds
  PROVE  Inv'
<1>1. /\ at = "look" /\ request = NoRequest /\ On \in Members
      /\ Asked /\ Located
      /\ UNCHANGED <<task, bank>>
  BY DEF CheckpointHolds, AtCheckpoint, Looking, Inv, NoneInFlight, Asked
<1>2. CASE Nested
  <2>1. /\ stack' = <<Base>>
        /\ UNCHANGED <<task, at, held, outputs, result, request, content, opened>>
    BY <1>1, <1>2 DEF CheckpointHolds, Base, bank
  <2>2. Base \in Frames
    BY <1>1, Stacked
  <2>3. stack' \in Seq(Frames) /\ Len(stack') = 1 /\ ~Nested' /\ Base' = Base
    <3> HIDE DEF Frames
    <3>1. stack' \in Seq(Frames) /\ Len(stack') = 1 /\ stack'[1] = Base
      BY <2>1, <2>2
    <3> QED
      BY <3>1 DEF Base, Nested
  <2>4. /\ On' = On /\ Full' = Full /\ Negative' = Negative /\ LastStep' = LastStep
        /\ \A k : Behind(k)' = Behind(k)
    BY <1>1, <2>1, <2>3 DEF On, Full, Negative, LastStep, Behind
  <2>5. Asked' /\ Located'
    BY <1>1, <2>1, <2>3, <2>4 DEF Asked, Located
  <2>6. ContentTells' /\ RequestTells' /\ NoneInFlight'
    BY <1>1, <2>1, <2>4 DEF Inv, ContentTells, RequestTells, NoneInFlight
  <2>7. ReadSoFar' /\ OpenedOnce'
    BY <1>1, <2>1, <2>3, <2>4 DEF Inv, ReadSoFar, OpenedOnce
  <2>8. Told'
    BY <2>1, <2>4 DEF Inv, Told, TheTruthOrNothing
  <2> QED
    BY <2>5, <2>6, <2>7, <2>8 DEF Inv
<1>3. CASE ~Nested
  <2>1. Ends("success", "none", outputs)
    BY <1>3 DEF CheckpointHolds
  <2>2. Base.index > LastStep /\ Base.index \in 1 .. 8
    BY <1>1, <1>3, Lengths, Stacked DEF CheckpointHolds, AtCheckpoint
  <2>3. CASE task.capability = "open_subaccount"
    <3>1. Behind(7) /\ Base.index > 3
      BY <2>2, <2>3 DEF LastStep, Behind
    <3> QED
      BY <1>1, <2>1, <2>3, <3>1, Ended DEF Inv, ReadSoFar, Full, Truly
  <2>4. CASE task.capability \in Balances
    <3>1. Behind(3) /\ Behind(4) /\ Behind(5) /\ task.capability # "open_subaccount"
      BY <2>2, <2>4 DEF LastStep, Behind, Balances
    <3>2. opened = 0
      BY <3>1 DEF Inv, OpenedOnce
    <3>3. outputs = Full /\ Account[On] = "savings"
      BY <1>1, <2>4, <3>1 DEF Inv, ReadSoFar, Full
    <3> QED
      BY <1>1, <2>1, <3>1, <3>2, <3>3, Ended DEF Truly
  <2> QED
    BY <1>1, <2>3, <2>4 DEF Asked
<1> QED
  BY <1>2, <1>3

-----------------------------------------------------------------------------
(* What is acted on is on the page that is there.                          *)
LEMMA Controlled ==
  ASSUME Inv, at = "act", Cardinality(Found) = 1
  PROVE  /\ Control \in Nodes(content)
         /\ Control.role = Step.target.role
         /\ Control[Step.target.by] = Step.target.is
<1>1. Found # {}
  BY FS_EmptySet
<1>2. Control \in Found
  BY <1>1 DEF Control
<1> QED
  BY <1>2 DEF Found, Inv, NoneInFlight

(* Typing puts into the search field the member number or nothing.         *)
LEMMA TypesStep ==
  ASSUME Inv, Types
  PROVE  Inv'
<1> DEFINE text == IF Step.value.is = "input" THEN Inputs[Step.value.name]
                   ELSE IF task.valid THEN "valid" ELSE "invalid"
           label == Control.beside
<1>1. /\ at = "act" /\ at' = "wait" /\ request = NoRequest /\ Asked /\ Located
      /\ Step.does \in {"type", "select"} /\ Cardinality(Found) = 1
      /\ content' = [content EXCEPT !.fields[label] = text]
      /\ UNCHANGED <<task, stack, held, outputs, result, request, opened>>
  BY DEF Types, Fill, Settles, Looking, Inv, NoneInFlight
<1>2. /\ Control \in Nodes(content) /\ Control.role = Step.target.role
      /\ Control[Step.target.by] = Step.target.is
  BY <1>1, Controlled
<1>3. content.page \in Pages
  BY DEF Inv, ContentTells
<1>4. /\ EntersAt \/ SubaccountStep \/ SignOnStep
      /\ ~Nested => Base.index \in {1, 4, 5}
  BY <1>1, StepAt DEF EntersAt, SearchesAt, BalanceStep, SubaccountStep, SignOnStep, ReadsAt, Doing
<1>5. content.page \in SearchPages /\ label = "Member_Number" => text = On
  <2>1. CASE EntersAt
    BY <2>1 DEF EntersAt, Input, Inputs, On
  <2>2. CASE SubaccountStep
    <3>1. label \in {"Account_Type", "Initial_Deposit"}
      BY <1>1, <1>2, <2>2 DEF SubaccountStep, ReadsAt, Doing, Beside
    <3> QED
      BY <3>1
  <2>3. CASE SignOnStep
    <3>1. label \in {"Operator_ID", "Password"}
      BY <1>1, <1>2, <1>3, <2>3, Controls DEF SignOnStep, Doing, Named
    <3> QED
      BY <3>1
  <2> QED
    BY <1>4, <2>1, <2>2, <2>3
<1> HIDE DEF text, label
<1>6. /\ content'.page = content.page /\ content'.about = content.about
      /\ content'.fields = [content.fields EXCEPT ![label] = text]
      /\ content' = [page |-> content'.page, about |-> content'.about, fields |-> content'.fields]
  BY <1>1 DEF Inv, ContentTells
<1>7. /\ On' = On /\ Full' = Full /\ Negative' = Negative /\ LastStep' = LastStep
      /\ Nested' = Nested /\ Base' = Base /\ Top' = Top
      /\ \A k \in {3, 4, 5, 6, 7} : Behind(k) => Behind(k)'
      /\ task.capability \in Balances => \A k \in {3, 4, 5} : Behind(k)' => Behind(k)
      /\ Behind(7)' => Behind(7)
  BY <1>1, <1>4
  DEF On, Full, Negative, LastStep, Nested, Base, Top, Behind, EntersAt, SubaccountStep, SignOnStep,
    Balances
<1>8. Asked' /\ Located'
  BY <1>1, <1>7 DEF Asked, Located
<1>9. ContentTells'
  BY <1>1, <1>5, <1>6, <1>7 DEF Inv, ContentTells, Fields, SearchPages
<1>10. RequestTells' /\ NoneInFlight'
  BY <1>1, <1>7 DEF Inv, RequestTells, NoneInFlight
<1>11. ReadSoFar'
  BY <1>1, <1>4, <1>7 DEF Inv, ReadSoFar
<1>12. OpenedOnce'
  BY <1>1, <1>6, <1>7 DEF Inv, OpenedOnce
<1>13. Told'
  BY <1>1, <1>7 DEF Asked, Inv, Told, TheTruthOrNothing, NoResult
<1> QED
  BY <1>8, <1>9, <1>10, <1>11, <1>12, <1>13 DEF Inv

(* A click asks the application for something, about the member of the     *)
(* page it is made on; the one that opens an account is made once.         *)
LEMMA ClicksStep ==
  ASSUME Inv, Clicks
  PROVE  Inv'
<1>1. /\ at = "act" /\ at' = "wait" /\ request = NoRequest /\ Asked /\ Located /\ On \in Members
      /\ Step.does = "click" /\ Cardinality(Found) = 1
      /\ Press(Control.name)
      /\ UNCHANGED <<task, stack, held, outputs, result, content, opened>>
  BY DEF Clicks, Press, Settles, Looking, Inv, NoneInFlight, Asked
<1>2. /\ Control \in Nodes(content) /\ Control.role = Step.target.role
      /\ Control[Step.target.by] = Step.target.is
      /\ content.page \in Pages
  BY <1>1, Controlled DEF Inv, ContentTells
<1>3. /\ SearchesAt \/ SubaccountStep \/ SignOnStep
      /\ ~Nested => Base.index \in {2, 3, 6}
  BY <1>1, StepAt DEF EntersAt, SearchesAt, BalanceStep, SubaccountStep, SignOnStep, ReadsAt, Doing
<1>4. opened = 0
  <2>1. CASE Nested
    BY <1>1, <2>1 DEF Inv, OpenedOnce, Located, Recovering
  <2>2. CASE ~Nested
    BY <1>1, <1>3, <2>2 DEF Inv, OpenedOnce, Behind
  <2> QED
    BY <2>1, <2>2
<1>5. \/ /\ SearchesAt /\ content.page \in SearchPages /\ Step.target.is = "Search"
         /\ request' = Request("POST_search", Nobody, content.fields)
      \/ /\ Step.target.is # "Search"
         /\ content.page = "record" /\ request' = Get("GET_form", content.about)
      \/ /\ Step.target.is # "Search"
         /\ content.page \in FormPages /\ task.capability = "open_subaccount"
         /\ ~Nested /\ Base.index = 6
         /\ request' = Request("POST_form", content.about, content.fields)
      \/ /\ Step.target.is # "Search"
         /\ request' = Request("POST_login", Nobody, content.fields)
  <2>1. CASE SearchesAt
    <3>1. Control.role = "button" /\ Control.name = "Search" /\ Step.target.is = "Search"
      BY <1>2, <2>1 DEF SearchesAt, Named
    <3> QED
      BY <1>1, <1>2, <2>1, <3>1, Controls DEF Press
  <2>2. CASE SubaccountStep
    <3>1. \/ /\ Control.role = "link" /\ Control.name = "Open_Sub-Account"
             /\ Step.target.is = "Open_Sub-Account"
          \/ /\ Control.role = "button" /\ Control.name = "Open_Account" /\ Base.index = 6
             /\ Step.target.is = "Open_Account" /\ ~Nested
             /\ task.capability = "open_subaccount"
      BY <1>1, <1>2, <2>2 DEF SubaccountStep, ReadsAt, Doing, Named
    <3> QED
      BY <1>1, <1>2, <3>1, Controls DEF Press
  <2>3. CASE SignOnStep
    <3>1. Control.name = "Sign_On" /\ Step.target.is = "Sign_On"
      BY <1>1, <1>2, <2>3 DEF SignOnStep, Doing, Named
    <3> QED
      BY <1>1, <3>1 DEF Press
  <2> QED
    BY <1>3, <2>1, <2>2, <2>3
<1>6. /\ On' = On /\ Full' = Full /\ Negative' = Negative /\ LastStep' = LastStep
      /\ Nested' = Nested /\ Base' = Base /\ Top' = Top /\ Step' = Step
      /\ \A k \in {3, 4, 5, 6, 7} : Behind(k) => Behind(k)'
      /\ task.capability \in Balances => \A k \in {3, 4, 5} : Behind(k)' => Behind(k)
      /\ Behind(7)' => Behind(7)
  BY <1>1, <1>3
  DEF On, Full, Negative, LastStep, Nested, Base, Top, Step, Capability, Behind, SearchesAt,
    SubaccountStep, SignOnStep, Balances
<1>7. Asked' /\ Located'
  BY <1>1, <1>6 DEF Asked, Located
<1>8. ContentTells'
  BY <1>1, <1>6 DEF Inv, ContentTells
<1>9. RequestTells'
  BY <1>1, <1>5, <1>6 DEF Inv, ContentTells, RequestTells, Request, Get
<1>10. NoneInFlight'
  BY <1>1, <1>5, <1>6 DEF Inv, NoneInFlight
<1>11. ReadSoFar'
  BY <1>1, <1>6 DEF Inv, ReadSoFar
<1>12. OpenedOnce'
  <2>1. /\ request'.to = "POST_form" => /\ task.capability = "open_subaccount"
                                        /\ ~Nested /\ Base.index = 6
    BY <1>5 DEF Request, Get
  <2>2. request'.to = "POST_form" => Behind(6)'
    BY <1>1, <1>6, <2>1 DEF Behind
  <2> QED
    BY <1>1, <1>4, <2>1, <2>2 DEF Inv, OpenedOnce
<1>13. Told'
  BY <1>1, <1>6 DEF Asked, Inv, Told, TheTruthOrNothing, NoResult
<1> QED
  BY <1>7, <1>8, <1>9, <1>10, <1>11, <1>12, <1>13 DEF Inv

(* What is read stands on a page about the member.                         *)
LEMMA ExtractsStep ==
  ASSUME Inv, Extracts
  PROVE  Inv'
<1>1. /\ at = "act" /\ at' = "wait" /\ request = NoRequest /\ Asked /\ Located /\ On \in Members
      /\ Step.does = "extract" /\ Cardinality(Found) = 1
      /\ outputs' = outputs \cup {Control.name} /\ Control.name # NoText
      /\ UNCHANGED <<task, stack, held, result, request, content, opened>>
  BY DEF Extracts, Settles, Looking, bank, Inv, NoneInFlight, Asked
<1>2. /\ Control \in Nodes(content) /\ Control.role = Step.target.role
      /\ Control[Step.target.by] = Step.target.is
      /\ content.page \in Pages
  BY <1>1, Controlled DEF Inv, ContentTells
<1>3. BalanceStep \/ SubaccountStep
  BY <1>1, StepAt DEF EntersAt, SearchesAt, BalanceStep, SubaccountStep, SignOnStep, ReadsAt, Doing
<1>4. /\ On' = On /\ Full' = Full /\ Negative' = Negative /\ LastStep' = LastStep
      /\ Nested' = Nested /\ Base' = Base /\ Top' = Top
      /\ Behind(6) => Behind(6)'
  BY <1>1 DEF On, Full, Negative, LastStep, Nested, Base, Top, Behind
<1>5. Asked' /\ Located'
  BY <1>1, <1>4 DEF Asked, Located
<1>6. ContentTells' /\ RequestTells' /\ NoneInFlight'
  BY <1>1, <1>4 DEF Inv, ContentTells, RequestTells, NoneInFlight
<1>7. OpenedOnce'
  BY <1>1, <1>4 DEF Inv, OpenedOnce
<1>8. Told'
  BY <1>1, <1>4 DEF Asked, Inv, Told, TheTruthOrNothing, NoResult
<1>9. CASE BalanceStep
  <2>1. /\ ~Nested /\ Base.index \in {3, 4, 5} /\ task.capability \in Balances
        /\ task.capability # "open_subaccount" /\ Control.role = "cell"
        /\ Base.index = 3 => Control.beside = "Savings_Balance"
        /\ Base.index = 4 => Control.beside = "Status"
        /\ Base.index = 5 => Control.beside = "As_Of" \/ Control.name = AsOf
    BY <1>2, <1>9 DEF BalanceStep, ReadsAt, Doing, Beside, Named, Balances
  <2>2. /\ Base.index = 3 => Control.name = Printed[On].balance /\ Account[On] = "savings"
        /\ Base.index = 4 => Control.name = Printed[On].status
        /\ Base.index = 5 => Control.name = AsOf
    BY <1>2, <2>1, Entries DEF Inv, ContentTells
  <2>3. \A k \in {3, 4, 5} : Behind(k)' <=> Base.index >= k
    BY <1>1, <1>4, <2>1 DEF Behind
  <2>4. \A k \in {3, 4, 5} : Behind(k) <=> Base.index > k
    BY <1>1, <2>1 DEF Behind
  <2> QED
    BY <1>1, <1>4, <1>5, <1>6, <1>7, <1>8, <2>1, <2>2, <2>3, <2>4 DEF Inv, ReadSoFar, Full
<1>10. CASE SubaccountStep
  <2>1. /\ ~Nested /\ Base.index = 7 /\ task.capability = "open_subaccount"
        /\ task.capability \notin Balances
        /\ Control.role = "cell" /\ Control.beside = "Reference"
    BY <1>1, <1>2, <1>10 DEF SubaccountStep, ReadsAt, Doing, Beside, Balances
  <2>2. Control.name = Printed[On].reference /\ opened = 1
    BY <1>2, <2>1, Entries DEF Inv, ContentTells, OpenedOnce
  <2> QED
    BY <1>1, <1>4, <1>5, <1>6, <1>7, <1>8, <2>1, <2>2 DEF Inv, ReadSoFar, Full
<1> QED
  BY <1>3, <1>9, <1>10

-----------------------------------------------------------------------------
(* No wait is over while a request is under way: until it is answered the  *)
(* page that was acted on is still there, whole.                           *)
LEMMA Answered ==
  ASSUME Inv, at = "wait", Awaited
  PROVE  request = NoRequest
<1> SUFFICES ASSUME request # NoRequest PROVE FALSE
  OBVIOUS
<1>1. /\ Step.does = "click" /\ held.nodes = Nodes(content) /\ held.url = "/"
      /\ Step.target.is = "Search" => content.page \in SearchPages
  BY DEF Inv, NoneInFlight
<1>2. /\ Step.wait \in {Navigation, Attentively}
      /\ Step.wait = Attentively => Step.target.is = "Search"
  <2>1. Navigation # Attentively
    BY DEF Navigation, Attentively, Until
  <2> QED
    BY <1>1, <2>1, StepAt
    DEF Inv, EntersAt, SearchesAt, BalanceStep, SubaccountStep, SignOnStep, ReadsAt, Doing, Named
<1>3. CASE Step.wait = Navigation
  BY <1>1, <1>3 DEF Awaited, IsAwaited, Navigation, Screen
<1>4. CASE Step.wait = Attentively
  <2>1. ~Evaluate(Attentively.until, Screen, Inputs)
    BY <1>1, <1>2, <1>4, NotYet DEF Screen
  <2> QED
    BY <1>4, <2>1 DEF Awaited, IsAwaited, Attentively, Until
<1> QED
  BY <1>2, <1>3, <1>4

(* The next step is the top's next.                                        *)
LEMMA WaitEndsStep ==
  ASSUME Inv, WaitEnds
  PROVE  Inv'
<1> DEFINE frame == [index |-> Top.index + 1, attempts |-> 0]
<1>1. /\ at = "wait" /\ request = NoRequest /\ Asked /\ Located /\ On \in Members
      /\ UNCHANGED <<task, bank>>
  BY Answered DEF WaitEnds, Looking, Inv, Asked
<1>2. CASE Fails("precondition_failed")
  BY <1>1, <1>2, Failed
<1>3. CASE Turns(frame) /\ at' = "look" /\ UNCHANGED <<held, seen, outputs, result>>
  <2>1. /\ at' = "look"
        /\ UNCHANGED <<task, held, outputs, result, request, content, opened>>
    BY <1>1, <1>3 DEF bank
  <2>2. /\ Base \in Frames /\ Base.index \in 1 .. 8 /\ Top.index \in 1 .. 8
        /\ ~Nested => Top = Base /\ Len(stack) = 1 /\ Base.index <= LastStep
        /\ Nested => Len(stack) = 2 /\ Top.index <= 3 /\ Base.index <= LastStep
        /\ LastStep \in {5, 7}
    BY <1>1, Stacked DEF Located, LastStep
  <2>3. frame \in Frames
    BY <2>2 DEF Frames
  <2>4. /\ stack' \in Seq(Frames) /\ Len(stack') = Len(stack)
        /\ stack'[Len(stack)] = frame
        /\ Len(stack) = 2 => stack'[1] = stack[1]
    <3>1. stack \in Seq(Frames) /\ Len(stack) \in {1, 2} /\ Turns(frame)
      BY <1>1, <1>3 DEF Located
    <3> HIDE DEF frame
    <3> QED
      BY <2>3, <3>1, Turned
  <2>5. /\ Nested' = Nested
        /\ Top'.index = Top.index + 1
        /\ Nested => Base' = Base
        /\ ~Nested => Base'.index = Base.index + 1
    BY <2>2, <2>4 DEF Nested, Top, Base
  <2>6. /\ On' = On /\ Full' = Full /\ Negative' = Negative /\ LastStep' = LastStep
        /\ \A k \in 1 .. 8 : Behind(k)' = Behind(k)
    BY <1>1, <2>1, <2>2, <2>5 DEF On, Full, Negative, LastStep, Behind
  <2>7. Asked'
    BY <1>1, <2>1, <2>6 DEF Asked
  <2>8. Located'
    BY <1>1, <2>1, <2>2, <2>4, <2>5, <2>6 DEF Located
  <2>9. ContentTells' /\ RequestTells' /\ NoneInFlight'
    BY <1>1, <2>1, <2>6 DEF Inv, ContentTells, RequestTells, NoneInFlight
  <2>10. ReadSoFar'
    <3>1. task.capability = "open_subaccount" => ~Nested
      BY <1>1 DEF Located, Recovering
    <3> QED
      BY <1>1, <2>1, <2>2, <2>5, <2>6, <3>1 DEF Inv, ReadSoFar
  <2>11. OpenedOnce'
    BY <1>1, <2>1, <2>6 DEF Inv, OpenedOnce
  <2>12. Told'
    BY <1>1, <2>1, <2>6 DEF Asked, Inv, Told, TheTruthOrNothing, NoResult
  <2> QED
    BY <2>7, <2>8, <2>9, <2>10, <2>11, <2>12 DEF Inv
<1> QED
  BY <1>2, <1>3 DEF WaitEnds

-----------------------------------------------------------------------------
(* What an answer leaves alone; what it must not break is what follows     *)
(* from the run: what the page and the next request tell, that no step is  *)
(* under way, and how often an account was opened.                         *)
LEMMA Served ==
  ASSUME Inv, request # NoRequest,
         UNCHANGED <<task, stack, at, held, seen, outputs, recovery, result>>,
         ContentTells', RequestTells', OpenedOnce',
         request' # NoRequest => UNCHANGED content,
         opened = 1 => opened' = 1
  PROVE  Inv'
<1>1. /\ On' = On /\ Full' = Full /\ Negative' = Negative /\ Base' = Base /\ Top' = Top
      /\ Nested' = Nested /\ LastStep' = LastStep /\ Step' = Step
      /\ \A k : Behind(k)' = Behind(k)
  BY DEF On, Full, Negative, Base, Top, Nested, LastStep, Step, Capability, Behind
<1>2. Asked' /\ Located'
  BY <1>1 DEF Inv, Asked, Located
<1>3. NoneInFlight'
  BY <1>1 DEF Inv, NoneInFlight
<1>4. ReadSoFar'
  BY <1>1 DEF Inv, ReadSoFar
<1>5. Told'
  BY <1>1 DEF Inv, OpenedOnce, Told, TheTruthOrNothing
<1> QED
  BY <1>2, <1>3, <1>4, <1>5 DEF Inv

(* A page that is shown.                                                   *)
LEMMA PageShown ==
  ASSUME Inv, request # NoRequest,
         UNCHANGED <<task, stack, at, held, seen, outputs, recovery, result>>,
         NEW page \in Pages, NEW member, content' = Document(page, member), request' = NoRequest,
         page \in {"record", "confirmation"} \cup FormPages => member = On /\ Reachable(On),
         page = "not_found" => Account[On] = "not_on_file",
         page = "denied" => Account[On] = "restricted",
         \/ /\ opened' = opened /\ page # "confirmation"
            /\ opened = 1 => page \in {"search", "sign_on", "unavailable", "notice"}
         \/ request.to = "POST_form" /\ opened' = opened + 1 /\ page = "confirmation"
  PROVE  Inv'
<1>1. On' = On /\ On \in Members
  BY DEF On, Inv, RequestTells
<1>2. ContentTells'
  BY <1>1 DEF ContentTells, Document, Fields, SearchPages, Reachable
<1>3. RequestTells'
  BY DEF RequestTells, NoRequest, Request
<1>4. Behind(6)' = Behind(6)
  BY DEF Behind, Base, Nested
<1>5. OpenedOnce'
  BY <1>4 DEF Inv, OpenedOnce, NoRequest, Request, Document
<1> QED
  BY <1>2, <1>3, <1>5, Served DEF Inv, OpenedOnce

(* A request that is sent elsewhere.                                       *)
LEMMA Redirected ==
  ASSUME Inv, request # NoRequest,
         UNCHANGED <<task, stack, at, held, seen, outputs, recovery, result, content, opened>>,
         NEW to \in {"GET_login", "GET_search", "GET_member"}, NEW member,
         request' = Get(to, member),
         to = "GET_member" => member = On /\ Reachable(On) /\ opened = 0
  PROVE  Inv'
<1>1. On' = On /\ On \in Members
  BY DEF On, Inv, RequestTells
<1>2. ContentTells'
  BY <1>1 DEF Inv, ContentTells
<1>3. RequestTells'
  BY <1>1 DEF RequestTells, Get, Request, NoRequest, Reachable
<1>4. Behind(6)' = Behind(6)
  BY DEF Behind, Base, Nested
<1>5. OpenedOnce'
  BY <1>4 DEF Inv, OpenedOnce, Get, Request
<1> QED
  BY <1>2, <1>3, <1>5, Served

(* The application answers about the member it was asked about.            *)
LEMMA AnswersStep ==
  ASSUME Inv, Answers
  PROVE  Inv'
<1>1. UNCHANGED <<task, stack, at, held, seen, outputs, recovery, result>>
  BY DEF Answers
<1>2. request # NoRequest
  BY DEF Answers, Serve, Unavailable, SessionExpires, NotSignedOn, Notice, Guarded, LoginForm,
    LoginSubmit, SearchForm, SearchSubmit, MemberPage, SubaccountSubmit, Passed, NoRequest, Request
<1>3. /\ On \in Members
      /\ request.to \in {"GET_member", "GET_form", "POST_form"} =>
           request.about = On /\ Reachable(On)
      /\ request.to = "POST_search" => request.fields["Member_Number"] \in {NoText, On}
      /\ opened = 1 => request.to \in {"GET_search", "GET_login"}
      /\ opened \in {0, 1}
      /\ request.to # "none"
  BY <1>2 DEF Inv, RequestTells, OpenedOnce
<1>4. CASE Unavailable
  BY <1>1, <1>2, <1>4, PageShown DEF Unavailable, Pages, FormPages
<1>5. CASE SessionExpires
  BY <1>1, <1>2, <1>5, Redirected DEF SessionExpires, Redirects
<1>6. CASE NotSignedOn
  BY <1>1, <1>2, <1>6, Redirected DEF NotSignedOn, Redirects
<1>7. CASE Notice
  BY <1>1, <1>2, <1>7, PageShown DEF Notice, Shows, Pages, FormPages
<1>8. CASE LoginForm
  BY <1>1, <1>2, <1>8, PageShown DEF LoginForm, Shows, Pages, SignOnPages, FormPages
<1>9. CASE LoginSubmit
  <2>1. opened = 0
    BY <1>3, <1>9 DEF LoginSubmit
  <2>2. CASE Redirects(Get("GET_search", Nobody))
    BY <1>1, <1>2, <1>9, <2>2, Redirected DEF LoginSubmit, Redirects
  <2>3. CASE Shows(Document("refused", Nobody))
    BY <1>1, <1>2, <1>9, <2>1, <2>3, PageShown DEF LoginSubmit, Shows, Pages, SignOnPages, FormPages
  <2> QED
    BY <1>9, <2>2, <2>3 DEF LoginSubmit
<1>10. CASE SearchForm
  BY <1>1, <1>2, <1>10, PageShown DEF SearchForm, Shows, Pages, SearchPages, FormPages
<1>11. CASE SearchSubmit
  <2> DEFINE asked == request.fields["Member_Number"]
  <2>1. opened = 0 /\ UNCHANGED opened /\ asked \in {NoText, On}
    BY <1>3, <1>11 DEF SearchSubmit, Passed
  <2>2. CASE Shows(Document("search_again", Nobody))
    BY <1>1, <1>2, <2>1, <2>2, PageShown DEF Shows, Pages, SearchPages, FormPages
  <2>3. CASE Reachable(On) /\ Redirects(Get("GET_member", On))
    BY <1>1, <1>2, <2>1, <2>3, Redirected DEF Redirects
  <2>4. CASE ~Reachable(On) /\ Shows(Withheld(On))
    <3>1. CASE Account[On] = "not_on_file"
      BY <1>1, <1>2, <2>1, <2>4, <3>1, PageShown DEF Withheld, Shows, Pages, FormPages
    <3>2. CASE Account[On] # "not_on_file"
      <4>1. Account[On] = "restricted"
        BY <1>3, <2>4, <3>2, BankAssumption DEF Reachable
      <4> QED
        BY <1>1, <1>2, <2>1, <2>4, <3>2, <4>1, PageShown DEF Withheld, Shows, Pages, FormPages
    <3> QED
      BY <3>1, <3>2
  <2> QED
    BY <1>11, <2>1, <2>2, <2>3, <2>4 DEF SearchSubmit
<1>12. CASE MemberPage("GET_member", "record")
  BY <1>1, <1>2, <1>3, <1>12, PageShown DEF MemberPage, Passed, Shows, Pages, FormPages
<1>13. CASE MemberPage("GET_form", "form")
  BY <1>1, <1>2, <1>3, <1>13, PageShown DEF MemberPage, Passed, Shows, Pages, FormPages
<1>14. CASE SubaccountSubmit
  <2>1. /\ request.to = "POST_form" /\ request.about = On /\ Reachable(On) /\ opened = 0
    BY <1>3, <1>14 DEF SubaccountSubmit, Passed
  <2>2. CASE Shows(Document("rejected", On)) /\ UNCHANGED opened
    BY <1>1, <1>2, <2>1, <2>2, PageShown DEF Shows, Pages, FormPages
  <2>3. CASE Shows(Document("form_again", On)) /\ UNCHANGED opened
    BY <1>1, <1>2, <2>1, <2>3, PageShown DEF Shows, Pages, FormPages
  <2>4. CASE Shows(Document("confirmation", On)) /\ opened' = opened + 1
    BY <1>1, <1>2, <2>1, <2>4, PageShown DEF Shows, Pages, FormPages
  <2> QED
    BY <1>14, <2>1, <2>2, <2>3, <2>4 DEF SubaccountSubmit
<1> QED
  BY <1>4, <1>5, <1>6, <1>7, <1>8, <1>9, <1>10, <1>11, <1>12, <1>13, <1>14 DEF Answers, Serve

-----------------------------------------------------------------------------
LEMMA InvInductive == Inv /\ [Next]_vars => Inv'
<1> SUFFICES ASSUME Inv, [Next]_vars PROVE Inv'
  OBVIOUS
<1>1. CASE UNCHANGED vars
  BY <1>1, Kept DEF vars, run, bank
<1>2. CASE \E capability \in DOMAIN Capabilities, member \in Members, valid \in BOOLEAN :
             Begin(capability, member, valid)
  BY <1>2, BeginStep
<1>3. CASE Executes
  BY <1>3, LoadedStep, SeesOutcomeStep, SeesRecoverableStep, SeesUnexpectedStep, SeesExpectedStep,
    CheckpointFailsStep, CheckpointHoldsStep, NotResolvedStep, TypesStep, ClicksStep, ReadsNothingStep,
    ExtractsStep, WaitEndsStep, WaitGoesOnStep, TimesOutStep
  DEF Executes
<1>4. CASE Answers
  BY <1>4, AnswersStep
<1>5. CASE \E fault \in Faults, count \in Counts : Arms(fault, count)
  BY <1>5, ArmsStep
<1> QED
  BY <1>1, <1>2, <1>3, <1>4, <1>5 DEF Next

LEMMA Invariance == Spec => []Inv
BY InitInv, InvInductive, PTL DEF Spec

(* What a run of a reference capability tells is true, whatever fails and  *)
(* however long pages take: the outputs are all there and are the          *)
(* member's, a negative answer is the one the records give, and a          *)
(* sub-account is asked for at most once, and exactly when the run says so *)
(* (replay/executor.py on apps/mock_bank).                                 *)
THEOREM Truthful == Spec => []TheTruthOrNothing
<1>1. Inv => TheTruthOrNothing
  BY DEF Inv, Told
<1> QED
  BY <1>1, Invariance, PTL

-----------------------------------------------------------------------------
(* A look-up the matrix speaks of: one that declares a recovery, begun     *)
(* signed on, with no fault armed while it is under way.                   *)
Watched == at # "over" /\ task.session /\ task.capability \in Recovering /\ ~midway

(* What was armed when the run began, and what the matrix has each come    *)
(* to: an answer, a recovery that is exhausted, or a person.               *)
Unarmed        == \A fault \in Faults : task.armed[fault] = 0
Alone(fault)   == Only(fault) /\ task.armed[fault] # 0
FailsOnce      == Alone("transient_load") /\ task.armed["transient_load"] = 1
FailsAlways    == Alone("transient_load") /\ task.armed["transient_load"] = -1
Expires        == Alone("session_timeout") /\ task.armed["session_timeout"] = 1
Interrupted    == Alone("undeclared_dialog")

Answerable == Unarmed \/ FailsOnce \/ (Expires /\ task.valid)
Exhausting == FailsAlways \/ (Expires /\ ~task.valid)

(* Nothing is left to go wrong; and where a look-up stands that has not    *)
(* left its first step, nor tried anything against a fault.                *)
Quiet == \A fault \in {"transient_load", "session_timeout", "undeclared_dialog"} : armed[fault] = 0

FirstStep == ~Nested /\ Base.index = 1
Untried   == Base.attempts = 0 /\ recovery = 0

(* The search page has been asked for and what was armed is still to come. *)
(* A fault that always comes back may have been met before.                *)
Starting ==
  /\ at = "load" /\ FirstStep /\ (FailsAlways \/ Untried)
  /\ session /\ failing = {} /\ armed = task.armed /\ outputs = {}
  /\ request = Get("GET_search", Nobody)

(* The application has said that it is unavailable.                        *)
Down ==
  /\ (FailsOnce /\ Untried /\ Quiet) \/ (FailsAlways /\ armed = task.armed)
  /\ at \in {"load", "look"} /\ FirstStep
  /\ session /\ failing # {} /\ outputs = {}
  /\ request = NoRequest /\ content.page = "unavailable"

(* A page the look-up knows nothing of is in the way.                      *)
Noticed ==
  /\ Interrupted
  /\ at \in {"load", "look"} /\ FirstStep
  /\ failing = {} /\ outputs = {}
  /\ request = NoRequest /\ content.page = "notice"

(* Signing on again, step by step of the remedy's capability: what has     *)
(* been typed is still there, and what was sent is what was typed. After   *)
(* the last step the page shows whether the credentials were good.         *)
Credential == IF task.valid THEN "valid" ELSE "invalid"
Typed(field) == content.page = "sign_on" /\ content.fields[field] = Credential

SignedOn ==
  request = NoRequest
  /\ ((task.valid /\ session /\ content.page = "search") \/ (~task.valid /\ content.page = "refused"))

SigningOn ==
  /\ Nested /\ Base.index = 1
  /\ \/ Top.index = 1 /\ at \in {"look", "act"} /\ content.page = "sign_on"
     \/ Top.index = 1 /\ at = "wait" /\ request = NoRequest /\ Typed("Operator_ID")
     \/ Top.index = 2 /\ at \in {"look", "act"} /\ Typed("Operator_ID")
     \/ /\ request = NoRequest /\ Typed("Operator_ID") /\ Typed("Password")
        /\ \/ Top.index = 2 /\ at = "wait"
           \/ Top.index = 3 /\ at \in {"look", "act"}
     \/ /\ Top.index = 3 /\ at = "wait" /\ Cardinality(held.nodes) = 3
        /\ \/ /\ content.page = "sign_on" /\ request.to = "POST_login"
              /\ DOMAIN request.fields = {"Operator_ID", "Password"}
              /\ \A f \in DOMAIN request.fields : request.fields[f] = Credential
           \/ task.valid /\ session /\ content.page = "sign_on" /\ request = Get("GET_search", Nobody)
           \/ SignedOn
     \/ Top.index = 4 /\ at = "look" /\ SignedOn

(* The session has expired: the sign-on page is asked for, shown, and then *)
(* signed on at, in a frame above the look-up's own.                       *)
SignedOff ==
  /\ Expires /\ Quiet /\ failing = {} /\ outputs = {}
  /\ \/ at = "load" /\ FirstStep /\ Untried /\ request = Get("GET_login", Nobody)
     \/ /\ at \in {"load", "look"} /\ FirstStep /\ Untried
        /\ request = NoRequest /\ content.page = "sign_on"
     \/ SigningOn

(* The page the search has led to is the one the records call for; the     *)
(* number of the member is in the field of the search form.                *)
AnswerShown ==
  /\ request = NoRequest
  /\ content.page = IF Account[On] = "not_on_file" THEN "not_found"
                    ELSE IF Account[On] = "restricted" THEN "denied" ELSE "record"
Entered == request = NoRequest /\ content.page = "search" /\ content.fields["Member_Number"] = On

(* Every fault is behind the run, or there was none: it opens the search   *)
(* page, enters the number, sends it, and reads the record.                *)
OnTheWay ==
  /\ Answerable /\ Quiet /\ session /\ failing = {} /\ ~Nested
  /\ \/ /\ Base.index = 1 /\ at = "load"
        /\ request = Get("GET_search", Nobody) \/ (request = NoRequest /\ content.page = "search")
     \/ Base.index = 1 /\ at \in {"look", "act"} /\ content.page = "search"
     \/ Base.index = 1 /\ at = "wait" /\ Entered
     \/ Base.index = 2 /\ at \in {"look", "act"} /\ Entered
     \/ /\ Base.index = 2 /\ at = "wait" /\ Cardinality(held.nodes) = 4
        /\ \/ /\ request.to = "POST_search" /\ request.fields["Member_Number"] = On
              /\ content.page = "search"
           \/ request = Get("GET_member", On) /\ content.page = "search"
           \/ AnswerShown
     \/ /\ Base.index \in 3 .. 6 /\ at \in {"look", "act", "wait"} /\ AnswerShown
        /\ Base.index > 3 \/ at # "look" => Account[On] = "savings"

(* The stages a watched look-up goes through, which with the type of what  *)
(* is armed and the matrix itself are inductive.                           *)
Tracked == Watched /\ (Answerable \/ Exhausting \/ Interrupted) =>
             Starting \/ Down \/ Noticed \/ SignedOff \/ OnTheWay

-----------------------------------------------------------------------------
(* Sets of a few different things.                                         *)
LEMMA Pair ==
  ASSUME NEW a, NEW b
  PROVE  IsFiniteSet({a, b}) /\ (a # b => Cardinality({a, b}) = 2)
<1> DEFINE S == {a}
<1>1. IsFiniteSet(S) /\ Cardinality(S) = 1 /\ (a # b => b \notin S)
  BY FS_Singleton
<1>2. {a, b} = S \cup {b}
  OBVIOUS
<1> HIDE DEF S
<1>3. IsFiniteSet(S \cup {b}) /\ (a # b => Cardinality(S \cup {b}) = 2)
  BY <1>1, FS_AddElement
<1> QED
  BY <1>2, <1>3, Zenon

LEMMA Three ==
  ASSUME NEW a, NEW b, NEW c
  PROVE  /\ IsFiniteSet({a, b, c})
         /\ a # b /\ a # c /\ b # c => Cardinality({a, b, c}) = 3
<1> DEFINE S == {a, b}
           Apart == a # b /\ a # c /\ b # c
<1>1. IsFiniteSet(S) /\ (Apart => Cardinality(S) = 2 /\ c \notin S)
  BY Pair, Zenon
<1>2. {a, b, c} = S \cup {c}
  OBVIOUS
<1> HIDE DEF S, Apart
<1>3. IsFiniteSet(S \cup {c}) /\ (Apart => Cardinality(S \cup {c}) = 3)
  BY <1>1, FS_AddElement
<1> QED
  BY <1>2, <1>3, Zenon DEF Apart

LEMMA Four ==
  ASSUME NEW a, NEW b, NEW c, NEW d
  PROVE  /\ IsFiniteSet({a, b, c, d})
         /\ a # b /\ a # c /\ b # c /\ a # d /\ b # d /\ c # d => Cardinality({a, b, c, d}) = 4
<1> DEFINE S == {a, b, c}
           Apart == a # b /\ a # c /\ b # c /\ a # d /\ b # d /\ c # d
<1>1. IsFiniteSet(S) /\ (Apart => Cardinality(S) = 3 /\ d \notin S)
  BY Three, Zenon
<1>2. {a, b, c, d} = S \cup {d}
  OBVIOUS
<1> HIDE DEF S, Apart
<1>3. IsFiniteSet(S \cup {d}) /\ (Apart => Cardinality(S \cup {d}) = 4)
  BY <1>1, FS_AddElement
<1> QED
  BY <1>2, <1>3, Zenon DEF Apart

(* The pages of a look-up and how many controls they have.                 *)
LEMMA SearchForms ==
  ASSUME NEW d, d.page = "search"
  PROVE  /\ IsFiniteSet(Nodes(d)) /\ Cardinality(Nodes(d)) = 4
         /\ SignOff \in Nodes(d)
         /\ Button("Search") \in Nodes(d)
         /\ Node("textbox", "Member_Number", d.fields["Member_Number"], "Member_Number") \in Nodes(d)
         /\ \A n \in Nodes(d) :
              /\ n.role = "textbox" =>
                   n = Node("textbox", "Member_Number", d.fields["Member_Number"], "Member_Number")
              /\ n.role = "button" => n = Button("Search")
              /\ n.name # "Invalid_operator_ID_or_password"
<1> DEFINE box == Node("textbox", "Member_Number", d.fields["Member_Number"], "Member_Number")
           button == Button("Search")
           label == Label("Seeded_members")
<1>1. Nodes(d) = {SignOff, box, button, label}
  BY DEF Nodes
<1>2. SignOff.role = "link" /\ box.role = "textbox" /\ button.role = "button" /\ label.role = "cell"
  BY DEF SignOff, Link, Button, Label, Node
<1>3. /\ SignOff # box /\ SignOff # button /\ box # button
      /\ SignOff # label /\ box # label /\ button # label
  BY <1>2
<1> HIDE DEF box, button, label
<1>4. IsFiniteSet(Nodes(d)) /\ Cardinality(Nodes(d)) = 4
  <2>1. /\ IsFiniteSet({SignOff, box, button, label})
        /\ Cardinality({SignOff, box, button, label}) = 4
    BY <1>3, Four, Zenon
  <2> QED
    BY <1>1, <2>1, Zenon
<1>5. \A n \in Nodes(d) : (n.role = "textbox" => n = box) /\ (n.role = "button" => n = button)
  BY <1>1, <1>2
<1>6. \A n \in Nodes(d) : n.name # "Invalid_operator_ID_or_password"
  BY <1>1 DEF box, button, label, SignOff, Link, Button, Label, Node
<1> QED
  BY <1>1, <1>4, <1>5, <1>6 DEF box, button

LEMMA SignOnForms ==
  ASSUME NEW d, d.page \in SignOnPages
  PROVE  /\ IsFiniteSet(Nodes(d))
         /\ Cardinality(Nodes(d)) = IF d.page = "sign_on" THEN 3 ELSE 4
         /\ Button("Sign_On") \in Nodes(d)
         /\ \A f \in {"Operator_ID", "Password"} : Node("textbox", f, d.fields[f], f) \in Nodes(d)
         /\ d.page = "refused" => Label("Invalid_operator_ID_or_password") \in Nodes(d)
         /\ \A n \in Nodes(d) :
              /\ n.role = "textbox" /\ n.name = "Operator_ID" =>
                   n = Node("textbox", "Operator_ID", d.fields["Operator_ID"], "Operator_ID")
              /\ n.role = "textbox" /\ n.name = "Password" =>
                   n = Node("textbox", "Password", d.fields["Password"], "Password")
              /\ n.role = "button" => n = Button("Sign_On")
              /\ n.name = "Invalid_operator_ID_or_password" => d.page = "refused"
<1> DEFINE box(f) == Node("textbox", f, d.fields[f], f)
           one == box("Operator_ID")
           two == box("Password")
           button == Button("Sign_On")
           label == Label("Invalid_operator_ID_or_password")
<1>1. Fields(d.page) = {"Operator_ID", "Password"}
  BY DEF Fields, SignOnPages
<1>2. {box(f) : f \in Fields(d.page)} = {one, two}
  BY <1>1
<1>3. Nodes(d) = IF d.page = "sign_on" THEN {one, two, button} ELSE {one, two, button, label}
  <2>1. Nodes(d) = {box(f) : f \in Fields(d.page)} \cup {button}
                     \cup (IF d.page = "refused" THEN {label} ELSE {})
    BY DEF Nodes, SignOnPages
  <2> HIDE DEF box, one, two, button, label
  <2> QED
    BY <1>2, <2>1 DEF SignOnPages
<1>4. /\ one.role = "textbox" /\ two.role = "textbox" /\ button.role = "button" /\ label.role = "cell"
      /\ one.name = "Operator_ID" /\ two.name = "Password" /\ button.name = "Sign_On"
      /\ label.name = "Invalid_operator_ID_or_password"
  BY DEF Button, Label, Node
<1>5. /\ one # two /\ one # button /\ two # button
      /\ one # label /\ two # label /\ button # label
  BY <1>4
<1> HIDE DEF one, two, button, label
<1>6. /\ IsFiniteSet(Nodes(d))
      /\ Cardinality(Nodes(d)) = IF d.page = "sign_on" THEN 3 ELSE 4
  <2>1. IsFiniteSet({one, two, button}) /\ Cardinality({one, two, button}) = 3
    BY <1>5, Three, Zenon
  <2>2. IsFiniteSet({one, two, button, label}) /\ Cardinality({one, two, button, label}) = 4
    BY <1>5, Four, Zenon
  <2> QED
    BY <1>3, <2>1, <2>2, Zenon
<1>7. \A n \in Nodes(d) :
        /\ n.role = "textbox" /\ n.name = "Operator_ID" => n = one
        /\ n.role = "textbox" /\ n.name = "Password" => n = two
        /\ n.role = "button" => n = button
        /\ n.name = "Invalid_operator_ID_or_password" => d.page = "refused"
  BY <1>3, <1>4 DEF SignOnPages
<1>8. \A f \in {"Operator_ID", "Password"} : Node("textbox", f, d.fields[f], f) \in Nodes(d)
  BY <1>3 DEF one, two
<1> QED
  BY <1>3, <1>6, <1>7, <1>8 DEF one, two, button, label, SignOnPages

LEMMA Refusals ==
  ASSUME NEW d, d.page \in {"not_found", "denied"}
  PROVE  /\ IsFiniteSet(Nodes(d)) /\ Cardinality(Nodes(d)) = 3
         /\ \A n \in Nodes(d) : n.role \in {"cell", "link"}
         /\ d.page = "not_found" => Label("No_records_found") \in Nodes(d)
         /\ d.page = "denied" => Label("not_authorized") \in Nodes(d)
<1> DEFINE label == Label(IF d.page = "not_found" THEN "No_records_found" ELSE "not_authorized")
           back == Link("Return_to_search")
<1>1. Nodes(d) = {SignOff, label, back}
  BY DEF Nodes
<1>2. /\ SignOff.role = "link" /\ label.role = "cell" /\ back.role = "link"
      /\ SignOff.name = "Sign_Off" /\ back.name = "Return_to_search"
  BY DEF SignOff, Link, Label, Node
<1>3. SignOff # label /\ SignOff # back /\ label # back
  BY <1>2
<1> HIDE DEF label, back
<1>4. IsFiniteSet(Nodes(d)) /\ Cardinality(Nodes(d)) = 3
  <2>1. IsFiniteSet({SignOff, label, back}) /\ Cardinality({SignOff, label, back}) = 3
    BY <1>3, Three, Zenon
  <2> QED
    BY <1>1, <2>1, Zenon
<1>5. \A n \in Nodes(d) : n.role \in {"cell", "link"}
  BY <1>1, <1>2
<1> QED
  BY <1>1, <1>4, <1>5 DEF label

LEMMA Records ==
  ASSUME NEW d, d.page = "record"
  PROVE  /\ IsFiniteSet(Nodes(d)) /\ Cardinality(Nodes(d)) >= 5
         /\ \A n \in Nodes(d) : n.role \in {"cell", "link"}
         /\ Label("Accounts_Overview") \in Nodes(d)
         /\ Account[d.about] = "savings" =>
              /\ {Label("Savings_Balance"), Entry("Savings_Balance", Printed[d.about].balance),
                  Label("Status"), Entry("Status", Printed[d.about].status),
                  Label("As_Of"), Entry("As_Of", AsOf)} \subseteq Nodes(d)
              /\ \A n \in Nodes(d) :
                   /\ n.beside = "Savings_Balance" =>
                        n = Entry("Savings_Balance", Printed[d.about].balance)
                   /\ n.beside = "Status" => n = Entry("Status", Printed[d.about].status)
                   /\ n.beside = "As_Of" => n = Entry("As_Of", AsOf)
         /\ Account[d.about] # "savings" => Label("No_savings_account_on_file") \in Nodes(d)
<1> DEFINE common == {SignOff, Label("Accounts_Overview"), Label("Status"), Label("Checking"),
                      Link("Open_Sub-Account")}
           balance == {Label("Savings_Balance"), Entry("Savings_Balance", Printed[d.about].balance),
                       Entry("Status", Printed[d.about].status), Label("As_Of"), Entry("As_Of", AsOf)}
           rest == IF Account[d.about] = "savings" THEN balance
                   ELSE {Label("No_savings_account_on_file")}
<1>1. Nodes(d) = common \cup rest
  BY DEF Nodes
<1>2. IsFiniteSet(common) /\ Cardinality(common) = 5
  <2> DEFINE overview == Label("Accounts_Overview")
             status == Label("Status")
             checking == Label("Checking")
             open == Link("Open_Sub-Account")
  <2>1. /\ SignOff # overview /\ SignOff # status /\ overview # status
        /\ SignOff # checking /\ overview # checking /\ status # checking
        /\ SignOff # open /\ overview # open /\ status # open /\ checking # open
    BY DEF SignOff, Label, Link, Node
  <2> DEFINE four == {SignOff, overview, status, checking}
  <2>2. common = four \cup {open} /\ open \notin four
    BY <2>1
  <2> HIDE DEF common, overview, status, checking, open
  <2>3. IsFiniteSet(four) /\ Cardinality(four) = 4
    BY <2>1, Four, Zenon
  <2> HIDE DEF four
  <2> QED
    BY <2>2, <2>3, FS_AddElement
<1>3. IsFiniteSet(rest)
  <2>1. IsFiniteSet({Label("No_savings_account_on_file")})
    BY FS_Singleton
  <2>2. IsFiniteSet(balance)
    <3> DEFINE four == {Label("Savings_Balance"), Entry("Savings_Balance", Printed[d.about].balance),
                        Entry("Status", Printed[d.about].status), Label("As_Of")}
               asof == Entry("As_Of", AsOf)
    <3>1. IsFiniteSet(four)
      BY Four, Zenon
    <3>2. balance = four \cup {asof}
      OBVIOUS
    <3> HIDE DEF balance, four, asof
    <3> QED
      BY <3>1, <3>2, FS_AddElement
  <2> QED
    BY <2>1, <2>2
<1>4. IsFiniteSet(Nodes(d)) /\ Cardinality(Nodes(d)) >= 5
  <2> HIDE DEF common, rest
  <2>1. IsFiniteSet(Nodes(d))
    BY <1>1, <1>2, <1>3, FS_Union
  <2> QED
    BY <1>1, <1>2, <2>1, FS_Subset
<1>5. \A n \in common \cup balance \cup {Label("No_savings_account_on_file")} :
        n.role \in {"cell", "link"}
  BY DEF SignOff, Label, Link, Entry, Node
<1>6. \A n \in common \cup balance :
        /\ n.beside = "Savings_Balance" => n = Entry("Savings_Balance", Printed[d.about].balance)
        /\ n.beside = "Status" => n = Entry("Status", Printed[d.about].status)
        /\ n.beside = "As_Of" => n = Entry("As_Of", AsOf)
  BY DEF SignOff, Label, Link, Entry, Node, NoText
<1> QED
  BY <1>1, <1>4, <1>5, <1>6

-----------------------------------------------------------------------------
(* What predicates come to on a page of finitely many nodes.               *)
Displays(screen, role, name) == \E n \in screen.nodes : n.role = role /\ n.name = name

(* A set of controls to be seen is met by one that is there.               *)
LEMMA SomeHolds ==
  ASSUME NEW role, NEW names, names # {}, NEW screen, IsFiniteSet(screen.nodes), NEW inputs
  PROVE  Asserted(Some(role, names), screen, inputs)
           <=> \E n \in screen.nodes : n.role = role /\ n.name \in names
<1> DEFINE found == Select(Query(role, names), screen)
<1>1. found = {n \in screen.nodes : n.role = role /\ n.name \in names}
  BY DEF Select, Query
<1>2. IsFiniteSet(found)
  BY <1>1, FS_Subset
<1> HIDE DEF found
<1>3. Cardinality(found) >= 1 <=> found # {}
  BY <1>2, FS_CardinalityType, FS_EmptySet
<1>4. Asserted(Some(role, names), screen, inputs) <=> Cardinality(found) >= 1
  BY SMT DEF Asserted, Some, found
<1> QED
  BY <1>1, <1>3, <1>4

LEMMA ShownHolds ==
  ASSUME NEW role, NEW name, NEW screen, IsFiniteSet(screen.nodes), NEW inputs
  PROVE  /\ Asserted(Exists(role, name), screen, inputs) <=> Displays(screen, role, name)
         /\ Asserted(Absent(role, name), screen, inputs) <=> ~Displays(screen, role, name)
<1>1. Asserted(Exists(role, name), screen, inputs) <=> Displays(screen, role, name)
  BY SomeHolds DEF Exists, Displays
<1>2. Asserted(Absent(role, name), screen, inputs) <=> Select(Query(role, {name}), screen) = {}
  BY SMT DEF Asserted, Absent
<1>3. Select(Query(role, {name}), screen) = {} <=> ~Displays(screen, role, name)
  BY DEF Select, Query, Displays
<1> QED
  BY <1>1, <1>2, <1>3

IsSimple(p) == p.assert \notin {"all_of", "any_of", "not"}

(* Predicates of one or two levels come to what they assert.               *)
LEMMA SimpleHolds ==
  ASSUME NEW p, IsSimple(p), NEW screen, NEW inputs
  PROVE  Evaluate(p, screen, inputs) <=> Asserted(p, screen, inputs)
BY SMT DEF Evaluate, IsSimple

LEMMA AllHold ==
  ASSUME NEW all, \A p \in all : IsSimple(p), NEW screen, NEW inputs
  PROVE  Evaluate(AllOf(all), screen, inputs) <=> \A p \in all : Asserted(p, screen, inputs)
<1>1. AllOf(all).assert = "all_of" /\ AllOf(all).of = all
  BY DEF AllOf
<1> DEFINE predicate == AllOf(all)
<1> HIDE DEF predicate
<1> QED
  BY <1>1, SMT DEF Evaluate, IsSimple

LEMMA Simple ==
  /\ \A role, names : IsSimple(Some(role, names))
  /\ \A role, name : IsSimple(Exists(role, name)) /\ IsSimple(Absent(role, name))
  /\ \A codes : IsSimple(StatusIn(codes))
  /\ IsSimple(Nothing) /\ IsSimple(MemberEntered)
BY SMT DEF IsSimple, Some, Exists, Absent, StatusIn, Nothing, MemberEntered

LEMMA OthersHold ==
  ASSUME NEW screen, NEW inputs
  PROVE  /\ Asserted(Nothing, screen, inputs)
         /\ \A codes : Asserted(StatusIn(codes), screen, inputs) <=> screen.status \in codes
BY SMT DEF Asserted, Nothing, StatusIn

-----------------------------------------------------------------------------
(* The documents, step by step: what is asserted.                          *)
Asserting(step, precondition, postcondition) ==
  step.precondition = precondition /\ step.postcondition = postcondition

LEMMA SavingsBalanceAsserts ==
  ASSUME NEW wait
  PROVE  /\ Asserting(SavingsBalance(wait).steps[1], Exists("textbox", "Member_Number"), MemberEntered)
         /\ Asserting(SavingsBalance(wait).steps[2], Nothing, Absent("textbox", "Member_Number"))
         /\ Asserting(SavingsBalance(wait).steps[3], Exists("cell", "Savings_Balance"), Nothing)
         /\ Asserting(SavingsBalance(wait).steps[4], Exists("cell", "Status"), Nothing)
         /\ Asserting(SavingsBalance(wait).steps[5], Exists("cell", "As_Of"), Nothing)
<1> DEFINE steps == SavingsBalance(wait).steps
<1>1. steps = <<Then(MemberAsked, MemberEntered), Submitted(wait), Shown("Savings_Balance"),
                Shown("Status"), Shown("As_Of")>>
  BY DEF SavingsBalance
<1>2. \A label : Asserting(Shown(label), Exists("cell", label), Nothing)
  BY SMT DEF Shown, Given, Read, Do, Asserting
<1>3. Asserting(Submitted(wait), Nothing, Absent("textbox", "Member_Number"))
  BY SMT DEF Submitted, Then, Submit, Do, Asserting
<1>4. MemberAsked.precondition = Exists("textbox", "Member_Number")
      /\ DOMAIN MemberAsked = DOMAIN EnterMember
  BY SMT DEF MemberAsked, Given, EnterMember, Do
<1>5. Asserting(Then(MemberAsked, MemberEntered), Exists("textbox", "Member_Number"), MemberEntered)
  BY <1>4, SMT DEF MemberAsked, Then, Given, EnterMember, Do, Asserting
<1> HIDE DEF steps
<1>6. Len(steps) = 5 /\ steps[1] = Then(MemberAsked, MemberEntered) /\ steps[2] = Submitted(wait)
      /\ steps[3] = Shown("Savings_Balance") /\ steps[4] = Shown("Status")
      /\ steps[5] = Shown("As_Of")
  BY <1>1, SMT
<1> QED
  BY <1>2, <1>3, <1>5, <1>6 DEF steps

LEMMA SignOnAsserts ==
  /\ Asserting(SignOn.steps[1], Exists("textbox", "Operator_ID"), Nothing)
  /\ Asserting(SignOn.steps[2], Nothing, Nothing)
  /\ Asserting(SignOn.steps[3], Nothing, Nothing)
  /\ \A k \in {1, 2} : SignOn.steps[k].value = Secret
BY SMTT(30) DEF SignOn, Asserting, EnterSecret, Given, Do

(* What a look-up asks and does, step by step.                             *)
LookUp == ~Nested /\ task.capability \in Recovering

LEMMA LookUpSteps ==
  ASSUME LookUp, Top = Base
  PROVE  /\ Len(Capability.steps) = 5
         /\ Base.index = 1 =>
              /\ Doing(Step, "type", Named("textbox", "Member_Number"), Stable)
              /\ Step.value = Input("member_id")
              /\ Asserting(Step, Exists("textbox", "Member_Number"), MemberEntered)
         /\ Base.index = 2 =>
              /\ Step.does = "click" /\ Step.target = Named("button", "Search")
              /\ Step.wait \in {Navigation, Attentively}
              /\ Asserting(Step, Nothing, Absent("textbox", "Member_Number"))
         /\ Base.index = 3 =>
              /\ Doing(Step, "extract", Beside("cell", "Savings_Balance"), Stable)
              /\ Asserting(Step, Exists("cell", "Savings_Balance"), Nothing)
         /\ Base.index = 4 =>
              /\ Doing(Step, "extract", Beside("cell", "Status"), Stable)
              /\ Asserting(Step, Exists("cell", "Status"), Nothing)
         /\ Base.index = 5 =>
              /\ Doing(Step, "extract", Beside("cell", "As_Of"), Stable)
              /\ Asserting(Step, Exists("cell", "As_Of"), Nothing)
         /\ Capability.outcomes = <<Outcome("member_not_found", "No_records_found"),
                                    Outcome("no_savings_account", "No_savings_account_on_file"),
                                    Outcome("permission_denied", "not_authorized")>>
         /\ Capability.recovery = <<TransientLoad, SessionExpired>>
         /\ Capability.checkpoint = AllOf({Exists("cell", "Savings_Balance"), Some("cell", Amounts)})
         /\ Permits(Capability, "reload")
<1>1. PICK wait \in {Navigation, Attentively} : Capability = SavingsBalance(wait)
  BY DEF Capability, Capabilities, Recovering, LookUp
<1>2. /\ Capability.outcomes = <<Outcome("member_not_found", "No_records_found"),
                                 Outcome("no_savings_account", "No_savings_account_on_file"),
                                 Outcome("permission_denied", "not_authorized")>>
      /\ Capability.recovery = <<TransientLoad, SessionExpired>>
      /\ Capability.checkpoint = AllOf({Exists("cell", "Savings_Balance"), Some("cell", Amounts)})
      /\ "reload" \in Capability.allowed
  BY <1>1 DEF SavingsBalance
<1>3. Step = SavingsBalance(wait).steps[Base.index]
  BY <1>1 DEF Step
<1> QED
  BY <1>1, <1>2, <1>3, SavingsBalanceSteps, SavingsBalanceAsserts DEF Doing, Permits

(* What signing on again asks and does, step by step.                      *)
LEMMA RemedySteps ==
  ASSUME Nested
  PROVE  /\ Len(Capability.steps) = 3
         /\ Top.index = 1 =>
              /\ Doing(Step, "type", Named("textbox", "Operator_ID"), Stable) /\ Step.value = Secret
              /\ Asserting(Step, Exists("textbox", "Operator_ID"), Nothing)
         /\ Top.index = 2 =>
              /\ Doing(Step, "type", Named("textbox", "Password"), Stable) /\ Step.value = Secret
              /\ Asserting(Step, Nothing, Nothing)
         /\ Top.index = 3 =>
              /\ Doing(Step, "click", Named("button", "Sign_On"), Navigation)
              /\ Asserting(Step, Nothing, Nothing)
         /\ Capability.outcomes =
              <<Outcome("invalid_credentials", "Invalid_operator_ID_or_password")>>
         /\ Capability.recovery = <<>>
         /\ Capability.checkpoint = AllOf({Exists("link", "Sign_Off"), Absent("button", "Sign_On")})
<1>1. Capability = SignOn
  BY DEF Capability
<1>2. /\ Capability.outcomes =
              <<Outcome("invalid_credentials", "Invalid_operator_ID_or_password")>>
      /\ Capability.recovery = <<>>
      /\ Capability.checkpoint = AllOf({Exists("link", "Sign_Off"), Absent("button", "Sign_On")})
  BY <1>1 DEF SignOn
<1>3. Step = SignOn.steps[Top.index]
  BY <1>1 DEF Step
<1> QED
  BY <1>1, <1>2, <1>3, SignOnSteps, SignOnAsserts

-----------------------------------------------------------------------------
(* What a look-up is told by the screen it sees.                           *)
LEMMA OutcomesFire ==
  ASSUME Inv, LookUp, Top = Base
  PROVE  Fires(Capability.outcomes, Screen, Inputs) =
           IF content.page = "not_found" THEN {1}
           ELSE IF content.page = "record" /\ Account[On] # "savings" THEN {2}
           ELSE IF content.page = "denied" THEN {3} ELSE {}
<1> DEFINE texts == <<"No_records_found", "No_savings_account_on_file", "not_authorized">>
           outcomes == Capability.outcomes
<1>1. /\ DOMAIN outcomes = {1, 2, 3}
      /\ \A k \in {1, 2, 3} : outcomes[k].detect = Text(texts[k])
  BY LookUpSteps DEF Outcome
<1>2. /\ content.page \in Pages
      /\ content.page \in {"record", "confirmation"} => content.about \in Members
      /\ content.page = "record" => content.about = On
  BY DEF Inv, ContentTells
<1>3. \A k \in {1, 2, 3} : Evaluate(outcomes[k].detect, Screen, Inputs)
                             <=> \E n \in Nodes(content) : n.name = texts[k]
  <2>1. \A k \in {1, 2, 3} : Evaluate(Text(texts[k]), Screen, Inputs)
                               <=> texts[k] \in TextContent(Screen)
    BY TextHolds
  <2>2. \A k \in {1, 2, 3} : texts[k] # NoText
    BY DEF NoText
  <2>3. Screen.nodes = Nodes(content)
    BY DEF Screen
  <2> HIDE DEF texts, outcomes
  <2> QED
    BY <1>1, <2>1, <2>2, <2>3 DEF TextContent
<1>4. (\E n \in Nodes(content) : n.name = "No_records_found") <=> content.page = "not_found"
  BY <1>2, Wordings, Refusals DEF Label, Node
<1>5. (\E n \in Nodes(content) : n.name = "No_savings_account_on_file")
        <=> content.page = "record" /\ Account[On] # "savings"
  BY <1>2, Wordings, Records DEF Label, Node
<1>6. (\E n \in Nodes(content) : n.name = "not_authorized") <=> content.page = "denied"
  BY <1>2, Wordings, Refusals DEF Label, Node
<1>7. Fires(outcomes, Screen, Inputs) =
        {k \in {1, 2, 3} : \E n \in Nodes(content) : n.name = texts[k]}
  BY <1>1, <1>3 DEF Fires
<1> QED
  BY <1>4, <1>5, <1>6, <1>7

(* The rules of recovery that fire: the application down, or its sign-on   *)
(* page.                                                                   *)
LEMMA RecoveryFires ==
  ASSUME Inv, LookUp, Top = Base
  PROVE  /\ Capability.recovery[1] = TransientLoad
         /\ Capability.recovery[2] = SessionExpired
         /\ Fires(Capability.recovery, Screen, Inputs) =
              (IF failing # {} THEN {1} ELSE {})
                \cup (IF content.page \in SignOnPages THEN {2} ELSE {})
<1> DEFINE rules == Capability.recovery
           form == {Exists("textbox", "Operator_ID"), Exists("button", "Sign_On")}
<1>1. /\ DOMAIN rules = {1, 2} /\ rules[1] = TransientLoad /\ rules[2] = SessionExpired
  BY LookUpSteps
<1>2. content.page \in Pages /\ Screen.nodes = Nodes(content)
  BY DEF Inv, ContentTells, Screen
<1>3. Evaluate(TransientLoad.detect, Screen, Inputs) <=> failing # {}
  <2>1. TransientLoad.detect = StatusIn({502, 503, 504})
    BY DEF TransientLoad
  <2>2. Evaluate(StatusIn({502, 503, 504}), Screen, Inputs) <=> Screen.status \in {502, 503, 504}
    BY Simple, SimpleHolds, OthersHold
  <2> QED
    BY <2>1, <2>2 DEF Screen, LastStatus
<1>4. Evaluate(SessionExpired.detect, Screen, Inputs) <=> content.page \in SignOnPages
  <2>1. SessionExpired.detect = AllOf(form)
    BY DEF SessionExpired
  <2>2. Evaluate(AllOf(form), Screen, Inputs) <=>
          /\ Asserted(Exists("textbox", "Operator_ID"), Screen, Inputs)
          /\ Asserted(Exists("button", "Sign_On"), Screen, Inputs)
    BY Simple, AllHold
  <2>3. CASE content.page \in SignOnPages
    <3>1. IsFiniteSet(Screen.nodes)
      BY <1>2, <2>3, SignOnForms
    <3>2. Displays(Screen, "textbox", "Operator_ID") /\ Displays(Screen, "button", "Sign_On")
      <4>1. /\ Node("textbox", "Operator_ID", content.fields["Operator_ID"], "Operator_ID")
                  \in Screen.nodes
            /\ Button("Sign_On") \in Screen.nodes
        BY <1>2, <2>3, SignOnForms
      <4> QED
        BY <4>1 DEF Displays, Button, Node
    <3> QED
      BY <2>1, <2>2, <2>3, <3>1, <3>2, ShownHolds
  <2>4. CASE content.page \notin SignOnPages
    <3>1. ~Evaluate(Exists("button", "Sign_On"), Screen, Inputs)
      BY <1>2, <2>4, ExistsHolds, Controls
    <3> QED
      BY <2>1, <2>2, <2>4, <3>1, Simple, SimpleHolds
  <2> QED
    BY <2>3, <2>4
<1>5. Fires(rules, Screen, Inputs) =
        {k \in {1, 2} : IF k = 1 THEN failing # {} ELSE content.page \in SignOnPages}
  BY <1>1, <1>3, <1>4 DEF Fires
<1> QED
  BY <1>1, <1>5

(* Of what fires, the first counts; here only one does.                    *)
LEMMA FirstOnly == First({1}) = 1 /\ First({2}) = 2 /\ First({3}) = 3
BY FirstFires

-----------------------------------------------------------------------------
(* What the program does is one of a few things, by what it was doing.     *)
LEMMA Doings ==
  ASSUME Executes
  PROVE  /\ at = "load" => Loaded
         /\ at = "look" => \/ SeesOutcome \/ SeesRecoverable \/ SeesUnexpected \/ SeesExpected
                           \/ CheckpointFails \/ CheckpointHolds
         /\ at = "act" => NotResolved \/ Types \/ Clicks \/ ReadsNothing \/ Extracts
         /\ at = "wait" => WaitEnds \/ WaitGoesOn \/ TimesOut
         /\ at # "over" /\ UNCHANGED <<task, midway>>
<1>1. CASE Loaded
  BY <1>1 DEF Loaded, Looking
<1>2. CASE SeesOutcome \/ SeesRecoverable \/ SeesUnexpected \/ SeesExpected
           \/ CheckpointFails \/ CheckpointHolds
  <2>1. at = "look" /\ UNCHANGED <<task, midway>>
    BY <1>2 DEF SeesOutcome, SeesRecoverable, SeesUnexpected, SeesExpected, CheckpointFails,
      CheckpointHolds, AtStep, AtCheckpoint, Looking
  <2> QED
    BY <1>2, <2>1
<1>3. CASE NotResolved \/ Types \/ Clicks \/ ReadsNothing \/ Extracts
  <2>1. at = "act" /\ UNCHANGED <<task, midway>>
    BY <1>3 DEF NotResolved, Types, Clicks, ReadsNothing, Extracts, Settles, Looking
  <2> QED
    BY <1>3, <2>1
<1>4. CASE WaitEnds \/ WaitGoesOn \/ TimesOut
  <2>1. at = "wait" /\ UNCHANGED <<task, midway>>
    BY <1>4 DEF WaitEnds, WaitGoesOn, TimesOut, Looking
  <2> QED
    BY <1>4, <2>1
<1> QED
  BY <1>1, <1>2, <1>3, <1>4 DEF Executes

(* What a look leads to, by what the screen means.                         *)
LEMMA SeesByVerdict ==
  ASSUME Executes, at = "look", Top.index \in Nat, Len(Capability.steps) \in Nat
  PROVE  /\ Verdict = "business_outcome" => SeesOutcome
         /\ Top.index <= Len(Capability.steps) =>
              /\ Verdict = "recoverable" => SeesRecoverable
              /\ Verdict = "unexpected_state" => SeesUnexpected
              /\ Verdict = "expected" => SeesExpected
         /\ Top.index > Len(Capability.steps) =>
              (Verdict = "expected" => CheckpointHolds)
<1>1. SeesOutcome => Verdict = "business_outcome"
  BY DEF SeesOutcome
<1>2. SeesRecoverable => AtStep /\ Verdict = "recoverable"
  BY DEF SeesRecoverable
<1>3. SeesUnexpected => AtStep /\ Verdict = "unexpected_state"
  BY DEF SeesUnexpected
<1>4. SeesExpected => AtStep /\ Verdict = "expected"
  BY DEF SeesExpected
<1>5. CheckpointFails => AtCheckpoint /\ Verdict \notin {"expected", "business_outcome"}
  BY DEF CheckpointFails
<1>6. CheckpointHolds => AtCheckpoint /\ Verdict = "expected"
  BY DEF CheckpointHolds
<1>7. /\ AtStep => Top.index <= Len(Capability.steps)
      /\ AtCheckpoint => Top.index > Len(Capability.steps)
  BY DEF AtStep, AtCheckpoint
<1> QED
  BY <1>1, <1>2, <1>3, <1>4, <1>5, <1>6, <1>7, Doings

(* With one control that is meant, it is the one that is used.             *)
LEMMA ActsOnOne ==
  ASSUME Executes, at = "act", NEW node, Found = {node}
  PROVE  /\ Control = node
         /\ Step.does = "type" => Types
         /\ Step.does = "click" => Clicks
         /\ Step.does = "extract" => IF node.name = NoText THEN ReadsNothing ELSE Extracts
<1>1. Cardinality(Found) = 1
  BY FS_Singleton
<1>2. Control = node
  BY DEF Control
<1>3. ~NotResolved
  BY <1>1 DEF NotResolved
<1>4. /\ Types => Step.does \in {"type", "select"}
      /\ Clicks => Step.does = "click"
      /\ ReadsNothing => Step.does = "extract" /\ Control.name = NoText
      /\ Extracts => Step.does = "extract" /\ Control.name # NoText
  BY DEF Types, Clicks, ReadsNothing, Extracts
<1> QED
  BY <1>2, <1>3, <1>4, Doings

(* What a screen means, by what fires.                                     *)
LEMMA Meaning ==
  ASSUME NEW expectation,
         expectation = IF AtStep THEN Step.precondition ELSE Capability.checkpoint
  PROVE  /\ Fires(Capability.outcomes, Screen, Inputs) # {} => Verdict = "business_outcome"
         /\ Fires(Capability.outcomes, Screen, Inputs) = {} =>
              /\ Fires(Capability.recovery, Screen, Inputs) # {} => Verdict = "recoverable"
              /\ Fires(Capability.recovery, Screen, Inputs) = {} =>
                   Verdict = IF Evaluate(expectation, Screen, Inputs)
                             THEN "expected" ELSE "unexpected_state"
BY DEF Verdict, Classify

(* A wait for a screen to be stable is over when it has been looked at     *)
(* twice, so that a deadline before that has come too soon.                *)
LEMMA Waits ==
  ASSUME Inv, Executes, at = "wait",
         request = NoRequest => Evaluate(Step.postcondition, Screen, Inputs),
         request = NoRequest /\ seen = Screen => Awaited
  PROVE  \/ /\ request = NoRequest /\ at' = "look"
            /\ Turns([index |-> Top.index + 1, attempts |-> 0])
            /\ UNCHANGED <<held, outputs, result, recovery, bank>>
         \/ at' = "wait" /\ UNCHANGED <<stack, held, outputs, result, recovery, bank>>
         \/ at' = "over" /\ hurried'
<1>1. CASE WaitEnds
  <2>1. Awaited /\ request = NoRequest
    BY <1>1, Answered DEF WaitEnds
  <2> QED
    BY <1>1, <2>1 DEF WaitEnds, Looking
<1>2. CASE WaitGoesOn
  BY <1>2 DEF WaitGoesOn, Looking
<1>3. CASE TimesOut
  <2>1. at' = "over"
    BY <1>3 DEF TimesOut, Fails, Ends
  <2>2. request # NoRequest \/ seen # Screen
    BY <1>3 DEF TimesOut
  <2>3. hurried'
    BY <1>3, <2>2 DEF TimesOut
  <2> QED
    BY <2>1, <2>3
<1> QED
  BY <1>1, <1>2, <1>3, Doings

(* A wait for two like looks is over when there have been two.             *)
LEMMA Settled == Step.wait = Stable /\ seen = Screen => Awaited
BY DEF Awaited, IsAwaited, IsSame, Stable

(* What is left alone while the run changes: what was armed for it, and    *)
(* the classes of runs.                                                    *)
LEMMA SameTask ==
  ASSUME UNCHANGED task
  PROVE  /\ On' = On /\ Credential' = Credential
         /\ Unarmed' <=> Unarmed
         /\ FailsOnce' <=> FailsOnce
         /\ FailsAlways' <=> FailsAlways
         /\ Expires' <=> Expires
         /\ Interrupted' <=> Interrupted
         /\ Answerable' <=> Answerable
         /\ Exhausting' <=> Exhausting
BY DEF On, Credential, Unarmed, Alone, Only, FailsOnce, FailsAlways, Expires, Interrupted, Answerable,
  Exhausting

LEMMA SameStack ==
  ASSUME UNCHANGED stack
  PROVE  Base' = Base /\ Top' = Top /\ (Nested' <=> Nested) /\ (FirstStep' <=> FirstStep)
BY DEF Base, Top, Nested, FirstStep

(* The frame on top is replaced, and what is below it is kept.             *)
LEMMA Turning ==
  ASSUME Located, NEW frame \in Frames, Turns(frame)
  PROVE  /\ Nested' <=> Nested
         /\ Top' = frame
         /\ Nested => Base' = Base
         /\ ~Nested => Base' = frame
<1>1. /\ stack' \in Seq(Frames) /\ Len(stack') = Len(stack)
      /\ stack'[Len(stack)] = frame
      /\ Len(stack) = 2 => stack'[1] = stack[1]
      /\ Len(stack) \in {1, 2}
  BY Turned DEF Located
<1> QED
  BY <1>1 DEF Nested, Top, Base

-----------------------------------------------------------------------------
(* What the matrix owes a run that is over, by what was armed for it.      *)
Owed(status, code, returned) ==
  /\ Answerable => IF Account[On] # "savings"
                     THEN status = "business_outcome" /\ code = Negative
                   ELSE IF NoText \in {Printed[On].balance, Printed[On].status}
                     THEN status = "failed" /\ code = "action_failed"
                   ELSE status = "success"
  /\ Exhausting => status = "needs_human" /\ code = "recovery_exhausted"
  /\ Interrupted => status = "needs_human" /\ code = "unexpected_state" /\ returned = {}

Staged == Starting \/ Down \/ Noticed \/ SignedOff \/ OnTheWay

(* A step goes on along the way, or ends the run as it should.             *)
Onward ==
  \/ at' # "over" /\ Staged'
  \/ at' = "over" /\ (hurried' \/ Owed(result'.status, result'.code, result'.outputs))

Typing ==
  /\ session \in BOOLEAN
  /\ armed \in [Faults -> Int] /\ task.armed \in [Faults -> Int]
  /\ task.valid \in BOOLEAN

(* What was asked for, of whom, and with what.                             *)
LEMMA Requests ==
  /\ NoRequest.to = "none"
  /\ \A to, member : Get(to, member).to = to /\ Get(to, member).about = member
  /\ \A to, member, fields : Request(to, member, fields).to = to
                             /\ Request(to, member, fields).fields = fields
BY DEF NoRequest, Get, Request

LEMMA FailsSo ==
  ASSUME NEW code \in Triggered, Fails(code)
  PROVE  at' = "over" /\ result' = [status |-> "needs_human", code |-> code, outputs |-> outputs]
BY DEF Fails, Ends

(* Which classes exclude one another, and what was armed in each.          *)
LEMMA Classes ==
  /\ Unarmed => \A fault \in Faults : task.armed[fault] = 0
  /\ FailsOnce => /\ task.armed["transient_load"] = 1
                  /\ \A fault \in Faults \ {"transient_load"} : task.armed[fault] = 0
  /\ FailsAlways => /\ task.armed["transient_load"] = -1
                    /\ \A fault \in Faults \ {"transient_load"} : task.armed[fault] = 0
  /\ Expires => /\ task.armed["session_timeout"] = 1
                /\ \A fault \in Faults \ {"session_timeout"} : task.armed[fault] = 0
  /\ Interrupted => /\ task.armed["undeclared_dialog"] # 0
                    /\ \A fault \in Faults \ {"undeclared_dialog"} : task.armed[fault] = 0
  /\ Answerable <=> Unarmed \/ FailsOnce \/ (Expires /\ task.valid)
  /\ Exhausting <=> FailsAlways \/ (Expires /\ ~task.valid)
BY DEF Unarmed, FailsOnce, FailsAlways, Expires, Interrupted, Alone, Only, Answerable, Exhausting

LEMMA Apart ==
  /\ FailsOnce => ~FailsAlways /\ ~Unarmed /\ ~Expires /\ ~Interrupted
  /\ FailsAlways => ~Unarmed /\ ~Expires /\ ~Interrupted
  /\ Expires => ~Unarmed /\ ~Interrupted
  /\ Interrupted => ~Unarmed
  /\ Answerable => ~Exhausting /\ ~Interrupted
  /\ Exhausting => ~Interrupted
<1>1. {"transient_load", "session_timeout", "undeclared_dialog"} \subseteq Faults
  BY DEF Faults
<1> QED
  BY <1>1, Classes

(* A fault armed once is gone when it has come, one armed for good is not. *)
LEMMA Consumed ==
  ASSUME armed \in [Faults -> Int], NEW fault \in Faults, Consume(fault)
  PROVE  /\ armed[fault] = 1 => armed'[fault] = 0
         /\ armed[fault] = -1 => armed' = armed
         /\ \A other \in Faults \ {fault} : armed'[other] = armed[other]
BY DEF Consume

(* Who answers: by what is asked for, and with nothing armed, the handler  *)
(* itself.                                                                 *)
LEMMA Serving ==
  ASSUME Answers
  PROVE  /\ request.to # "none"
         /\ request.to = "GET_login" => LoginForm
         /\ request.to = "POST_login" => LoginSubmit
         /\ request.to = "GET_search" =>
              Unavailable \/ SessionExpires \/ NotSignedOn \/ Notice \/ SearchForm
         /\ Quiet /\ session =>
              /\ request.to = "GET_search" => SearchForm
              /\ request.to = "POST_search" => SearchSubmit
              /\ request.to = "GET_member" => MemberPage("GET_member", "record")
<1>1. Serve
  BY DEF Answers
<1>2. Unavailable \/ SessionExpires \/ NotSignedOn \/ Notice =>
        Guarded /\ (Triggers("transient_load") \/ Triggers("session_timeout")
                    \/ Triggers("undeclared_dialog") \/ ~session)
  BY DEF Unavailable, SessionExpires, NotSignedOn, Notice
<1>3. /\ LoginForm => request.to = "GET_login"
      /\ LoginSubmit => request.to = "POST_login"
      /\ SearchForm => request.to = "GET_search"
      /\ SearchSubmit => request.to = "POST_search"
      /\ MemberPage("GET_member", "record") => request.to = "GET_member"
      /\ MemberPage("GET_form", "form") => request.to = "GET_form"
      /\ SubaccountSubmit => request.to = "POST_form"
  BY DEF LoginForm, LoginSubmit, SearchForm, SearchSubmit, MemberPage, SubaccountSubmit, Passed
<1>4. Quiet => ~Triggers("transient_load") /\ ~Triggers("session_timeout")
               /\ ~Triggers("undeclared_dialog")
  BY DEF Quiet, Triggers
<1>5. Guarded <=> request.to \notin {"none", "GET_login", "POST_login"}
  BY DEF Guarded
<1> QED
  BY <1>1, <1>2, <1>3, <1>4, <1>5 DEF Serve

-----------------------------------------------------------------------------
(* What an answer leaves alone of the run.                                 *)
LEMMA AnswersFrame ==
  ASSUME Answers
  PROVE  /\ UNCHANGED <<task, stack, at, held, seen, outputs, recovery, result, midway, hurried>>
         /\ (FirstStep' <=> FirstStep) /\ (Nested' <=> Nested) /\ Base' = Base /\ Top' = Top
         /\ (Untried' <=> Untried)
<1>1. UNCHANGED <<task, stack, at, held, seen, outputs, recovery, result, midway, hurried>>
  BY DEF Answers
<1> QED
  BY <1>1, SameStack DEF Untried

(* Every run starts with a request for the search page, to which the       *)
(* application answers with the fault that is armed, if any is.            *)
LEMMA StartingStep ==
  ASSUME Inv, Typing, Watched, Starting, Answers, Answerable \/ Exhausting \/ Interrupted
  PROVE  Onward
<1>1. /\ UNCHANGED <<task, at, outputs, recovery>>
      /\ (FirstStep' <=> FirstStep) /\ (Untried' <=> Untried)
  BY AnswersFrame
<1>2. /\ request.to = "GET_search" /\ at = "load" /\ FirstStep /\ (FailsAlways \/ Untried)
      /\ session /\ failing = {} /\ armed = task.armed /\ outputs = {}
  BY Requests DEF Starting
<1>3. /\ Unarmed' <=> Unarmed
      /\ FailsOnce' <=> FailsOnce
      /\ FailsAlways' <=> FailsAlways
      /\ Expires' <=> Expires
      /\ Interrupted' <=> Interrupted
      /\ Answerable' <=> Answerable
  BY <1>1, SameTask
<1>4. /\ {"transient_load", "session_timeout", "undeclared_dialog"} \subseteq Faults
      /\ armed \in [Faults -> Int]
  BY DEF Faults, Typing
<1>5. CASE Unavailable
  <2>1. armed["transient_load"] # 0 /\ Consume("transient_load")
    BY <1>5 DEF Unavailable, Triggers
  <2>2. FailsOnce \/ FailsAlways
    BY <1>2, <1>4, <2>1, Classes
  <2>3. /\ FailsOnce => Untried' /\ Quiet'
        /\ FailsAlways => armed' = task'.armed
    BY <1>1, <1>2, <1>4, <2>1, Classes, Apart, Consumed DEF Quiet
  <2>4. /\ session' /\ failing' # {} /\ request' = NoRequest /\ content'.page = "unavailable"
    BY <1>2, <1>5 DEF Unavailable, Document
  <2>5. Down'
    BY <1>1, <1>2, <1>3, <2>2, <2>3, <2>4 DEF Down
  <2> QED
    BY <1>1, <1>2, <2>5 DEF Onward, Staged
<1>6. CASE SessionExpires
  <2>1. armed["session_timeout"] # 0 /\ Consume("session_timeout")
    BY <1>6 DEF SessionExpires, Triggers
  <2>2. Expires
    BY <1>2, <1>4, <2>1, Classes
  <2>3. Untried' /\ Quiet'
    BY <1>1, <1>2, <1>4, <2>1, <2>2, Classes, Apart, Consumed DEF Quiet
  <2>4. failing' = {} /\ request' = Get("GET_login", Nobody)
    BY <1>2, <1>6 DEF SessionExpires, Redirects
  <2>5. SignedOff'
    BY <1>1, <1>2, <1>3, <2>2, <2>3, <2>4 DEF SignedOff
  <2> QED
    BY <1>1, <1>2, <2>5 DEF Onward, Staged
<1>7. CASE NotSignedOn
  BY <1>2, <1>7 DEF NotSignedOn
<1>8. CASE Notice
  <2>1. armed["undeclared_dialog"] # 0
    BY <1>8 DEF Notice, Triggers
  <2>2. Interrupted
    BY <1>2, <1>4, <2>1, Classes
  <2>3. failing' = {} /\ request' = NoRequest /\ content'.page = "notice"
    BY <1>2, <1>8 DEF Notice, Shows, Document
  <2>4. Noticed'
    BY <1>1, <1>2, <1>3, <2>2, <2>3 DEF Noticed
  <2> QED
    BY <1>1, <1>2, <2>4 DEF Onward, Staged
<1>9. CASE SearchForm
  <2>1. Quiet /\ UNCHANGED <<session, armed>>
    BY <1>9 DEF SearchForm, Passed, Quiet, Triggers
  <2>2. Unarmed
    BY <1>2, <1>4, <2>1, Classes DEF Quiet
  <2>3. Answerable' /\ Quiet'
    BY <1>3, <2>1, <2>2, Classes DEF Quiet
  <2>4. failing' = {} /\ request' = NoRequest /\ content'.page = "search"
    BY <1>2, <1>9 DEF SearchForm, Shows, Document
  <2>5. OnTheWay'
    BY <1>1, <1>2, <2>1, <2>3, <2>4 DEF OnTheWay, FirstStep
  <2> QED
    BY <1>1, <1>2, <2>5 DEF Onward, Staged
<1> QED
  BY <1>2, <1>5, <1>6, <1>7, <1>8, <1>9, Serving

-----------------------------------------------------------------------------
(* A look-up that is being watched.                                        *)
LEMMA Looks ==
  ASSUME Inv, Watched, ~Nested
  PROVE  /\ LookUp /\ Top = Base /\ Asked /\ Located
         /\ Base \in Frames /\ Base.index \in Nat /\ Len(stack) = 1
         /\ Len(Capability.steps) = 5
<1>1. LookUp /\ Asked /\ Located
  BY DEF Watched, LookUp, Inv
<1>2. Top = Base /\ Base \in Frames /\ Base.index \in Nat /\ Len(stack) = 1
  BY <1>1, Stacked
<1> QED
  BY <1>1, <1>2, LookUpSteps

LEMMA LoadedFrame ==
  ASSUME Loaded
  PROVE  /\ at = "load" /\ at' = "look" /\ request = NoRequest
         /\ UNCHANGED <<task, stack, held, seen, outputs, recovery, result, midway, hurried>>
         /\ UNCHANGED <<session, armed, request, content, failing, opened>>
         /\ (FirstStep' <=> FirstStep) /\ (Nested' <=> Nested) /\ Base' = Base /\ Top' = Top
         /\ (Untried' <=> Untried) /\ (Quiet' <=> Quiet)
<1>1. /\ at = "load" /\ at' = "look" /\ request = NoRequest
      /\ UNCHANGED <<task, stack, held, seen, outputs, recovery, result, midway, hurried>>
      /\ UNCHANGED <<session, armed, request, content, failing, opened>>
  BY DEF Loaded, Looking, bank
<1> QED
  BY <1>1, SameStack DEF Untried, Quiet

(* What a rule that fires does, when it may.                               *)
LEMMA Remedied ==
  ASSUME Inv, Watched, ~Nested, SeesRecoverable,
         NEW rule, rule = Capability.recovery[First(Fires(Capability.recovery, Screen, Inputs))]
  PROVE  \/ /\ recovery + 1 > MaxRecoveryTotal \/ Base.attempts + 1 > rule.max_attempts
            /\ at' = "over"
            /\ result' = [status |-> "needs_human", code |-> "recovery_exhausted", outputs |-> outputs]
         \/ /\ rule.remedy = "reload" /\ at' = "load" /\ LoadShell
            /\ ~Nested' /\ Base'.index = Base.index
            /\ UNCHANGED <<task, outputs>>
         \/ /\ rule.remedy # "reload" /\ UNCHANGED <<task, outputs, at, bank>>
            /\ Nested' /\ Base'.index = Base.index /\ Top' = Frame
<1> DEFINE retried == [Base EXCEPT !.attempts = @ + 1]
<1>1. Top = Base /\ Base \in Frames /\ Len(stack) = 1 /\ Located /\ Permits(Capability, "reload")
  BY Looks, LookUpSteps DEF LookUp, Watched
<1>2. retried \in Frames /\ retried.index = Base.index
  BY <1>1 DEF Frames
<1>3. CASE recovery + 1 > MaxRecoveryTotal \/ Base.attempts + 1 > rule.max_attempts
  <2>1. Fails("recovery_exhausted")
    BY <1>1, <1>3 DEF SeesRecoverable
  <2> QED
    BY <1>3, <2>1, FailsSo DEF Triggered
<1>4. CASE ~(recovery + 1 > MaxRecoveryTotal \/ Base.attempts + 1 > rule.max_attempts)
  <2>1. /\ IF rule.remedy = "reload"
             THEN Turns(retried) /\ at' = "load" /\ LoadShell
             ELSE stack' = <<retried, Frame>> /\ UNCHANGED <<at, bank>>
        /\ UNCHANGED <<task, outputs>>
    BY <1>1, <1>4 DEF SeesRecoverable
  <2>2. CASE rule.remedy = "reload"
    <3>1. Turns(retried)
      BY <2>1, <2>2
    <3> HIDE DEF retried
    <3>2. ~Nested' /\ Base' = retried
      BY <1>1, <1>2, <3>1, Turning
    <3> QED
      BY <1>2, <2>1, <2>2, <3>2
  <2>3. CASE rule.remedy # "reload"
    <3>1. stack' = <<retried, Frame>>
      BY <2>1, <2>3
    <3>2. Nested' /\ Base' = retried /\ Top' = Frame
      BY <3>1 DEF Nested, Base, Top
    <3> QED
      BY <1>2, <2>1, <2>3, <3>2
  <2> QED
    BY <2>2, <2>3
<1> QED
  BY <1>3, <1>4

(* Down, the look-up loads the page again, as often as it may.             *)
LEMMA DownStep ==
  ASSUME MaxRecoveryTotal # 0, Inv, Typing, Watched, Down, Executes
  PROVE  Onward
<1>1. /\ (FailsOnce /\ Untried /\ Quiet) \/ (FailsAlways /\ armed = task.armed)
      /\ at \in {"load", "look"} /\ FirstStep /\ ~Nested /\ Base.index = 1
      /\ session /\ failing # {} /\ outputs = {}
      /\ request = NoRequest /\ content.page = "unavailable"
  BY DEF Down, FirstStep
<1>2. UNCHANGED task
  BY Doings
<1>3. /\ FailsOnce' <=> FailsOnce
      /\ FailsAlways' <=> FailsAlways
      /\ Answerable' <=> Answerable
  BY <1>2, SameTask
<1>4. CASE at = "load"
  <2>1. Loaded
    BY <1>4, Doings
  <2>2. Down' /\ at' = "look"
    BY <1>1, <1>3, <2>1, LoadedFrame DEF Down
  <2> QED
    BY <2>2 DEF Onward, Staged
<1>5. CASE at = "look"
  <2>1. /\ LookUp /\ Top = Base /\ Base \in Frames /\ Base.index \in Nat
        /\ Len(Capability.steps) = 5
    BY <1>1, Looks
  <2>2. Fires(Capability.outcomes, Screen, Inputs) = {}
    BY <1>1, <2>1, OutcomesFire
  <2>3. Fires(Capability.recovery, Screen, Inputs) = {1} /\ Capability.recovery[1] = TransientLoad
    BY <1>1, <2>1, RecoveryFires DEF SignOnPages
  <2>4. Verdict = "recoverable"
    BY <2>2, <2>3, Meaning
  <2>5. SeesRecoverable
    BY <1>1, <1>5, <2>1, <2>4, SeesByVerdict
  <2>6. TransientLoad.remedy = "reload" /\ TransientLoad.max_attempts = 3
    BY DEF TransientLoad
  <2>7. Capability.recovery[First(Fires(Capability.recovery, Screen, Inputs))] = TransientLoad
    BY <2>3, FirstOnly
  <2>8. CASE /\ recovery + 1 > MaxRecoveryTotal \/ Base.attempts + 1 > 3
             /\ at' = "over"
             /\ result' = [status |-> "needs_human", code |-> "recovery_exhausted", outputs |-> outputs]
    <3>1. ~Untried
      BY <2>8, RecoveryAssumption DEF Untried
    <3>2. FailsAlways
      BY <1>1, <3>1
    <3>3. Exhausting /\ ~Answerable /\ ~Interrupted
      BY <3>2, Classes, Apart
    <3> QED
      BY <2>8, <3>3 DEF Onward, Owed
  <2>9. CASE at' = "load" /\ LoadShell /\ ~Nested' /\ Base'.index = Base.index
             /\ UNCHANGED <<task, outputs>>
    <3>1. /\ session' /\ failing' = {} /\ request' = Get("GET_search", Nobody)
          /\ armed' = armed /\ (Quiet' <=> Quiet) /\ FirstStep' /\ outputs' = {}
      BY <1>1, <2>9 DEF LoadShell, ShowsShell, Quiet, FirstStep
    <3>2. CASE FailsAlways /\ armed = task.armed
      BY <1>3, <2>9, <3>1, <3>2 DEF Starting, Onward, Staged
    <3>3. CASE FailsOnce /\ Quiet
      <4>1. OnTheWay'
        BY <1>1, <1>3, <2>9, <3>1, <3>3, Classes DEF OnTheWay
      <4> QED
        BY <2>9, <4>1 DEF Onward, Staged
    <3> QED
      BY <1>1, <3>2, <3>3
  <2> QED
    BY <1>1, <2>5, <2>6, <2>7, <2>8, <2>9, Remedied
<1> QED
  BY <1>1, <1>4, <1>5

(* A notice is nothing a look-up knows of.                                 *)
LEMMA NoticedStep ==
  ASSUME Inv, Typing, Watched, Noticed, Executes
  PROVE  Onward
<1>1. /\ Interrupted /\ at \in {"load", "look"} /\ FirstStep /\ ~Nested /\ Base.index = 1
      /\ failing = {} /\ outputs = {}
      /\ request = NoRequest /\ content.page = "notice"
  BY DEF Noticed, FirstStep
<1>2. UNCHANGED task
  BY Doings
<1>3. CASE at = "load"
  <2>1. Loaded
    BY <1>3, Doings
  <2>2. Noticed' /\ at' = "look"
    BY <1>1, <1>2, <2>1, LoadedFrame, SameTask DEF Noticed
  <2> QED
    BY <2>2 DEF Onward, Staged
<1>4. CASE at = "look"
  <2>1. /\ LookUp /\ Top = Base /\ Base \in Frames /\ Base.index \in Nat
        /\ Len(Capability.steps) = 5
        /\ Step.precondition = Exists("textbox", "Member_Number")
    BY <1>1, Looks, LookUpSteps DEF Asserting
  <2>2. Fires(Capability.outcomes, Screen, Inputs) = {}
    BY <1>1, <2>1, OutcomesFire
  <2>3. Fires(Capability.recovery, Screen, Inputs) = {}
    BY <1>1, <2>1, RecoveryFires DEF SignOnPages
  <2>4. ~Evaluate(Exists("textbox", "Member_Number"), Screen, Inputs)
    <3>1. content.page \in Pages /\ content.page \notin SearchPages
      BY <1>1 DEF Pages, SearchPages
    <3> QED
      BY <3>1, ExistsHolds, Controls DEF Screen
  <2>5. AtStep
    BY <1>1, <1>4, <2>1 DEF AtStep
  <2>6. Verdict = "unexpected_state"
    BY <2>1, <2>2, <2>3, <2>4, <2>5, Meaning
  <2>7. SeesUnexpected
    BY <1>1, <1>4, <2>1, <2>6, SeesByVerdict
  <2>8. at' = "over" /\ result' = [status |-> "needs_human", code |-> "unexpected_state",
                                   outputs |-> {}]
    BY <1>1, <2>7, FailsSo DEF SeesUnexpected, Triggered
  <2> QED
    BY <1>1, <2>8, Apart DEF Onward, Owed
<1> QED
  BY <1>1, <1>3, <1>4

-----------------------------------------------------------------------------
(* Signing on again.  What every step of it keeps.                         *)
Signing == Expires /\ Quiet /\ failing = {} /\ outputs = {} /\ Nested /\ Base.index = 1

LEMMA SigningKept ==
  ASSUME Signing, UNCHANGED <<task, armed, failing, outputs>>, Nested', Base'.index = Base.index
  PROVE  Signing'
BY SameTask DEF Signing, Quiet

LEMMA SigningDone ==
  ASSUME Signing', SigningOn', at' # "over"
  PROVE  Onward
BY DEF Signing, SignedOff, Onward, Staged

LEMMA SeesExpectedFrame ==
  ASSUME SeesExpected
  PROVE  /\ at' = "act" /\ held' = Screen
         /\ UNCHANGED <<task, stack, seen, outputs, recovery, result, midway, hurried>>
         /\ UNCHANGED <<session, armed, request, content, failing, opened>>
         /\ (Nested' <=> Nested) /\ Base' = Base /\ Top' = Top
<1>1. /\ at' = "act" /\ held' = Screen
      /\ UNCHANGED <<task, stack, seen, outputs, recovery, result, midway, hurried>>
      /\ UNCHANGED <<session, armed, request, content, failing, opened>>
  BY DEF SeesExpected, Looking, bank
<1> QED
  BY <1>1, SameStack

LEMMA RemedyLooks ==
  ASSUME Inv, Nested, at = "look", content.page = "sign_on", Top.index \in {1, 2, 3}, Executes
  PROVE  SeesExpected
<1>1. /\ Len(Capability.steps) = 3 /\ Capability.recovery = <<>>
      /\ Capability.outcomes = <<Outcome("invalid_credentials", "Invalid_operator_ID_or_password")>>
      /\ Top.index = 1 => Step.precondition = Exists("textbox", "Operator_ID")
      /\ Top.index \in {2, 3} => Step.precondition = Nothing
  BY RemedySteps DEF Asserting
<1>2. Screen.nodes = Nodes(content) /\ content.page \in SignOnPages
  BY DEF Screen, SignOnPages
<1>3. Fires(Capability.outcomes, Screen, Inputs) = {}
  <2>1. ~Evaluate(Text("Invalid_operator_ID_or_password"), Screen, Inputs)
    BY <1>2, TextHolds, SignOnForms DEF TextContent
  <2>2. Outcome("invalid_credentials", "Invalid_operator_ID_or_password").detect
          = Text("Invalid_operator_ID_or_password")
    BY DEF Outcome
  <2> QED
    BY <1>1, <2>1, <2>2 DEF Fires
<1>4. Fires(Capability.recovery, Screen, Inputs) = {}
  BY <1>1 DEF Fires
<1>5. Evaluate(Step.precondition, Screen, Inputs)
  <2>1. CASE Top.index = 1
    <3>1. /\ Node("textbox", "Operator_ID", content.fields["Operator_ID"], "Operator_ID")
               \in Screen.nodes
          /\ IsFiniteSet(Screen.nodes)
      BY <1>2, SignOnForms
    <3>2. Displays(Screen, "textbox", "Operator_ID")
      BY <3>1 DEF Displays, Node
    <3> QED
      BY <1>1, <2>1, <3>1, <3>2, ShownHolds, Simple, SimpleHolds
  <2>2. CASE Top.index \in {2, 3}
    BY <1>1, <2>2, OthersHold, Simple, SimpleHolds
  <2> QED
    BY <2>1, <2>2
<1>6. AtStep
  BY <1>1 DEF AtStep
<1>7. Verdict = "expected"
  BY <1>3, <1>4, <1>5, <1>6, Meaning
<1> QED
  BY <1>1, <1>7, SeesByVerdict

(* What is filled in of a form, the rest of it as it was.                  *)
LEMMA Filled ==
  ASSUME ContentTells, NEW label \in Fields(content.page), NEW text, Fill(label, text)
  PROVE  /\ content'.page = content.page
         /\ content'.fields[label] = text
         /\ \A other \in Fields(content.page) \ {label} :
              content'.fields[other] = content.fields[other]
         /\ UNCHANGED <<session, armed, request, failing, opened>>
<1> DEFINE fields == content.fields
<1>1. /\ content' = [content EXCEPT !.fields = [fields EXCEPT ![label] = text]]
      /\ UNCHANGED <<session, armed, request, failing, opened>>
  BY DEF Fill
<1>2. content = [page |-> content.page, about |-> content.about, fields |-> fields]
      /\ fields = [f \in Fields(content.page) |-> fields[f]]
  BY DEF ContentTells
<1> HIDE DEF fields
<1>3. content'.page = content.page /\ content'.fields = [fields EXCEPT ![label] = text]
  BY <1>1, <1>2
<1> QED
  BY <1>1, <1>2, <1>3 DEF fields

LEMMA TypesFrame ==
  ASSUME Types
  PROVE  /\ at' = "wait"
         /\ UNCHANGED <<task, stack, held, outputs, recovery, result, midway, hurried>>
         /\ (Nested' <=> Nested) /\ Base' = Base /\ Top' = Top
<1>1. /\ at' = "wait"
      /\ UNCHANGED <<task, stack, held, outputs, recovery, result, midway, hurried>>
  BY DEF Types, Settles, Looking
<1> QED
  BY <1>1, SameStack

LEMMA RemedyTypes ==
  ASSUME Inv, Nested, at = "act", content.page = "sign_on", Executes,
         NEW field,
         (Top.index = 1 /\ field = "Operator_ID") \/ (Top.index = 2 /\ field = "Password")
  PROVE  Types /\ Fill(field, Credential) /\ field \in Fields(content.page)
<1> DEFINE box == Node("textbox", field, content.fields[field], field)
<1>1. /\ Step.does = "type" /\ Step.target = Named("textbox", field) /\ Step.value = Secret
  BY RemedySteps DEF Doing
<1>2. held.nodes = Nodes(content) /\ content.page \in SignOnPages
  BY DEF Inv, NoneInFlight, SignOnPages
<1>3. Found = {n \in Nodes(content) : n.role = "textbox" /\ n["name"] = field}
  BY <1>1, <1>2 DEF Found, Named
<1>4. box \in Nodes(content) /\ \A n \in Nodes(content) : n.role = "textbox" /\ n.name = field => n = box
  BY <1>2, SignOnForms
<1>5. box.role = "textbox" /\ box.name = field /\ box.beside = field
  BY DEF Node
<1> HIDE DEF box
<1>6. Found = {box}
  BY <1>3, <1>4, <1>5
<1>7. Types /\ Control = box
  BY <1>1, <1>6, ActsOnOne
<1>8. Secret.is # "input"
  BY DEF Secret
<1>9. Fill(field, Credential)
  BY <1>1, <1>5, <1>7, <1>8 DEF Types, Credential
<1> QED
  BY <1>7, <1>9 DEF Fields

LEMMA Operator ==
  ASSUME Inv, Typing, Watched, Signing, Executes,
         \/ Top.index = 1 /\ at \in {"look", "act"} /\ content.page = "sign_on"
         \/ Top.index = 1 /\ at = "wait" /\ request = NoRequest /\ Typed("Operator_ID")
  PROVE  Onward
<1>1. Nested /\ UNCHANGED task
  BY Doings DEF Signing
<1>2. Credential' = Credential
  BY <1>1, SameTask
<1>3. CASE at = "look"
  <2>1. SeesExpected
    BY <1>1, <1>3, RemedyLooks
  <2> QED
    BY <1>1, <1>3, <2>1, SeesExpectedFrame, SigningKept, SigningDone DEF SigningOn, Signing
<1>4. CASE at = "act"
  <2>1. Types /\ Fill("Operator_ID", Credential) /\ "Operator_ID" \in Fields(content.page)
    BY <1>1, <1>4, RemedyTypes
  <2>2. /\ content'.page = content.page /\ content'.fields["Operator_ID"] = Credential
        /\ UNCHANGED <<session, armed, request, failing>>
    BY <2>1, Filled DEF Inv
  <2>3. request = NoRequest
    BY <1>4 DEF Inv, NoneInFlight
  <2> QED
    BY <1>1, <1>2, <1>4, <2>1, <2>2, <2>3, TypesFrame, SigningKept, SigningDone
    DEF SigningOn, Signing, Typed
<1>5. CASE at = "wait"
  <2> DEFINE next == [index |-> Top.index + 1, attempts |-> 0]
  <2>1. Step.wait = Stable /\ Step.postcondition = Nothing
    BY <1>1, <1>5, RemedySteps DEF Doing, Asserting
  <2>2. Evaluate(Step.postcondition, Screen, Inputs)
    BY <2>1, OthersHold, Simple, SimpleHolds
  <2>3. \/ /\ request = NoRequest /\ at' = "look" /\ Turns(next)
           /\ UNCHANGED <<held, outputs, result, recovery, bank>>
        \/ at' = "wait" /\ UNCHANGED <<stack, held, outputs, result, recovery, bank>>
        \/ at' = "over" /\ hurried'
    BY <1>5, <2>1, <2>2, Settled, Waits
  <2>4. next \in Frames /\ next.index = 2
    BY <1>5 DEF Frames
  <2> HIDE DEF next
  <2>5. CASE at' = "look" /\ Turns(next) /\ UNCHANGED <<outputs, bank>>
    <3>1. Nested' /\ Top' = next /\ Base' = Base
      BY <1>1, <2>4, <2>5, Turning DEF Inv
    <3>2. UNCHANGED <<armed, failing, content, request>>
      BY <2>5 DEF bank
    <3> QED
      BY <1>1, <1>2, <1>5, <2>4, <2>5, <3>1, <3>2, SigningKept, SigningDone DEF SigningOn, Signing, Typed
  <2>6. CASE at' = "wait" /\ UNCHANGED <<stack, outputs, bank>>
    <3>1. UNCHANGED <<armed, failing, content, request>>
      BY <2>6 DEF bank
    <3> QED
      BY <1>1, <1>2, <1>5, <2>6, <3>1, SameStack, SigningKept, SigningDone DEF SigningOn, Signing, Typed
  <2> QED
    BY <2>3, <2>5, <2>6 DEF Onward
<1> QED
  BY <1>3, <1>4, <1>5

LEMMA Password ==
  ASSUME Inv, Typing, Watched, Signing, Executes, Top.index = 2, Typed("Operator_ID"),
         \/ at \in {"look", "act"}
         \/ at = "wait" /\ request = NoRequest /\ Typed("Password")
  PROVE  Onward
<1>1. Nested /\ UNCHANGED task /\ content.page = "sign_on"
  BY Doings DEF Signing, Typed
<1>2. Credential' = Credential
  BY <1>1, SameTask
<1>3. CASE at = "look"
  <2>1. SeesExpected
    BY <1>1, <1>3, RemedyLooks
  <2> QED
    BY <1>1, <1>2, <1>3, <2>1, SeesExpectedFrame, SigningKept, SigningDone DEF SigningOn, Signing, Typed
<1>4. CASE at = "act"
  <2>1. Types /\ Fill("Password", Credential) /\ "Password" \in Fields(content.page)
    BY <1>1, <1>4, RemedyTypes
  <2>2. "Operator_ID" \in Fields(content.page) \ {"Password"}
    BY <1>1 DEF Fields
  <2>3. /\ content'.page = content.page /\ content'.fields["Password"] = Credential
        /\ content'.fields["Operator_ID"] = content.fields["Operator_ID"]
        /\ UNCHANGED <<session, armed, request, failing>>
    BY <2>1, <2>2, Filled DEF Inv
  <2>4. request = NoRequest
    BY <1>4 DEF Inv, NoneInFlight
  <2> QED
    BY <1>1, <1>2, <1>4, <2>1, <2>3, <2>4, TypesFrame, SigningKept, SigningDone
    DEF SigningOn, Signing, Typed
<1>5. CASE at = "wait"
  <2> DEFINE next == [index |-> Top.index + 1, attempts |-> 0]
  <2>1. Step.wait = Stable /\ Step.postcondition = Nothing
    BY <1>1, <1>5, RemedySteps DEF Doing, Asserting
  <2>2. Evaluate(Step.postcondition, Screen, Inputs)
    BY <2>1, OthersHold, Simple, SimpleHolds
  <2>3. \/ /\ request = NoRequest /\ at' = "look" /\ Turns(next)
           /\ UNCHANGED <<held, outputs, result, recovery, bank>>
        \/ at' = "wait" /\ UNCHANGED <<stack, held, outputs, result, recovery, bank>>
        \/ at' = "over" /\ hurried'
    BY <1>5, <2>1, <2>2, Settled, Waits
  <2>4. next \in Frames /\ next.index = 3
    BY <1>5 DEF Frames
  <2> HIDE DEF next
  <2>5. CASE at' = "look" /\ Turns(next) /\ UNCHANGED <<outputs, bank>>
    <3>1. Nested' /\ Top' = next /\ Base' = Base
      BY <1>1, <2>4, <2>5, Turning DEF Inv
    <3>2. UNCHANGED <<armed, failing, content, request>>
      BY <2>5 DEF bank
    <3> QED
      BY <1>1, <1>2, <1>5, <2>4, <2>5, <3>1, <3>2, SigningKept, SigningDone DEF SigningOn, Signing, Typed
  <2>6. CASE at' = "wait" /\ UNCHANGED <<stack, outputs, bank>>
    <3>1. UNCHANGED <<armed, failing, content, request>>
      BY <2>6 DEF bank
    <3> QED
      BY <1>1, <1>2, <1>5, <2>6, <3>1, SameStack, SigningKept, SigningDone DEF SigningOn, Signing, Typed
  <2> QED
    BY <2>3, <2>5, <2>6 DEF Onward
<1> QED
  BY <1>3, <1>4, <1>5

(* The credentials are sent once; what comes of them is another page.      *)
Sending ==
  \/ /\ content.page = "sign_on" /\ request.to = "POST_login"
     /\ DOMAIN request.fields = {"Operator_ID", "Password"}
     /\ \A f \in DOMAIN request.fields : request.fields[f] = Credential
  \/ task.valid /\ session /\ content.page = "sign_on" /\ request = Get("GET_search", Nobody)
  \/ SignedOn

LEMMA ClicksFrame ==
  ASSUME Clicks
  PROVE  /\ at' = "wait"
         /\ UNCHANGED <<task, stack, held, outputs, recovery, result, midway, hurried>>
         /\ UNCHANGED <<session, armed, content, failing, opened>>
         /\ (Nested' <=> Nested) /\ Base' = Base /\ Top' = Top
<1>1. /\ at' = "wait"
      /\ UNCHANGED <<task, stack, held, outputs, recovery, result, midway, hurried>>
      /\ UNCHANGED <<session, armed, content, failing, opened>>
  BY DEF Clicks, Press, Settles, Looking
<1> QED
  BY <1>1, SameStack

LEMMA Signs ==
  ASSUME Inv, Typing, Watched, Signing, Executes, Top.index = 3,
         request = NoRequest, Typed("Operator_ID"), Typed("Password"), at \in {"look", "act"}
  PROVE  Onward
<1>1. Nested /\ UNCHANGED task /\ content.page = "sign_on"
  BY Doings DEF Signing, Typed
<1>2. Credential' = Credential
  BY <1>1, SameTask
<1>3. CASE at = "look"
  <2>1. SeesExpected
    BY <1>1, <1>3, RemedyLooks
  <2> QED
    BY <1>1, <1>2, <1>3, <2>1, SeesExpectedFrame, SigningKept, SigningDone DEF SigningOn, Signing, Typed
<1>4. CASE at = "act"
  <2> DEFINE button == Button("Sign_On")
  <2>1. Step.does = "click" /\ Step.target = Named("button", "Sign_On")
    BY <1>1, RemedySteps DEF Doing
  <2>2. held.nodes = Nodes(content) /\ content.page \in SignOnPages
    BY <1>1, <1>4 DEF Inv, NoneInFlight, SignOnPages
  <2>3. Found = {n \in Nodes(content) : n.role = "button" /\ n["name"] = "Sign_On"}
    BY <2>1, <2>2 DEF Found, Named
  <2>4. button \in Nodes(content) /\ \A n \in Nodes(content) : n.role = "button" => n = button
    BY <2>2, SignOnForms
  <2>5. button.role = "button" /\ button.name = "Sign_On"
    BY DEF Button, Node
  <2> HIDE DEF button
  <2>6. Found = {button}
    BY <2>3, <2>4, <2>5
  <2>7. Clicks /\ Control = button
    BY <1>4, <2>1, <2>6, ActsOnOne
  <2>8. request' = Request("POST_login", Nobody, content.fields)
    BY <2>5, <2>7 DEF Clicks, Press
  <2>9. /\ request'.to = "POST_login" /\ request'.fields = content.fields
        /\ DOMAIN content.fields = {"Operator_ID", "Password"}
    <3>1. content.fields = [f \in Fields(content.page) |-> content.fields[f]]
      BY DEF Inv, ContentTells
    <3> QED
      BY <1>1, <2>8, <3>1, Requests DEF Fields
  <2>10. Cardinality(held.nodes) = 3
    BY <1>1, <2>2, SignOnForms
  <2>11. SigningOn'
    BY <1>1, <1>2, <2>7, <2>9, <2>10, ClicksFrame DEF SigningOn, Signing, Typed
  <2> QED
    BY <1>1, <2>7, <2>11, ClicksFrame, SigningKept, SigningDone DEF Signing
<1> QED
  BY <1>3, <1>4

(* What was sent is answered: with the search page, once the credentials   *)
(* are found good, or with the refusal.                                    *)
LEMMA SentAnswered ==
  ASSUME Inv, Typing, Watched, Signing, Answers, Top.index = 3, at = "wait",
         Cardinality(held.nodes) = 3, Sending
  PROVE  Onward
<1>1. /\ UNCHANGED <<task, stack, at, held, outputs>>
      /\ (Nested' <=> Nested) /\ Base' = Base /\ Top' = Top /\ Nested
      /\ Quiet /\ Expires /\ failing = {}
  BY AnswersFrame DEF Signing
<1>2. Credential' = Credential
  BY <1>1, SameTask
<1>3. request # NoRequest
  BY Serving, Requests
<1>4. CASE /\ content.page = "sign_on" /\ request.to = "POST_login"
           /\ DOMAIN request.fields = {"Operator_ID", "Password"}
           /\ \A f \in DOMAIN request.fields : request.fields[f] = Credential
  <2>1. LoginSubmit /\ (Credential = "valid" <=> task.valid)
    BY <1>4, Serving DEF Credential
  <2>2. /\ failing' = {} /\ UNCHANGED armed
        /\ task.valid => session' /\ UNCHANGED content /\ request' = Get("GET_search", Nobody)
        /\ ~task.valid => content'.page = "refused" /\ request' = NoRequest
    BY <1>1, <1>4, <2>1 DEF LoginSubmit, Redirects, Shows, Document
  <2>3. SigningOn'
    BY <1>1, <1>4, <2>2 DEF SigningOn, Signing, SignedOn
  <2> QED
    BY <1>1, <2>2, <2>3, SigningKept, SigningDone
<1>5. CASE task.valid /\ session /\ content.page = "sign_on" /\ request = Get("GET_search", Nobody)
  <2>1. SearchForm
    BY <1>1, <1>5, Serving, Requests
  <2>2. failing' = {} /\ UNCHANGED <<armed, session>> /\ request' = NoRequest /\ content'.page = "search"
    BY <1>1, <2>1 DEF SearchForm, Shows, Document
  <2>3. SigningOn'
    BY <1>1, <1>5, <2>2 DEF SigningOn, Signing, SignedOn
  <2> QED
    BY <1>1, <2>2, <2>3, SigningKept, SigningDone
<1> QED
  BY <1>3, <1>4, <1>5 DEF Sending, SignedOn

(* The remedy waits for that page, and does not go on from the one it      *)
(* sent.                                                                   *)
LEMMA SentAwaited ==
  ASSUME Inv, Typing, Watched, Signing, Executes, Top.index = 3, at = "wait",
         Cardinality(held.nodes) = 3, Sending
  PROVE  Onward
<1> DEFINE next == [index |-> Top.index + 1, attempts |-> 0]
<1>1. Nested /\ UNCHANGED task
  BY Doings DEF Signing
<1>2. Credential' = Credential
  BY <1>1, SameTask
<1>3. Step.wait = Navigation /\ Step.postcondition = Nothing
  BY <1>1, RemedySteps DEF Doing, Asserting
<1>4. Evaluate(Step.postcondition, Screen, Inputs)
  BY <1>3, OthersHold, Simple, SimpleHolds
<1>5. request = NoRequest => SignedOn
  BY Requests DEF Sending
<1>6. request = NoRequest => Awaited
  <2> SUFFICES ASSUME request = NoRequest PROVE Awaited
    OBVIOUS
  <2>1. Cardinality(Nodes(content)) = 4
    BY <1>5, SearchForms, SignOnForms DEF SignedOn, SignOnPages
  <2>2. Cardinality(Screen.nodes) # Cardinality(held.nodes)
    BY <2>1 DEF Screen
  <2> QED
    BY <1>3, <2>2 DEF Awaited, IsAwaited, Navigation
<1>7. \/ /\ request = NoRequest /\ at' = "look" /\ Turns(next)
         /\ UNCHANGED <<held, outputs, result, recovery, bank>>
      \/ at' = "wait" /\ UNCHANGED <<stack, held, outputs, result, recovery, bank>>
      \/ at' = "over" /\ hurried'
  BY <1>4, <1>6, Waits
<1>8. next \in Frames /\ next.index = 4
  BY DEF Frames
<1> HIDE DEF next
<1>9. CASE request = NoRequest /\ at' = "look" /\ Turns(next) /\ UNCHANGED <<outputs, bank>>
  <2>1. Nested' /\ Top' = next /\ Base' = Base
    BY <1>1, <1>8, <1>9, Turning DEF Inv
  <2>2. UNCHANGED <<session, armed, failing, content, request>>
    BY <1>9 DEF bank
  <2>3. SigningOn'
    BY <1>1, <1>5, <1>8, <1>9, <2>1, <2>2 DEF SigningOn, SignedOn, Signing
  <2> QED
    BY <1>1, <1>9, <2>1, <2>2, <2>3, SigningKept, SigningDone
<1>10. CASE at' = "wait" /\ UNCHANGED <<stack, held, outputs, bank>>
  <2>1. UNCHANGED <<session, armed, failing, content, request>>
    BY <1>10 DEF bank
  <2>2. SigningOn'
    BY <1>1, <1>2, <1>10, <2>1, SameStack DEF SigningOn, SignedOn, Sending, Signing
  <2> QED
    BY <1>1, <1>10, <2>1, <2>2, SameStack, SigningKept, SigningDone
<1> QED
  BY <1>7, <1>9, <1>10 DEF Onward

(* The remedy's own checkpoint: with the right credentials the look-up     *)
(* goes on where it was, with the wrong ones it is given up.               *)
LEMMA SignedOnStep ==
  ASSUME Inv, Typing, Watched, Signing, Executes, Top.index = 4, at = "look", SignedOn
  PROVE  Onward
<1>1. /\ Nested /\ UNCHANGED task /\ Expires /\ Quiet /\ failing = {} /\ outputs = {} /\ Base.index = 1
      /\ Len(Capability.steps) = 3 /\ Capability.recovery = <<>>
      /\ Capability.outcomes = <<Outcome("invalid_credentials", "Invalid_operator_ID_or_password")>>
      /\ Capability.checkpoint = AllOf({Exists("link", "Sign_Off"), Absent("button", "Sign_On")})
  BY Doings, RemedySteps DEF Signing
<1>2. Screen.nodes = Nodes(content)
  BY DEF Screen
<1>3. Fires(Capability.outcomes, Screen, Inputs) = {} <=>
        ~\E n \in Nodes(content) : n.name = "Invalid_operator_ID_or_password"
  <2>1. Evaluate(Text("Invalid_operator_ID_or_password"), Screen, Inputs) <=>
          \E n \in Nodes(content) : n.name = "Invalid_operator_ID_or_password"
    BY <1>2, TextHolds DEF TextContent, NoText
  <2>2. Outcome("invalid_credentials", "Invalid_operator_ID_or_password").detect
          = Text("Invalid_operator_ID_or_password")
    BY DEF Outcome
  <2> QED
    BY <1>1, <2>1, <2>2 DEF Fires
<1>4. CASE ~task.valid /\ content.page = "refused"
  <2>1. Label("Invalid_operator_ID_or_password") \in Nodes(content)
    BY <1>4, SignOnForms DEF SignOnPages
  <2>2. Verdict = "business_outcome"
    BY <1>3, <2>1, Meaning DEF Label, Node
  <2>3. Fails("recovery_exhausted")
    BY <1>1, <2>2, SeesByVerdict DEF SeesOutcome
  <2>4. at' = "over" /\ result' = [status |-> "needs_human", code |-> "recovery_exhausted",
                                   outputs |-> outputs]
    BY <2>3, FailsSo DEF Triggered
  <2>5. Exhausting /\ ~Answerable /\ ~Interrupted
    BY <1>1, <1>4, Classes, Apart
  <2> QED
    BY <2>4, <2>5 DEF Onward, Owed
<1>5. CASE task.valid /\ session /\ content.page = "search"
  <2>1. Fires(Capability.outcomes, Screen, Inputs) = {}
    BY <1>3, <1>5, SearchForms
  <2>2. Fires(Capability.recovery, Screen, Inputs) = {}
    BY <1>1 DEF Fires
  <2>3. Evaluate(Capability.checkpoint, Screen, Inputs)
    <3>1. IsFiniteSet(Screen.nodes) /\ SignOff \in Screen.nodes
          /\ \A n \in Screen.nodes : n.role = "button" => n = Button("Search")
      BY <1>2, <1>5, SearchForms
    <3>2. Displays(Screen, "link", "Sign_Off") /\ ~Displays(Screen, "button", "Sign_On")
      BY <3>1 DEF Displays, SignOff, Link, Button, Node
    <3>3. /\ Asserted(Exists("link", "Sign_Off"), Screen, Inputs)
          /\ Asserted(Absent("button", "Sign_On"), Screen, Inputs)
      BY <3>1, <3>2, ShownHolds
    <3> QED
      BY <1>1, <3>3, Simple, AllHold
  <2>4. ~AtStep
    BY <1>1 DEF AtStep
  <2>5. Verdict = "expected"
    BY <2>1, <2>2, <2>3, <2>4, Meaning
  <2>6. CheckpointHolds
    BY <1>1, <2>5, SeesByVerdict
  <2>7. stack' = <<Base>> /\ UNCHANGED <<at, outputs, bank>>
    BY <1>1, <2>6 DEF CheckpointHolds, Base, Looking
  <2>8. ~Nested' /\ Base' = Base
    BY <2>7 DEF Nested, Base
  <2>9. UNCHANGED <<session, armed, failing, content, request>>
    BY <2>7 DEF bank
  <2>10. Answerable'
    BY <1>1, <1>5, SameTask, Classes
  <2>11. OnTheWay'
    BY <1>1, <1>5, <2>7, <2>8, <2>9, <2>10 DEF OnTheWay, Quiet
  <2> QED
    BY <2>7, <2>11 DEF Onward, Staged
<1> QED
  BY <1>4, <1>5 DEF SignedOn

LEMMA SignedOffStep ==
  ASSUME MaxRecoveryTotal # 0, Inv, Typing, Watched, SignedOff, Executes \/ Answers
  PROVE  Onward
<1>1. /\ Expires /\ Quiet /\ failing = {} /\ outputs = {}
  BY DEF SignedOff
<1>2. ~(Answers /\ request = NoRequest)
  BY Serving, Requests
<1>3. CASE at = "load" /\ FirstStep /\ Untried /\ request = Get("GET_login", Nobody)
  <2>1. Answers
    BY <1>3, Doings, LoadedFrame, Requests
  <2>2. LoginForm
    BY <1>3, <2>1, Serving, Requests
  <2>3. failing' = {} /\ UNCHANGED armed /\ request' = NoRequest /\ content'.page = "sign_on"
    BY <1>1, <2>2 DEF LoginForm, Shows, Document
  <2>4. SignedOff' /\ at' = "load"
    BY <1>1, <1>3, <2>1, <2>3, AnswersFrame, SameTask DEF SignedOff, Quiet
  <2> QED
    BY <2>4 DEF Onward, Staged
<1>4. CASE /\ at = "load" /\ FirstStep /\ Untried
           /\ request = NoRequest /\ content.page = "sign_on"
  <2>1. Loaded
    BY <1>2, <1>4, Doings
  <2>2. SignedOff' /\ at' = "look"
    BY <1>1, <1>4, <2>1, LoadedFrame, SameTask DEF SignedOff
  <2> QED
    BY <2>2 DEF Onward, Staged
<1>5. CASE /\ at = "look" /\ FirstStep /\ Untried
           /\ request = NoRequest /\ content.page = "sign_on"
  <2>1. /\ LookUp /\ Top = Base /\ Base \in Frames /\ Base.index = 1 /\ ~Nested
        /\ Len(Capability.steps) = 5 /\ Executes
    BY <1>2, <1>5, Looks DEF FirstStep
  <2>2. Fires(Capability.outcomes, Screen, Inputs) = {}
    BY <1>5, <2>1, OutcomesFire
  <2>3. Fires(Capability.recovery, Screen, Inputs) = {2} /\ Capability.recovery[2] = SessionExpired
    BY <1>1, <1>5, <2>1, RecoveryFires DEF SignOnPages
  <2>4. Verdict = "recoverable"
    BY <2>2, <2>3, Meaning
  <2>5. SeesRecoverable
    BY <1>5, <2>1, <2>4, SeesByVerdict
  <2>6. SessionExpired.remedy = "sign_on" /\ SessionExpired.max_attempts = 1
    BY DEF SessionExpired
  <2>7. Capability.recovery[First(Fires(Capability.recovery, Screen, Inputs))] = SessionExpired
    BY <2>3, FirstOnly
  <2>8. ~(recovery + 1 > MaxRecoveryTotal \/ Base.attempts + 1 > 1)
    BY <1>5, RecoveryAssumption DEF Untried
  <2>9. /\ UNCHANGED <<task, outputs, at, bank>>
        /\ Nested' /\ Base'.index = Base.index /\ Top' = Frame
    BY <2>1, <2>5, <2>6, <2>7, <2>8, Remedied
  <2>10. UNCHANGED <<session, armed, failing, content, request>>
    BY <2>9 DEF bank
  <2>11. SigningOn'
    BY <1>5, <2>1, <2>9, <2>10 DEF SigningOn, Frame
  <2>12. SignedOff'
    BY <1>1, <2>9, <2>10, <2>11, SameTask DEF SignedOff, Quiet
  <2> QED
    BY <1>5, <2>9, <2>12 DEF Onward, Staged
<1>6. CASE SigningOn
  <2>1. Signing /\ (at \in {"look", "act"} => request = NoRequest)
    BY <1>1, <1>6 DEF Signing, SigningOn, Inv, NoneInFlight
  <2>2. CASE Top.index = 1
    <3>1. request = NoRequest
      BY <1>6, <2>1, <2>2 DEF SigningOn
    <3> QED
      BY <1>2, <1>6, <2>1, <2>2, <3>1, Operator DEF SigningOn
  <2>3. CASE Top.index = 2
    <3>1. request = NoRequest /\ Typed("Operator_ID")
      BY <1>6, <2>1, <2>3 DEF SigningOn
    <3> QED
      BY <1>2, <1>6, <2>1, <2>3, <3>1, Password DEF SigningOn
  <2>4. CASE Top.index = 3 /\ at \in {"look", "act"}
    BY <1>2, <1>6, <2>1, <2>4, Signs DEF SigningOn
  <2>5. CASE Top.index = 3 /\ at = "wait"
    <3>1. Cardinality(held.nodes) = 3 /\ Sending
      BY <1>6, <2>5 DEF SigningOn, Sending
    <3> QED
      BY <2>1, <2>5, <3>1, SentAnswered, SentAwaited
  <2>6. CASE Top.index = 4 /\ at = "look" /\ SignedOn
    BY <1>2, <2>1, <2>6, SignedOnStep
  <2> QED
    BY <1>6, <2>2, <2>3, <2>4, <2>5, <2>6 DEF SigningOn
<1> QED
  BY <1>3, <1>4, <1>5, <1>6 DEF SignedOff

-----------------------------------------------------------------------------
(* On the way: with nothing armed any more and the session there, a        *)
(* look-up comes to what the records say.                                  *)
Way == Answerable /\ Quiet /\ session /\ failing = {} /\ ~Nested

LEMMA WayKept ==
  ASSUME Way, UNCHANGED <<task, session, armed, failing>>, ~Nested'
  PROVE  Way'
BY SameTask DEF Way, Quiet

LEMMA WayDone ==
  ASSUME Way', OnTheWay', at' # "over"
  PROVE  Onward
BY DEF Onward, Staged

(* Where nothing is declared to happen, a look goes by what is expected.   *)
LEMMA WayExpected ==
  ASSUME Inv, Watched, Way, at = "look", Executes, content.page \in {"search", "record"},
         content.page = "record" => Account[On] = "savings",
         Base.index \in 1 .. 5, Evaluate(Step.precondition, Screen, Inputs)
  PROVE  SeesExpected
<1>1. /\ LookUp /\ Top = Base /\ Base.index \in Nat /\ Len(Capability.steps) = 5
  BY Looks DEF Way
<1>2. Fires(Capability.outcomes, Screen, Inputs) = {}
  BY <1>1, OutcomesFire
<1>3. Fires(Capability.recovery, Screen, Inputs) = {}
  BY <1>1, RecoveryFires DEF SignOnPages, Way
<1>4. AtStep
  BY <1>1 DEF AtStep
<1>5. Verdict = "expected"
  BY <1>2, <1>3, <1>4, Meaning
<1> QED
  BY <1>1, <1>5, SeesByVerdict

(* The first page on the way is the one to search from.                    *)
LEMMA Arrives ==
  ASSUME Inv, Typing, Watched, Way, Base.index = 1, at = "load", Executes \/ Answers,
         request = Get("GET_search", Nobody) \/ (request = NoRequest /\ content.page = "search")
  PROVE  Onward
<1>1. CASE request = Get("GET_search", Nobody)
  <2>1. Answers
    BY <1>1, Doings, LoadedFrame, Requests
  <2>2. SearchForm
    BY <1>1, <2>1, Serving, Requests DEF Way
  <2>3. /\ failing' = {} /\ UNCHANGED <<armed, session>>
        /\ request' = NoRequest /\ content'.page = "search"
    BY <2>2 DEF Way, SearchForm, Shows, Document
  <2>4. Way' /\ Base' = Base /\ at' = "load"
    BY <2>1, <2>3, AnswersFrame, WayKept DEF Way
  <2>5. OnTheWay'
    BY <2>3, <2>4 DEF OnTheWay, Way
  <2> QED
    BY <2>4, <2>5, WayDone
<1>2. CASE request = NoRequest /\ content.page = "search"
  <2>1. Loaded
    BY <1>2, Serving, Requests, Doings
  <2>2. Way' /\ Base' = Base /\ at' = "look" /\ content'.page = "search"
    BY <1>2, <2>1, LoadedFrame, WayKept DEF Way
  <2>3. OnTheWay'
    BY <2>2 DEF OnTheWay, Way
  <2> QED
    BY <2>2, <2>3, WayDone
<1> QED
  BY <1>1, <1>2

LEMMA Enters ==
  ASSUME Inv, Typing, Watched, Way, Executes, Base.index = 1,
         (at \in {"look", "act"} /\ content.page = "search") \/ (at = "wait" /\ Entered)
  PROVE  Onward
<1> DEFINE box == Node("textbox", "Member_Number", content.fields["Member_Number"], "Member_Number")
<1>1. /\ LookUp /\ Top = Base /\ Base \in Frames /\ Located /\ ContentTells
      /\ content.page = "search" /\ Screen.nodes = Nodes(content)
      /\ UNCHANGED task
  BY Looks, Doings DEF Way, Entered, Inv, Screen
<1>2. /\ Doing(Step, "type", Named("textbox", "Member_Number"), Stable)
      /\ Step.value = Input("member_id")
      /\ Asserting(Step, Exists("textbox", "Member_Number"), MemberEntered)
  BY <1>1, LookUpSteps
<1>3. /\ IsFiniteSet(Nodes(content)) /\ box \in Nodes(content)
      /\ \A n \in Nodes(content) : n.role = "textbox" => n = box
  BY <1>1, SearchForms
<1>4. box.role = "textbox" /\ box.name = "Member_Number" /\ box.beside = "Member_Number"
      /\ box.value = content.fields["Member_Number"]
  BY DEF Node
<1>5. Inputs = InputsFor(task.capability, On) /\ Inputs.member_id = On
      /\ DOMAIN Inputs = {"member_id"}
  BY <1>1 DEF Inputs, LookUp, Inv, Asked, InputsFor, Recovering
<1>6. On' = On
  BY <1>1 DEF On
<1> HIDE DEF box
<1>7. CASE at = "look"
  <2>1. Evaluate(Step.precondition, Screen, Inputs)
    <3>1. Displays(Screen, "textbox", "Member_Number")
      BY <1>1, <1>3, <1>4 DEF Displays
    <3> QED
      BY <1>1, <1>2, <1>3, <3>1, ShownHolds, Simple, SimpleHolds DEF Asserting
  <2>2. SeesExpected
    BY <1>1, <1>7, <2>1, WayExpected
  <2>3. Way' /\ OnTheWay' /\ at' # "over"
    BY <1>1, <2>2, SeesExpectedFrame, WayKept DEF Way, OnTheWay
  <2> QED
    BY <2>3, WayDone
<1>8. CASE at = "act"
  <2>1. Found = {box}
    BY <1>2, <1>3, <1>4, <1>8 DEF Found, Inv, NoneInFlight, Doing, Named
  <2>2. Types /\ Control = box
    BY <1>2, <1>8, <2>1, ActsOnOne DEF Doing
  <2>3. Fill("Member_Number", On)
    BY <1>2, <1>4, <1>5, <2>2 DEF Types, Input
  <2>4. "Member_Number" \in Fields(content.page)
    BY <1>1 DEF Fields
  <2>5. /\ content'.page = "search" /\ content'.fields["Member_Number"] = On
        /\ UNCHANGED <<session, armed, request, failing>>
    BY <1>1, <2>3, <2>4, Filled
  <2>6. Way' /\ OnTheWay' /\ at' # "over"
    BY <1>1, <1>6, <1>8, <2>2, <2>5, TypesFrame, WayKept DEF Way, OnTheWay, Entered, Inv, NoneInFlight
  <2> QED
    BY <2>6, WayDone
<1>9. CASE at = "wait" /\ Entered
  <2> DEFINE next == [index |-> Top.index + 1, attempts |-> 0]
  <2>1. Evaluate(Step.postcondition, Screen, Inputs)
    <3>1. box \in Select(Query("textbox", {"Member_Number"}), Screen)
      BY <1>1, <1>3, <1>4 DEF Select, Query
    <3>2. Denotes(Input("member_id"), box.value, Inputs)
      BY <1>4, <1>5, <1>9 DEF Denotes, Input, Entered
    <3>3. Asserted(MemberEntered, Screen, Inputs)
      BY <3>1, <3>2, SMT DEF Asserted, MemberEntered
    <3> QED
      BY <1>2, <3>3, Simple, SimpleHolds DEF Asserting
  <2>2. \/ /\ request = NoRequest /\ at' = "look" /\ Turns(next)
           /\ UNCHANGED <<held, outputs, result, recovery, bank>>
        \/ at' = "wait" /\ UNCHANGED <<stack, held, outputs, result, recovery, bank>>
        \/ at' = "over" /\ hurried'
    BY <1>2, <1>9, <2>1, Settled, Waits DEF Doing
  <2>3. next \in Frames /\ next.index = 2
    BY <1>1 DEF Frames
  <2> HIDE DEF next
  <2>4. CASE at' = "look" /\ Turns(next) /\ UNCHANGED bank
    <3>1. ~Nested' /\ Base' = next
      BY <1>1, <2>3, <2>4, Turning DEF LookUp
    <3>2. UNCHANGED <<session, armed, failing, content, request>>
      BY <2>4 DEF bank
    <3>3. Way' /\ OnTheWay'
      BY <1>1, <1>6, <1>9, <2>3, <2>4, <3>1, <3>2, WayKept DEF Way, OnTheWay, Entered
    <3> QED
      BY <2>4, <3>3, WayDone
  <2>5. CASE at' = "wait" /\ UNCHANGED <<stack, bank>>
    <3>1. UNCHANGED <<session, armed, failing, content, request>>
      BY <2>5 DEF bank
    <3>2. Way' /\ OnTheWay'
      BY <1>1, <1>6, <1>9, <2>5, <3>1, SameStack, WayKept DEF Way, OnTheWay, Entered
    <3> QED
      BY <2>5, <3>2, WayDone
  <2> QED
    BY <2>2, <2>4, <2>5 DEF Onward
<1> QED
  BY <1>7, <1>8, <1>9

(* What the search comes to, for as long as it is not read on.             *)
Searching ==
  \/ /\ request.to = "POST_search" /\ request.fields["Member_Number"] = On
     /\ content.page = "search"
  \/ request = Get("GET_member", On) /\ content.page = "search"
  \/ AnswerShown

LEMMA Submits ==
  ASSUME Inv, Typing, Watched, Way, Executes, Base.index = 2, at \in {"look", "act"}, Entered
  PROVE  Onward
<1> DEFINE button == Button("Search")
<1>1. /\ LookUp /\ Top = Base /\ Located
      /\ content.page = "search" /\ content.fields["Member_Number"] = On
      /\ UNCHANGED task /\ On' = On
  BY Looks, Doings DEF Way, Entered, On
<1>2. /\ Step.does = "click" /\ Step.target = Named("button", "Search")
      /\ Step.precondition = Nothing
  BY <1>1, LookUpSteps DEF Asserting
<1>3. /\ Cardinality(Nodes(content)) = 4 /\ button \in Nodes(content)
      /\ \A n \in Nodes(content) : n.role = "button" => n = button
  BY <1>1, SearchForms
<1>4. button.role = "button" /\ button.name = "Search"
  BY DEF Button, Node
<1> HIDE DEF button
<1>5. CASE at = "look"
  <2>1. Evaluate(Step.precondition, Screen, Inputs)
    BY <1>2, OthersHold, Simple, SimpleHolds
  <2>2. SeesExpected
    BY <1>1, <1>5, <2>1, WayExpected
  <2>3. Way' /\ OnTheWay' /\ at' # "over"
    BY <1>1, <2>2, SeesExpectedFrame, WayKept DEF Way, OnTheWay, Entered
  <2> QED
    BY <2>3, WayDone
<1>6. CASE at = "act"
  <2>1. held.nodes = Nodes(content) /\ Found = {button}
    BY <1>2, <1>3, <1>4, <1>6 DEF Found, Inv, NoneInFlight, Named
  <2>2. Clicks /\ Control = button
    BY <1>2, <1>6, <2>1, ActsOnOne
  <2>3. request' = Request("POST_search", Nobody, content.fields)
    BY <1>4, <2>2 DEF Clicks, Press
  <2>4. request'.to = "POST_search" /\ request'.fields["Member_Number"] = On
    BY <1>1, <2>3, Requests
  <2>5. Way' /\ OnTheWay' /\ at' # "over"
    BY <1>1, <1>3, <2>1, <2>2, <2>4, ClicksFrame, WayKept DEF Way, OnTheWay
  <2> QED
    BY <2>5, WayDone
<1> QED
  BY <1>5, <1>6

(* Who is asked about is on the records, and has a number.                 *)
LEMMA Known ==
  ASSUME Inv, at # "over"
  PROVE  /\ On \in Members /\ On # NoText
         /\ Account[On] \in {"savings", "checking_only", "restricted", "not_on_file"}
         /\ Reachable(On) <=> Account[On] \in {"savings", "checking_only"}
<1>1. On \in Members
  BY DEF Inv, Asked
<1> QED
  BY <1>1, BankAssumption DEF Reachable

LEMMA SearchAnswered ==
  ASSUME Inv, Typing, Watched, Way, Answers, Base.index = 2, at = "wait",
         Cardinality(held.nodes) = 4, Searching
  PROVE  Onward
<1>1. /\ UNCHANGED <<task, at, held>> /\ ~Nested' /\ Base' = Base /\ On' = On /\ failing = {}
      /\ Quiet /\ session
  BY AnswersFrame, SameTask DEF Way
<1>2. /\ On # NoText
      /\ Account[On] \in {"savings", "checking_only", "restricted", "not_on_file"}
      /\ Reachable(On) <=> Account[On] \in {"savings", "checking_only"}
  BY Known DEF Watched
<1>3. CASE /\ request.to = "POST_search" /\ request.fields["Member_Number"] = On
           /\ content.page = "search"
  <2>1. SearchSubmit
    BY <1>1, <1>3, Serving
  <2>2. /\ UNCHANGED <<session, armed>> /\ failing' = {}
        /\ IF Reachable(On) THEN request' = Get("GET_member", On) /\ content' = content
           ELSE request' = NoRequest /\ content' = Withheld(On)
    BY <1>1, <1>2, <1>3, <2>1 DEF SearchSubmit, Shows, Redirects
  <2>3. ~Reachable(On) => AnswerShown'
    BY <1>1, <1>2, <2>2 DEF AnswerShown, Withheld, Document
  <2>4. Way' /\ OnTheWay'
    BY <1>1, <1>3, <2>2, <2>3, WayKept DEF Way, OnTheWay
  <2> QED
    BY <1>1, <2>4, WayDone
<1>4. CASE request = Get("GET_member", On) /\ content.page = "search"
  <2>1. MemberPage("GET_member", "record")
    BY <1>1, <1>4, Serving, Requests
  <2>2. /\ UNCHANGED <<session, armed>> /\ failing' = {} /\ request' = NoRequest
        /\ content' = IF Reachable(On) THEN Document("record", On) ELSE Withheld(On)
    BY <1>1, <1>4, <2>1, Requests DEF MemberPage, Shows
  <2>3. AnswerShown'
    BY <1>1, <1>2, <2>2 DEF AnswerShown, Withheld, Document
  <2>4. Way' /\ OnTheWay'
    BY <1>1, <2>2, <2>3, WayKept DEF Way, OnTheWay
  <2> QED
    BY <1>1, <2>4, WayDone
<1>5. ~AnswerShown
  BY Serving, Requests DEF AnswerShown
<1> QED
  BY <1>3, <1>4, <1>5 DEF Searching

(* The page of a member that was found: what it is, and what is not on it. *)
LEMMA FoundPage ==
  ASSUME Inv, at # "over", AnswerShown
  PROVE  /\ content.page \in {"not_found", "denied", "record"}
         /\ content.page = "record" => content.about = On
         /\ IsFiniteSet(Nodes(content)) /\ Cardinality(Nodes(content)) # 4
         /\ \A n \in Nodes(content) : n.role \in {"cell", "link"}
<1>1. /\ content.page \in {"not_found", "denied", "record"}
      /\ content.page = "record" => content.about = On
  BY DEF AnswerShown, Inv, ContentTells
<1>2. CASE content.page = "record"
  <2>1. /\ IsFiniteSet(Nodes(content)) /\ Cardinality(Nodes(content)) >= 5
        /\ \A n \in Nodes(content) : n.role \in {"cell", "link"}
    BY <1>2, Records
  <2> QED
    BY <1>1, <2>1
<1>3. CASE content.page # "record"
  BY <1>1, <1>3, Refusals
<1> QED
  BY <1>1, <1>2, <1>3

(* With the search page gone, the attentive look-up need not wait any      *)
(* more.                                                                   *)
LEMMA Gone ==
  ASSUME NEW screen, NEW inputs, ~Asserted(Exists("button", "Search"), screen, inputs)
  PROVE  Evaluate(Attentively.until, screen, inputs)
<1> DEFINE p == Not(Exists("button", "Search"))
           any == {Exists("cell", "Accounts_Overview"), p, Text("No_records_found"),
                   Text("not_authorized")}
<1>1. Attentively.until = AnyOf(any)
  BY DEF Attentively, Until
<1>2. /\ p.assert = "not" /\ ~Asserted(p.of, screen, inputs)
      /\ AnyOf(any).assert = "any_of" /\ AnyOf(any).of = any /\ p \in any
  BY DEF Not, AnyOf
<1> DEFINE predicate == AnyOf(any)
<1> HIDE DEF p, any, predicate
<1>3. Evaluate(predicate, screen, inputs)
  BY <1>2, SMT DEF Evaluate, predicate
<1> QED
  BY <1>1, <1>3 DEF predicate

LEMMA SearchAwaited ==
  ASSUME Inv, Typing, Watched, Way, Executes, Base.index = 2, at = "wait",
         Cardinality(held.nodes) = 4, Searching
  PROVE  Onward
<1> DEFINE next == [index |-> Top.index + 1, attempts |-> 0]
<1>1. /\ LookUp /\ Top = Base /\ Located /\ UNCHANGED task /\ On' = On
      /\ Screen.nodes = Nodes(content)
  BY Looks, Doings DEF Way, On, Screen
<1>2. /\ Step.wait \in {Navigation, Attentively}
      /\ Step.postcondition = Absent("textbox", "Member_Number")
  BY <1>1, LookUpSteps DEF Asserting
<1>3. request = NoRequest => AnswerShown
  BY Requests DEF Searching
<1>4. ASSUME request = NoRequest
      PROVE  Evaluate(Step.postcondition, Screen, Inputs) /\ Awaited
  <2>1. /\ IsFiniteSet(Screen.nodes) /\ Cardinality(Screen.nodes) # 4
        /\ \A n \in Screen.nodes : n.role \in {"cell", "link"}
    BY <1>1, <1>3, <1>4, FoundPage
  <2>2. ~Displays(Screen, "textbox", "Member_Number") /\ ~Displays(Screen, "button", "Search")
    BY <2>1 DEF Displays
  <2>3. Evaluate(Step.postcondition, Screen, Inputs)
    BY <1>2, <2>1, <2>2, ShownHolds, Simple, SimpleHolds
  <2>4. CASE Step.wait = Navigation
    BY <2>1, <2>3, <2>4 DEF Awaited, IsAwaited, Navigation
  <2>5. CASE Step.wait = Attentively
    <3>1. ~Asserted(Exists("button", "Search"), Screen, Inputs)
      BY <2>1, <2>2, ShownHolds
    <3>2. Evaluate(Attentively.until, Screen, Inputs)
      BY <3>1, Gone
    <3> QED
      BY <2>3, <2>5, <3>2 DEF Awaited, IsAwaited, Attentively, Until
  <2> QED
    BY <1>2, <2>4, <2>5
<1>5. \/ /\ request = NoRequest /\ at' = "look" /\ Turns(next)
         /\ UNCHANGED <<held, outputs, result, recovery, bank>>
      \/ at' = "wait" /\ UNCHANGED <<stack, held, outputs, result, recovery, bank>>
      \/ at' = "over" /\ hurried'
  BY <1>4, Waits
<1>6. next \in Frames /\ next.index = 3
  BY <1>1 DEF Frames
<1> HIDE DEF next
<1>7. CASE request = NoRequest /\ at' = "look" /\ Turns(next) /\ UNCHANGED bank
  <2>1. ~Nested' /\ Base' = next
    BY <1>1, <1>6, <1>7, Turning DEF LookUp
  <2>2. UNCHANGED <<session, armed, failing, content, request>>
    BY <1>7 DEF bank
  <2>3. AnswerShown'
    BY <1>1, <1>3, <1>7, <2>2 DEF AnswerShown
  <2>4. Way' /\ OnTheWay'
    BY <1>1, <1>6, <1>7, <2>1, <2>2, <2>3, WayKept DEF Way, OnTheWay
  <2> QED
    BY <1>7, <2>4, WayDone
<1>8. CASE at' = "wait" /\ UNCHANGED <<stack, held, bank>>
  <2>1. UNCHANGED <<session, armed, failing, content, request>>
    BY <1>8 DEF bank
  <2>2. Searching' /\ Way' /\ Base' = Base
    BY <1>1, <1>8, <2>1, SameStack, WayKept DEF Searching, AnswerShown, Way
  <2>3. OnTheWay'
    BY <1>8, <2>1, <2>2 DEF Searching, OnTheWay, Way
  <2> QED
    BY <1>8, <2>2, <2>3, WayDone
<1> QED
  BY <1>5, <1>7, <1>8 DEF Onward

(* A declared answer is the one the records give.                          *)
LEMMA Answer ==
  ASSUME Inv, Typing, Watched, Way, Executes, Base.index = 3, at = "look", AnswerShown,
         Account[On] # "savings"
  PROVE  Onward
<1> DEFINE fired == Fires(Capability.outcomes, Screen, Inputs)
<1>1. /\ LookUp /\ Top = Base /\ Base.index \in Nat /\ Len(Capability.steps) = 5
      /\ Account[On] \in {"checking_only", "restricted", "not_on_file"}
  BY Looks, Known DEF Way, Watched, AnswerShown
<1>2. fired = {IF Account[On] = "not_on_file" THEN 1
               ELSE IF Account[On] = "checking_only" THEN 2 ELSE 3}
  BY <1>1, OutcomesFire DEF AnswerShown
<1>3. Capability.outcomes[First(fired)].code = Negative
  <2>1. /\ Capability.outcomes[1].code = "member_not_found"
        /\ Capability.outcomes[2].code = "no_savings_account"
        /\ Capability.outcomes[3].code = "permission_denied"
    BY <1>1, LookUpSteps DEF Outcome
  <2> HIDE DEF fired
  <2> QED
    BY <1>1, <1>2, <2>1, FirstOnly DEF Negative
<1>4. Verdict = "business_outcome"
  BY <1>2, Meaning
<1>5. SeesOutcome
  BY <1>1, <1>4, SeesByVerdict
<1>6. at' = "over" /\ result' = [status |-> "business_outcome", code |-> Negative, outputs |-> {}]
  BY <1>1, <1>3, <1>5 DEF SeesOutcome, Ends, LookUp
<1> QED
  BY <1>1, <1>6, Apart DEF Onward, Owed, Way

LEMMA ExtractsFrame ==
  ASSUME Extracts
  PROVE  /\ at' = "wait"
         /\ UNCHANGED <<task, stack, held, recovery, result, midway, hurried>>
         /\ UNCHANGED <<session, armed, request, content, failing, opened>>
         /\ (Nested' <=> Nested) /\ Base' = Base /\ Top' = Top
<1>1. /\ at' = "wait"
      /\ UNCHANGED <<task, stack, held, recovery, result, midway, hurried>>
      /\ UNCHANGED <<session, armed, request, content, failing, opened>>
  BY DEF Extracts, Settles, Looking, bank
<1> QED
  BY <1>1, SameStack

(* What stands beside each of the labels that are read.                    *)
LEMMA Reads ==
  ASSUME Inv, Typing, Watched, Way, Executes, Base.index \in {3, 4, 5},
         at \in {"look", "act", "wait"}, AnswerShown, Account[On] = "savings",
         NEW label \in {"Savings_Balance", "Status", "As_Of"},
         Doing(Step, "extract", Beside("cell", label), Stable),
         Asserting(Step, Exists("cell", label), Nothing)
  PROVE  Onward
<1>1. /\ LookUp /\ Top = Base /\ Base \in Frames /\ Located /\ UNCHANGED task /\ On' = On
      /\ Screen.nodes = Nodes(content) /\ content.page = "record" /\ content.about = On
      /\ request = NoRequest
  BY Looks, Doings, FoundPage DEF Way, On, Screen, AnswerShown, Watched
<1>2. PICK entry \in Nodes(content) :
        /\ entry.role = "cell" /\ entry.beside = label
        /\ \A n \in Nodes(content) : n.beside = label => n = entry
        /\ entry.name = NoText => NoText \in {Printed[On].balance, Printed[On].status}
  <2>1. /\ Entry("Savings_Balance", Printed[On].balance) \in Nodes(content)
        /\ Entry("Status", Printed[On].status) \in Nodes(content)
        /\ Entry("As_Of", AsOf) \in Nodes(content)
        /\ \A n \in Nodes(content) :
             /\ n.beside = "Savings_Balance" => n = Entry("Savings_Balance", Printed[On].balance)
             /\ n.beside = "Status" => n = Entry("Status", Printed[On].status)
             /\ n.beside = "As_Of" => n = Entry("As_Of", AsOf)
    BY <1>1, Records
  <2>2. \A text, other : /\ Entry(other, text).role = "cell" /\ Entry(other, text).beside = other
                         /\ Entry(other, text).name = text
    BY DEF Entry, Node
  <2> QED
    BY <2>1, <2>2, PrintedAssumption
<1>3. UNCHANGED <<content, request>> => AnswerShown'
  BY <1>1 DEF AnswerShown
<1>4. CASE at = "look"
  <2>1. Evaluate(Step.precondition, Screen, Inputs)
    <3>1. IsFiniteSet(Nodes(content)) /\ Label(label) \in Nodes(content)
      BY <1>1, Records
    <3>2. Displays(Screen, "cell", label)
      BY <1>1, <3>1 DEF Displays, Label, Node
    <3> QED
      BY <1>1, <3>1, <3>2, ShownHolds, Simple, SimpleHolds DEF Asserting
  <2>2. SeesExpected
    BY <1>1, <1>4, <2>1, WayExpected
  <2>3. Way' /\ AnswerShown' /\ at' = "act" /\ Base' = Base
    BY <1>1, <1>3, <2>2, SeesExpectedFrame, WayKept DEF Way
  <2>4. OnTheWay'
    BY <1>1, <2>3 DEF OnTheWay, Way
  <2> QED
    BY <2>3, <2>4, WayDone
<1>5. CASE at = "act"
  <2>1. Found = {entry}
    BY <1>2, <1>5 DEF Found, Inv, NoneInFlight, Doing, Beside
  <2>2. IF entry.name = NoText THEN ReadsNothing ELSE Extracts
    BY <1>5, <2>1, ActsOnOne DEF Doing
  <2>3. CASE Extracts
    <3>1. Way' /\ AnswerShown' /\ at' = "wait" /\ Base' = Base
      BY <1>1, <1>3, <2>3, ExtractsFrame, WayKept DEF Way
    <3>2. OnTheWay'
      BY <1>1, <3>1 DEF OnTheWay, Way
    <3> QED
      BY <3>1, <3>2, WayDone
  <2>4. CASE ReadsNothing /\ entry.name = NoText
    <3>1. at' = "over" /\ result'.status = "failed" /\ result'.code = "action_failed"
      BY <2>4 DEF ReadsNothing, Fails, Ends, Triggered
    <3> QED
      BY <1>2, <2>4, <3>1, Apart DEF Onward, Owed, Way
  <2> QED
    BY <2>2, <2>3, <2>4
<1>6. CASE at = "wait"
  <2> DEFINE next == [index |-> Top.index + 1, attempts |-> 0]
  <2>1. Evaluate(Step.postcondition, Screen, Inputs)
    BY OthersHold, Simple, SimpleHolds DEF Asserting
  <2>2. \/ /\ request = NoRequest /\ at' = "look" /\ Turns(next)
           /\ UNCHANGED <<held, outputs, result, recovery, bank>>
        \/ at' = "wait" /\ UNCHANGED <<stack, held, outputs, result, recovery, bank>>
        \/ at' = "over" /\ hurried'
    BY <1>6, <2>1, Settled, Waits DEF Doing
  <2>3. next \in Frames /\ next.index \in {4, 5, 6}
    BY <1>1 DEF Frames
  <2> HIDE DEF next
  <2>4. CASE at' = "look" /\ Turns(next) /\ UNCHANGED bank
    <3>1. ~Nested' /\ Base' = next
      BY <1>1, <2>3, <2>4, Turning DEF LookUp
    <3>2. UNCHANGED <<session, armed, failing, content, request>>
      BY <2>4 DEF bank
    <3>3. Way' /\ AnswerShown'
      BY <1>1, <1>3, <3>1, <3>2, WayKept
    <3>4. OnTheWay'
      BY <1>1, <2>3, <2>4, <3>1, <3>3 DEF OnTheWay, Way
    <3> QED
      BY <2>4, <3>3, <3>4, WayDone
  <2>5. CASE at' = "wait" /\ UNCHANGED <<stack, bank>>
    <3>1. UNCHANGED <<session, armed, failing, content, request>>
      BY <2>5 DEF bank
    <3>2. Way' /\ AnswerShown' /\ Base' = Base
      BY <1>1, <1>3, <2>5, <3>1, SameStack, WayKept DEF Way
    <3>3. OnTheWay'
      BY <1>1, <2>5, <3>2 DEF OnTheWay, Way
    <3> QED
      BY <2>5, <3>2, <3>3, WayDone
  <2> QED
    BY <2>2, <2>4, <2>5 DEF Onward
<1> QED
  BY <1>4, <1>5, <1>6

(* Past the last step, the checkpoint holds.                               *)
LEMMA Concludes ==
  ASSUME Inv, Typing, Watched, Way, Executes, Base.index = 6, at = "look", AnswerShown,
         Account[On] = "savings"
  PROVE  Onward
<1>1. /\ LookUp /\ Top = Base /\ Base.index \in Nat /\ Len(Capability.steps) = 5
      /\ Screen.nodes = Nodes(content) /\ content.page = "record" /\ content.about = On
      /\ Capability.checkpoint = AllOf({Exists("cell", "Savings_Balance"), Some("cell", Amounts)})
      /\ On \in Members
      /\ Printed[On].balance # NoText /\ Printed[On].status # NoText
  <2>1. /\ LookUp /\ Top = Base /\ Base.index \in Nat /\ Len(Capability.steps) = 5
        /\ Screen.nodes = Nodes(content) /\ content.page = "record" /\ content.about = On
        /\ Capability.checkpoint = AllOf({Exists("cell", "Savings_Balance"), Some("cell", Amounts)})
        /\ On \in Members
    BY Looks, LookUpSteps, FoundPage, Known DEF Way, Screen, AnswerShown, Watched
  <2>2. Behind(3) /\ Behind(4) /\ task.capability \in Balances
    BY <2>1 DEF Behind, LookUp, Recovering, Balances
  <2> QED
    BY <2>1, <2>2 DEF Inv, ReadSoFar
<1>2. Fires(Capability.outcomes, Screen, Inputs) = {}
  BY <1>1, OutcomesFire
<1>3. Fires(Capability.recovery, Screen, Inputs) = {}
  BY <1>1, RecoveryFires DEF SignOnPages, Way
<1>4. Evaluate(Capability.checkpoint, Screen, Inputs)
  <2>1. /\ IsFiniteSet(Screen.nodes) /\ Label("Savings_Balance") \in Screen.nodes
        /\ Entry("Savings_Balance", Printed[On].balance) \in Screen.nodes
    BY <1>1, Records
  <2>2. Asserted(Exists("cell", "Savings_Balance"), Screen, Inputs)
    <3>1. Displays(Screen, "cell", "Savings_Balance")
      BY <2>1 DEF Displays, Label, Node
    <3> QED
      BY <2>1, <3>1, ShownHolds
  <2>3. Asserted(Some("cell", Amounts), Screen, Inputs)
    <3>1. Printed[On].balance \in Amounts
      BY <1>1 DEF Amounts
    <3>2. \E n \in Screen.nodes : n.role = "cell" /\ n.name \in Amounts
      BY <2>1, <3>1 DEF Entry, Node
    <3>3. Amounts # {}
      BY <3>1
    <3> QED
      BY <2>1, <3>2, <3>3, SomeHolds
  <2> QED
    BY <1>1, <2>2, <2>3, Simple, AllHold
<1>5. ~AtStep
  BY <1>1 DEF AtStep
<1>6. Verdict = "expected"
  BY <1>2, <1>3, <1>4, <1>5, Meaning
<1>7. CheckpointHolds
  BY <1>1, <1>6, SeesByVerdict
<1>8. at' = "over" /\ result'.status = "success"
  BY <1>1, <1>7 DEF CheckpointHolds, Ends, LookUp
<1> QED
  BY <1>1, <1>8, Apart DEF Onward, Owed, Way

LEMMA OnTheWayStep ==
  ASSUME Inv, Typing, Watched, OnTheWay, Executes \/ Answers
  PROVE  Onward
<1>1. Way /\ ~(Answers /\ request = NoRequest)
  BY Serving, Requests DEF OnTheWay, Way
<1>2. at \in {"look", "act"} => request = NoRequest
  BY DEF Inv, NoneInFlight
<1>3. CASE /\ Base.index = 1 /\ at = "load"
           /\ request = Get("GET_search", Nobody) \/ (request = NoRequest /\ content.page = "search")
  BY <1>1, <1>3, Arrives
<1>4. CASE Base.index = 1 /\ at \in {"look", "act"} /\ content.page = "search"
  BY <1>1, <1>2, <1>4, Enters
<1>5. CASE Base.index = 1 /\ at = "wait" /\ Entered
  BY <1>1, <1>5, Enters DEF Entered
<1>6. CASE Base.index = 2 /\ at \in {"look", "act"} /\ Entered
  BY <1>1, <1>2, <1>6, Submits
<1>7. CASE Base.index = 2 /\ at = "wait" /\ Cardinality(held.nodes) = 4 /\ Searching
  BY <1>1, <1>7, SearchAnswered, SearchAwaited
<1>8. CASE /\ Base.index \in 3 .. 6 /\ at \in {"look", "act", "wait"} /\ AnswerShown
           /\ Base.index > 3 \/ at # "look" => Account[On] = "savings"
  <2>1. Executes /\ LookUp /\ Top = Base
    BY <1>1, <1>8, Looks DEF AnswerShown, Way
  <2>2. CASE Base.index = 3 /\ at = "look" /\ Account[On] # "savings"
    BY <1>1, <1>8, <2>1, <2>2, Answer
  <2>3. CASE Base.index \in {3, 4, 5} /\ Account[On] = "savings"
    <3>1. /\ Base.index = 3 =>
               /\ Doing(Step, "extract", Beside("cell", "Savings_Balance"), Stable)
               /\ Asserting(Step, Exists("cell", "Savings_Balance"), Nothing)
          /\ Base.index = 4 =>
               /\ Doing(Step, "extract", Beside("cell", "Status"), Stable)
               /\ Asserting(Step, Exists("cell", "Status"), Nothing)
          /\ Base.index = 5 =>
               /\ Doing(Step, "extract", Beside("cell", "As_Of"), Stable)
               /\ Asserting(Step, Exists("cell", "As_Of"), Nothing)
      BY <2>1, LookUpSteps
    <3> QED
      BY <1>1, <1>8, <2>1, <2>3, <3>1, Reads
  <2>4. CASE Base.index = 6 /\ Account[On] = "savings"
    <3>1. at = "look"
      BY <1>8, <2>1, <2>4 DEF Inv, Located, LookUp, LastStep, Recovering
    <3> QED
      BY <1>1, <1>8, <2>1, <2>4, <3>1, Concludes
  <2> QED
    BY <1>8, <2>2, <2>3, <2>4
<1> QED
  BY <1>3, <1>4, <1>5, <1>6, <1>7, <1>8 DEF OnTheWay, Searching

-----------------------------------------------------------------------------
(* The whole way.                                                          *)
MatrixInv == Typing /\ Tracked /\ AsTheMatrixSays

(* What replay does leaves the application's session and faults alone.     *)
LEMMA ExecutesFrame ==
  ASSUME Executes
  PROVE  UNCHANGED <<session, armed>>
<1>1. UNCHANGED bank => UNCHANGED <<session, armed>>
  BY DEF bank
<1>2. CASE Loaded \/ SeesOutcome \/ SeesUnexpected \/ SeesExpected \/ CheckpointFails
           \/ CheckpointHolds \/ NotResolved \/ ReadsNothing \/ Extracts
  BY <1>1, <1>2 DEF Loaded, SeesOutcome, SeesUnexpected, SeesExpected, CheckpointFails, CheckpointHolds,
    NotResolved, ReadsNothing, Extracts
<1>3. CASE SeesRecoverable
  BY <1>1, <1>3 DEF SeesRecoverable, LoadShell
<1>4. CASE Types
  BY <1>4 DEF Types, Fill
<1>5. CASE Clicks
  BY <1>5 DEF Clicks, Press
<1>6. CASE WaitEnds \/ WaitGoesOn \/ TimesOut
  BY <1>1, <1>6 DEF WaitEnds, WaitGoesOn, TimesOut
<1> QED
  BY <1>2, <1>3, <1>4, <1>5, <1>6 DEF Executes

LEMMA TypingKept ==
  ASSUME Typing, [Next]_vars
  PROVE  Typing'
<1>1. CASE UNCHANGED vars
  BY <1>1 DEF vars, run, bank, Typing
<1>2. ASSUME NEW capability, NEW member, NEW valid \in BOOLEAN, Begin(capability, member, valid)
      PROVE  Typing'
  BY <1>2 DEF Begin, Starts, Typing
<1>3. CASE Executes
  BY <1>3, ExecutesFrame, Doings DEF Typing
<1>4. CASE Answers
  <2>1. \A fault \in Faults : Consume(fault) => armed' \in [Faults -> Int]
    <3> SUFFICES ASSUME NEW fault \in Faults, Consume(fault) PROVE armed' \in [Faults -> Int]
      OBVIOUS
    <3> QED
      BY DEF Consume, Typing
  <2>2. {"transient_load", "session_timeout", "undeclared_dialog", "validation_error"} \subseteq Faults
    BY DEF Faults
  <2>3. session' \in {session, TRUE, FALSE} /\ armed' \in [Faults -> Int]
    <3>1. CASE Unavailable \/ SessionExpires \/ NotSignedOn \/ Notice
      BY <2>1, <2>2, <3>1 DEF Unavailable, SessionExpires, NotSignedOn, Notice, Typing
    <3>2. CASE LoginForm \/ LoginSubmit \/ SearchForm \/ SearchSubmit
               \/ MemberPage("GET_member", "record") \/ MemberPage("GET_form", "form")
      BY <3>2 DEF LoginForm, LoginSubmit, SearchForm, SearchSubmit, MemberPage, Typing
    <3>3. CASE SubaccountSubmit
      BY <2>1, <2>2, <3>3 DEF SubaccountSubmit, Typing
    <3> QED
      BY <1>4, <3>1, <3>2, <3>3 DEF Answers, Serve
  <2> QED
    BY <1>4, <2>3, AnswersFrame DEF Typing
<1>5. ASSUME NEW fault \in Faults, NEW count \in Counts, Arms(fault, count)
      PROVE  Typing'
  <2>1. count \in Int
    BY BankAssumption
  <2> QED
    BY <1>5, <2>1 DEF Arms, Arm, Typing
<1> QED
  BY <1>1, <1>2, <1>3, <1>4, <1>5 DEF Next

(* What the matrix says is what is owed.                                   *)
LEMMA OwedSays ==
  ASSUME UNCHANGED task, Owed(result'.status, result'.code, result'.outputs)
  PROVE  AsTheMatrixSays'
<1> DEFINE times(fault) == IF Only(fault) THEN task.armed[fault] ELSE 0
           exhausted == result'.status = "needs_human" /\ result'.code = "recovery_exhausted"
<1>1. /\ Answerable => IsAnswer'
      /\ Exhausting => exhausted
      /\ Interrupted => result'.status = "needs_human" /\ result'.code = "unexpected_state"
                         /\ result'.outputs = {}
  BY DEF Owed, IsAnswer, Negative, On
<1>2. /\ (\A fault \in Faults : task.armed[fault] = 0) => Answerable
      /\ times("transient_load") = 1 => Answerable
      /\ times("transient_load") = -1 => Exhausting
      /\ times("session_timeout") = 1 /\ task.valid => Answerable
      /\ times("session_timeout") = 1 /\ ~task.valid => Exhausting
      /\ times("undeclared_dialog") # 0 => Interrupted
  BY DEF Answerable, Exhausting, Interrupted, Unarmed, FailsOnce, FailsAlways, Expires, Alone
<1>3. \A fault : Only(fault)' <=> Only(fault)
  BY DEF Only
<1> QED
  BY <1>1, <1>2, <1>3 DEF AsTheMatrixSays

(* Every stage leads to one of them, or to the end that is owed.           *)
LEMMA Stepping ==
  ASSUME MaxRecoveryTotal # 0, Inv, Typing, Tracked, Watched,
         Answerable \/ Exhausting \/ Interrupted, Executes \/ Answers
  PROVE  Onward
<1>1. ~(Answers /\ request = NoRequest)
  BY Serving, Requests
<1>2. CASE Starting
  <2>1. request # NoRequest /\ at = "load"
    BY <1>2, Requests DEF Starting
  <2>2. Answers
    BY <2>1, Doings, LoadedFrame
  <2> QED
    BY <1>2, <2>2, StartingStep
<1>3. CASE Down
  BY <1>1, <1>3, DownStep DEF Down
<1>4. CASE Noticed
  BY <1>1, <1>4, NoticedStep DEF Noticed
<1>5. CASE SignedOff
  BY <1>5, SignedOffStep
<1>6. CASE OnTheWay
  BY <1>6, OnTheWayStep
<1> QED
  BY <1>2, <1>3, <1>4, <1>5, <1>6 DEF Tracked

(* The stages are inductive, given what holds of every run.                *)
LEMMA MatrixInductive ==
  ASSUME MaxRecoveryTotal # 0, Inv, MatrixInv, [Next]_vars
  PROVE  MatrixInv'
<1>1. Inv' /\ Typing' /\ Typing /\ Tracked /\ AsTheMatrixSays
  BY InvInductive, TypingKept DEF MatrixInv
<1>2. at' # "over" => result'.status = "none"
  BY <1>1 DEF Inv, Asked, NoResult
<1>3. CASE UNCHANGED vars
  <2>1. UNCHANGED <<task, stack, at, held, seen, outputs, recovery, result, midway, hurried,
                    session, armed, request, content, failing, opened>>
    BY <1>3 DEF vars, run, bank
  <2>2. AsTheMatrixSays'
    BY <1>1, <2>1 DEF AsTheMatrixSays, IsAnswer, Negative, On, Only
  <2>3. Tracked'
    BY <1>1, <2>1
    DEF Tracked, Watched, Answerable, Exhausting, Interrupted, Unarmed, FailsOnce, FailsAlways, Expires,
      Alone, Only, Starting, Down, Noticed, SignedOff, OnTheWay, SigningOn, SignedOn, Typed, Credential,
      AnswerShown, Entered, On, Quiet, FirstStep, Untried, Base, Top, Nested
  <2> QED
    BY <1>1, <2>2, <2>3 DEF MatrixInv
<1>4. ASSUME NEW capability, NEW member, NEW valid \in BOOLEAN, Begin(capability, member, valid)
      PROVE  MatrixInv'
  <2>1. /\ at = "over" /\ at' = "load" /\ task'.session = session /\ task'.armed = armed
        /\ armed' = armed /\ session' = session /\ stack' = <<Frame>> /\ recovery' = 0
        /\ failing' = {} /\ outputs' = outputs
        /\ request' = Get(IF session THEN "GET_search" ELSE "GET_login", Nobody)
    BY <1>4 DEF Begin, Starts, ShowsShell
  <2>2. outputs' = {}
    BY <2>1 DEF Inv, Asked
  <2>3. ~Nested' /\ Base' = Frame /\ FirstStep' /\ Untried'
    BY <2>1 DEF Nested, Base, Frame, FirstStep, Untried
  <2>4. Watched' => Starting'
    BY <2>1, <2>2, <2>3 DEF Watched, Starting
  <2> QED
    BY <1>1, <1>2, <2>1, <2>4 DEF MatrixInv, Tracked, AsTheMatrixSays
<1>5. CASE Executes \/ Answers
  <2>1. UNCHANGED <<task, midway>>
    BY <1>5, Doings, AnswersFrame
  <2>2. /\ Answerable' <=> Answerable
        /\ Exhausting' <=> Exhausting
        /\ Interrupted' <=> Interrupted
    BY <2>1, SameTask
  <2>3. CASE at = "over"
    <3>1. Answers
      BY <1>5, <2>3, Doings
    <3>2. UNCHANGED <<task, at, result, midway, hurried>>
      BY <3>1, AnswersFrame
    <3>3. AsTheMatrixSays'
      BY <1>1, <3>2 DEF AsTheMatrixSays, IsAnswer, Negative, On, Only
    <3> QED
      BY <1>1, <2>3, <3>2, <3>3 DEF MatrixInv, Tracked, Watched
  <2>4. CASE at # "over" /\ ~(Watched /\ (Answerable \/ Exhausting \/ Interrupted))
    <3>1. Tracked'
      BY <2>1, <2>2, <2>4 DEF Tracked, Watched
    <3>2. AsTheMatrixSays'
      BY <2>1, <2>4
      DEF AsTheMatrixSays, Watched, Recovering, Only, Answerable, Exhausting, Interrupted, Unarmed,
        FailsOnce, FailsAlways, Expires, Alone
    <3> QED
      BY <1>1, <3>1, <3>2 DEF MatrixInv
  <2>5. CASE Watched /\ (Answerable \/ Exhausting \/ Interrupted)
    <3>1. Onward
      BY <1>1, <1>5, <2>5, Stepping
    <3>2. CASE at' # "over" /\ Staged'
      BY <1>1, <1>2, <3>2 DEF MatrixInv, Tracked, Staged, AsTheMatrixSays
    <3>3. CASE at' = "over" /\ hurried'
      BY <1>1, <3>3 DEF MatrixInv, Tracked, Watched, AsTheMatrixSays
    <3>4. CASE at' = "over" /\ Owed(result'.status, result'.code, result'.outputs)
      <4>1. AsTheMatrixSays'
        BY <2>1, <3>4, OwedSays
      <4> QED
        BY <1>1, <3>4, <4>1 DEF MatrixInv, Tracked, Watched
    <3> QED
      BY <3>1, <3>2, <3>3, <3>4 DEF Onward
  <2> QED
    BY <2>3, <2>4, <2>5
<1>6. ASSUME NEW fault \in Faults, NEW count \in Counts, Arms(fault, count)
      PROVE  MatrixInv'
  <2>1. /\ UNCHANGED <<task, at, result, hurried>>
        /\ ~midway /\ midway' = (at # "over")
    BY <1>6 DEF Arms
  <2>2. CASE at = "over"
    <3>1. AsTheMatrixSays'
      BY <1>1, <2>1 DEF AsTheMatrixSays, IsAnswer, Negative, On, Only
    <3> QED
      BY <1>1, <2>1, <2>2, <3>1 DEF MatrixInv, Tracked, Watched
  <2>3. CASE at # "over"
    BY <1>1, <2>1, <2>3 DEF MatrixInv, Tracked, Watched, AsTheMatrixSays
  <2> QED
    BY <2>2, <2>3
<1> QED
  BY <1>3, <1>4, <1>5, <1>6 DEF Next

LEMMA MatrixInit == Init => MatrixInv
<1> SUFFICES ASSUME Init PROVE MatrixInv
  OBVIOUS
<1>1. Counts \cup {0} \subseteq Int
  BY BankAssumption
<1>2. Typing
  BY <1>1 DEF Init, Typing
<1>3. Tracked /\ AsTheMatrixSays
  BY DEF Init, Tracked, Watched, AsTheMatrixSays, NoResult
<1> QED
  BY <1>2, <1>3 DEF MatrixInv

(* The documented fault matrix, for every member, record and printed       *)
(* value, where policy allows at least one recovery: a look-up that begins *)
(* signed on answers with what the records say when nothing fails, when    *)
(* the application is down once, and when its session expires and the      *)
(* credentials are good; it asks for a person with the recovery exhausted  *)
(* when the application stays down or the credentials are bad, and at once *)
(* when a page shows that nothing declares (replay/executor.py and         *)
(* replay/classify.py on apps/mock_bank, docs/design/error-taxonomy.md).   *)
THEOREM Matrix ==
  ASSUME MaxRecoveryTotal # 0
  PROVE  Spec => []AsTheMatrixSays
<1>1. Inv /\ MatrixInv /\ [Next]_vars => MatrixInv'
  BY MatrixInductive
<1>2. MatrixInv => AsTheMatrixSays
  BY DEF MatrixInv
<1> QED
  BY <1>1, <1>2, MatrixInit, Invariance, PTL DEF Spec
=============================================================================
