------------------------ MODULE ReferenceCapabilities ------------------------
(***************************************************************************)
(* The capability documents replay is tried with on the back office: the   *)
(* savings balance, the sub-account and the sign-on, as written by hand    *)
(* (tests/fixtures/capabilities), and the savings balance as discovered    *)
(* and compiled (evidence/capabilities).                                   *)
(*                                                                         *)
(* A step's target is what the control is known by: its name, or the text  *)
(* it stands beside.                                                       *)
(***************************************************************************)
EXTENDS MockBank

Query(role, names)  == [role |-> role, names |-> names]
Some(role, names)   == [assert |-> "node_exists", query |-> Query(role, names), min_count |-> 1]
Exists(role, name)  == Some(role, {name})
Absent(role, name)  == [assert |-> "node_absent", query |-> Query(role, {name})]
Text(text)          == [assert |-> "text_present", value |-> text]
StatusIn(codes)     == [assert |-> "http_status_in", codes |-> codes]
AllOf(predicates)   == [assert |-> "all_of", of |-> predicates]
AnyOf(predicates)   == [assert |-> "any_of", of |-> predicates]
Not(predicate)      == [assert |-> "not", of |-> predicate]
Nothing             == [assert |-> "nothing"]

Stable     == [for |-> "snapshot_stable"]
Navigation == [for |-> "navigation"]
Until(p)   == [for |-> "predicate", until |-> p]

Named(role, name)  == [role |-> role, by |-> "name", is |-> name]
Beside(role, text) == [role |-> role, by |-> "beside", is |-> text]
Input(name)        == [is |-> "input", name |-> name]
Secret             == [is |-> "secret"]
NoValue            == [is |-> "none"]

(* What a pattern matches, of what the pages print.                        *)
Amounts    == {Printed[m].balance : m \in Members} \ {NoText}
References == {Printed[m].reference : m \in Members} \ {NoText}
Dates      == {AsOf}

Outcome(code, text) == [code |-> code, detect |-> Text(text)]

(* The codes on which a human is asked for, in every document alike.       *)
Triggered ==
  {"target_ambiguous", "target_not_found", "checkpoint_failed", "recovery_exhausted",
   "unexpected_state"}

(* A capability may narrow what policy lets it do; one that says nothing   *)
(* does not.                                                               *)
Permits(capability, action) == capability.allowed = {} \/ action \in capability.allowed

-----------------------------------------------------------------------------
(* A step of which nothing is asserted, and the assertions.                *)
Do(does, target, value, wait) ==
  [does |-> does, target |-> target, value |-> value, wait |-> wait,
   precondition |-> Nothing, postcondition |-> Nothing]

Given(precondition, step)  == [step EXCEPT !.precondition = precondition]
Then(step, postcondition)  == [step EXCEPT !.postcondition = postcondition]

EnterMember    == Do("type", Named("textbox", "Member_Number"), Input("member_id"), Stable)
Submit(wait)   == Do("click", Named("button", "Search"), NoValue, wait)
Read(label)    == Do("extract", Beside("cell", label), NoValue, Stable)
ReadText(text) == Do("extract", Named("cell", text), NoValue, Stable)
Shown(label)   == Given(Exists("cell", label), Read(label))

MemberAsked == Given(Exists("textbox", "Member_Number"), EnterMember)
Submitted(wait) == Then(Submit(wait), Absent("textbox", "Member_Number"))

MemberEntered ==
  [assert |-> "node_has_value", query |-> Query("textbox", {"Member_Number"}),
   value |-> Input("member_id")]

TransientLoad ==
  [detect |-> StatusIn({502, 503, 504}), remedy |-> "reload", max_attempts |-> 3]

SessionExpired ==
  [detect |-> AllOf({Exists("textbox", "Operator_ID"), Exists("button", "Sign_On")}),
   remedy |-> "sign_on", max_attempts |-> 1]

-----------------------------------------------------------------------------
SavingsBalance(wait) ==
  [steps      |-> <<Then(MemberAsked, MemberEntered), Submitted(wait),
                    Shown("Savings_Balance"), Shown("Status"), Shown("As_Of")>>,
   outcomes   |-> <<Outcome("member_not_found", "No_records_found"),
                    Outcome("no_savings_account", "No_savings_account_on_file"),
                    Outcome("permission_denied", "not_authorized")>>,
   recovery   |-> <<TransientLoad, SessionExpired>>,
   checkpoint |-> AllOf({Exists("cell", "Savings_Balance"), Some("cell", Amounts)}),
   allowed    |-> {"click", "type", "select", "navigate", "extract", "press_key", "wait_for",
                   "assert", "reload"}]

(* The wait a document may have in place of a navigation: for what the     *)
(* search may come to.                                                     *)
Attentively ==
  Until(AnyOf({Exists("cell", "Accounts_Overview"), Not(Exists("button", "Search")),
               Text("No_records_found"), Text("not_authorized")}))

OpenSubaccount ==
  [steps      |-> <<MemberAsked, Submitted(Navigation),
                    Given(Exists("cell", "Savings_Balance"),
                          Do("click", Named("link", "Open_Sub-Account"), NoValue, Navigation)),
                    Given(Exists("cell", "Account_Type"),
                          Do("select", Beside("combobox", "Account_Type"),
                             Input("account_type"), Stable)),
                    Do("type", Beside("textbox", "Initial_Deposit"),
                       Input("initial_deposit"), Stable),
                    Do("click", Named("button", "Open_Account"), NoValue, Navigation),
                    Shown("Reference")>>,
   outcomes   |-> <<Outcome("validation_rejected", "below_the_minimum_required"),
                    Outcome("member_not_found", "No_records_found")>>,
   recovery   |-> <<TransientLoad>>,
   checkpoint |-> AllOf({Exists("cell", "Reference"), Some("cell", References)}),
   allowed    |-> {"click", "type", "select", "navigate", "extract", "wait_for", "assert"}]

(* As the compiler writes it: no step asserts anything, nothing is         *)
(* declared.                                                               *)
CompiledBalance ==
  [steps      |-> <<EnterMember, Submit(Navigation),
                    Read("Savings_Balance"), Read("Status"), ReadText(AsOf)>>,
   outcomes   |-> <<>>,
   recovery   |-> <<>>,
   checkpoint |-> AllOf({Some("cell", Amounts), Exists("cell", "Savings_Balance"),
                         Exists("cell", "Status"), Some("cell", Dates),
                         Exists("cell", "As_Of")}),
   allowed    |-> {}]

EnterSecret(name) == Do("type", Named("textbox", name), Secret, Stable)

SignOn ==
  [steps      |-> <<Given(Exists("textbox", "Operator_ID"), EnterSecret("Operator_ID")),
                    EnterSecret("Password"),
                    Do("click", Named("button", "Sign_On"), NoValue, Navigation)>>,
   outcomes   |-> <<Outcome("invalid_credentials", "Invalid_operator_ID_or_password")>>,
   recovery   |-> <<>>,
   checkpoint |-> AllOf({Exists("link", "Sign_Off"), Absent("button", "Sign_On")}),
   allowed    |-> {"type", "click"}]

Capabilities ==
  [savings_balance   |-> SavingsBalance(Navigation),
   attentive_balance |-> SavingsBalance(Attentively),
   open_subaccount   |-> OpenSubaccount,
   compiled_balance  |-> CompiledBalance]
=============================================================================
