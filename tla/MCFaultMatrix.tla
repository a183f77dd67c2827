---------------------------- MODULE MCFaultMatrix ----------------------------
(***************************************************************************)
(* FaultMatrix with a member of each kind, and one whose record leaves the *)
(* status of the savings account blank.                                    *)
(***************************************************************************)
EXTENDS FaultMatrix

MCMembers == {"12345", "24680", "13579", "55555", "99999"}
MCAccount == [m \in MCMembers |->
  CASE m \in {"12345", "24680"} -> "savings" [] m = "13579" -> "checking_only"
    [] m = "55555" -> "restricted" [] m = "99999" -> "not_on_file"]
MCPrinted == [m \in MCMembers |->
  CASE m = "12345" ->
         [balance |-> "$4,210.55", status |-> "Active", reference |-> "SA-12345-SAV"]
    [] m = "24680" ->
         [balance |-> "$18.00", status |-> NoText, reference |-> "SA-24680-SAV"]
    [] OTHER -> [balance |-> "$0.00", status |-> "Closed", reference |-> "SA-13579-SAV"]]

MCCounts == {-1, 1}
=============================================================================
