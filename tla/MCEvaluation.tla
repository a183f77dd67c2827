---------------------------- MODULE MCEvaluation ----------------------------
(***************************************************************************)
(* Evaluation on a member who exists and one who does not, asked about     *)
(* once or three times each by two suites: two and six runs, on either     *)
(* side of the five an approval needs.                                     *)
(***************************************************************************)
EXTENDS Evaluation

CONSTANTS plain, masked, member, nobody

Ran(decisions, status, answer) == [decisions |-> decisions, status |-> status, answer |-> answer]

MCContents == {plain, masked}
MCMasked   == {masked}
MCCases    == {member, nobody}
MCTruth    == [c \in MCCases |->
                 IF c = member THEN [status |-> "success", answer |-> "balance"]
                 ELSE [status |-> "business_outcome", answer |-> "not_found"]]

(* Right by two ways, another's answer, a negative answer, none.           *)
MCBehaviours ==
  {Ran("exact", "success", "balance"), Ran("anchor", "success", "balance"),
   Ran("exact", "success", "another's"), Ran("exact", "business_outcome", "not_found"),
   Ran("exact", "failed", "none")}

MCRepeats == {1, 3}
=============================================================================
