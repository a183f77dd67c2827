-------------------------- MODULE MCApprovedReplay --------------------------
(***************************************************************************)
(* ApprovedReplay with three contents: one that only looks things up, one  *)
(* that ends with an irreversible step, and an edit of it that adds        *)
(* another and has an annotation on an action.                             *)
(***************************************************************************)
EXTENDS ApprovedReplay, TLC

CONSTANTS lookup, transfer, edited

Step(reads, declared, annotation) == Request(reads, "safe", declared, annotation)

MCContents == {lookup, transfer, edited}

MCPlan ==
  (lookup   :> <<Step(FALSE, "safe", NoRisk), Step(TRUE, "safe", NoRisk)>>) @@
  (transfer :> <<Step(FALSE, "elevated", NoRisk), Step(FALSE, "irreversible", NoRisk)>>) @@
  (edited   :> <<Step(FALSE, "safe", "irreversible"), Step(FALSE, "irreversible", NoRisk)>>)

MCSlotted  == {transfer, edited}
MCRemedies == {<<Step(FALSE, "safe", NoRisk), Step(FALSE, "elevated", NoRisk)>>,
               <<Step(FALSE, "irreversible", NoRisk)>>}
=============================================================================
