-------------------------- MODULE MCSupervisedRun ---------------------------
(***************************************************************************)
(* SupervisedRun on a capability of four steps, one of each kind, with     *)
(* one rule whose remedy is an action and one whose remedy runs a          *)
(* two-step capability that has a rule of its own.                         *)
(***************************************************************************)
EXTENDS SupervisedRun, TLC

CONSTANTS reload, signin, op1, i1, i2, s1

Does(kind, pre, post) == [does |-> kind, pre |-> pre, post |-> post]

MCPlan ==
  <<Does("act", TRUE, TRUE), Does("extract", TRUE, FALSE),
    Does("wait", FALSE, TRUE), Does("assert", TRUE, FALSE)>>

MCOperators == {op1}
MCIds       == {i1, i2}
MCScreens   == {s1}

MCRemedyPlan  == <<Does("act", FALSE, FALSE), Does("act", TRUE, FALSE)>>
MCRules       == {reload, signin}
MCMaxAttempts == (reload :> 2) @@ (signin :> 1)
MCRemedies    == (reload :> <<"action">>) @@ (signin :> <<"action", "capability">>)
MCTriggers    == {"target_ambiguous", "target_not_found", "checkpoint_failed",
                  "recovery_exhausted", "unexpected_state"}
=============================================================================
