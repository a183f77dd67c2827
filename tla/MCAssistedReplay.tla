-------------------------- MODULE MCAssistedReplay --------------------------
(***************************************************************************)
(* AssistedReplay on a capability of four steps, one of each kind, with    *)
(* one rule whose remedy is an action and one whose remedy runs a          *)
(* two-step capability that has a rule of its own.                         *)
(***************************************************************************)
EXTENDS AssistedReplay, TLC

CONSTANTS reload, signin

Does(kind, pre, post) == [does |-> kind, pre |-> pre, post |-> post]

MCPlan ==
  <<Does("act", TRUE, TRUE), Does("extract", TRUE, FALSE),
    Does("wait", FALSE, TRUE), Does("assert", TRUE, FALSE)>>

MCRemedyPlan  == <<Does("act", FALSE, FALSE), Does("act", TRUE, FALSE)>>
MCRules       == {reload, signin}
MCMaxAttempts == (reload :> 2) @@ (signin :> 1)
MCRemedies    == (reload :> <<"action">>) @@ (signin :> <<"action", "capability">>)
MCTriggers    == {"target_ambiguous", "target_not_found", "checkpoint_failed",
                  "recovery_exhausted", "unexpected_state"}
=============================================================================
