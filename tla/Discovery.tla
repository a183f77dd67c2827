----------------------------- MODULE Discovery ------------------------------
(***************************************************************************)
(* A discovery run (src/src/cua/agent/loop.py, agent/stop.py): a model is  *)
(* asked for one action at a time until it finishes, gives up or a budget  *)
(* stops it, and a run that met its goal is compiled into a capability     *)
(* (cli/main.py, discover).                                                *)
(*                                                                         *)
(* What the model asks for and what the surface and policy answer are      *)
(* free.  `spent` is what the trace's model calls add up to.               *)
(***************************************************************************)
EXTENDS Recorder

CONSTANTS Labels,         \* labels of the controls
          Texts,          \* what the model may type
          Outputs,        \* output names the model may record
          TurnTokens,     \* what one model call may cost
          MaxSteps, MaxTokens, MaxUnchanged, MaxDenials

ASSUME BudgetAssumption ==
  /\ TurnTokens \subseteq Nat
  /\ {MaxSteps, MaxTokens, MaxUnchanged, MaxDenials} \subseteq Nat \ {0}

VARIABLES phase,      \* "check", "call", "done", or what became of the compilation
          budget,     \* Budget
          late,       \* elapsed_s has reached max_duration_s
          trace,      \* DiscoveryRun.steps
          stop,       \* DiscoveryRun.stop_reason
          spent       \* ghost: tokens of the llm_call events

vars == <<phase, budget, late, trace, stop, spent>>

Phases == {"check", "call", "done", "compiled", "rejected"}

Controls == Labels \cup {NoLabel}

Init ==
  /\ phase = "check"
  /\ budget = [steps |-> 0, tokens |-> 0, unchanged |-> 0, denials |-> 0]
  /\ late = FALSE
  /\ trace = <<>>
  /\ stop = "max_steps"
  /\ spent = 0

-----------------------------------------------------------------------------
(* Budget.record_step: one model turn.                                     *)
Recorded(tokens, progressed, denied) ==
  [ steps     |-> budget.steps + 1,
    tokens    |-> budget.tokens + tokens,
    unchanged |-> IF progressed THEN 0 ELSE budget.unchanged + 1,
    denials   |-> IF denied THEN budget.denials + 1 ELSE 0 ]

(* Slip: the tokens are not looked at.                                     *)
IsExceededButTokens ==
  \/ budget.steps >= MaxSteps
  \/ late
  \/ budget.unchanged >= MaxUnchanged
  \/ budget.denials >= MaxDenials

(* Budget.exceeded: the first limit that has been hit.                     *)
IsExceeded ==
  \/ budget.steps >= MaxSteps
  \/ late
  \/ budget.tokens >= MaxTokens
  \/ budget.unchanged >= MaxUnchanged
  \/ budget.denials >= MaxDenials

Exceeded ==
  IF budget.steps >= MaxSteps THEN "max_steps"
  ELSE IF late THEN "timeout"
  ELSE IF budget.tokens >= MaxTokens THEN "token_budget"
  ELSE IF budget.unchanged >= MaxUnchanged THEN "dead_end"
  ELSE "policy_wall"

TimePasses ==
  /\ phase \in {"check", "call"} /\ ~late
  /\ late' = TRUE
  /\ UNCHANGED <<phase, budget, trace, stop, spent>>

Stops ==
  /\ phase = "check"
  /\ IsExceeded
  /\ phase' = "done"
  /\ stop' = Exceeded
  /\ UNCHANGED <<budget, late, trace, spent>>

(* The page is observed and shown to the model.                            *)
Asks ==
  /\ phase = "check"
  /\ ~IsExceeded
  /\ phase' = "call"
  /\ UNCHANGED <<budget, late, trace, stop, spent>>

-----------------------------------------------------------------------------
(* A turn that ran to the accounting at the bottom of the loop.            *)
Turn(tokens, steps, progressed, denied) ==
  /\ phase = "call"
  /\ phase' = "check"
  /\ budget' = Recorded(tokens, progressed, denied)
  /\ trace' = trace \o steps
  /\ spent' = spent + tokens
  /\ UNCHANGED <<late, stop>>

(* LlmError: no call event, nothing recorded.                              *)
ModelFails ==
  /\ phase = "call"
  /\ phase' = "done"
  /\ stop' = "error"
  /\ UNCHANGED <<budget, late, trace, spent>>

(* Slip: a turn without a tool call is not counted.                        *)
NudgedFree(tokens) ==
  /\ phase = "call"
  /\ phase' = "check"
  /\ UNCHANGED <<budget, late, trace, stop, spent>>

(* No tool call: the model is nudged.                                      *)
Nudged(tokens) == Turn(tokens, <<>>, FALSE, FALSE)

(* Slip: the loop is left before the accounting.                           *)
EndingUncounted(tokens) == budget

(* finish and give_up: accounted before the loop is left.                  *)
Ending(tokens) == Recorded(tokens, TRUE, FALSE)

Finishes(tokens) ==
  /\ phase = "call"
  /\ phase' = "done"
  /\ budget' = Ending(tokens)
  /\ trace' = Append(trace, DiscoveryStep("finish", NoLabel, NoText))
  /\ stop' = "goal_met"
  /\ spent' = spent + tokens
  /\ UNCHANGED late

GivesUp(tokens) ==
  /\ phase = "call"
  /\ phase' = "done"
  /\ budget' = Ending(tokens)
  /\ stop' = "gave_up"
  /\ spent' = spent + tokens
  /\ UNCHANGED <<late, trace>>

(* An unknown tool, a control that is not on the page, an action that      *)
(* fails: nothing is known to have moved.                                  *)
Misses(tokens) == Turn(tokens, <<Wasted>>, FALSE, FALSE)

(* Slip: the page is looked at again although the action was refused.      *)
ProgressIfRefused == TRUE

(* `after` is the snapshot the turn began with unless the step was ok.     *)
ProgressIfNotOk == FALSE

Refused(tokens) == Turn(tokens, <<Wasted>>, ProgressIfNotOk, TRUE)

(* Reading a value moves the run forward whatever the page does.           *)
Extracts(tokens, output) ==
  Turn(tokens, <<DiscoveryStep("extract", output, NoText)>>, TRUE, FALSE)

(* click stands for every action that carries no text of its own.  Only a  *)
(* new URL or another number of nodes counts as a changed page.            *)
Performs(tokens, tool, control, text) ==
  \E changed \in BOOLEAN :
    Turn(tokens, <<DiscoveryStep(tool, control, text)>>, changed, FALSE)

-----------------------------------------------------------------------------
(* cli discover: a run that did not meet its goal is not compiled.  The    *)
(* document raises where it is not consistent, and no file is written.     *)
Compiles ==
  /\ phase = "done"
  /\ stop = "goal_met"
  /\ phase' = IF IsConsistent(trace) THEN "compiled" ELSE "rejected"
  /\ UNCHANGED <<budget, late, trace, stop, spent>>

Answers(tokens) ==
  \/ Nudged(tokens)
  \/ Finishes(tokens)
  \/ GivesUp(tokens)
  \/ Misses(tokens)
  \/ Refused(tokens)
  \/ \E output \in Outputs : Extracts(tokens, output)
  \/ \E control \in Controls : Performs(tokens, "click", control, NoText)
  \/ \E control \in Controls, text \in Texts : Performs(tokens, "type_text", control, text)
  \/ Performs(tokens, "navigate", NoLabel, NoText)

Loop == Stops \/ Asks \/ ModelFails \/ \E tokens \in TurnTokens : Answers(tokens)

Next == Loop \/ TimePasses \/ Compiles

Spec == Init /\ [][Next]_vars

(* The loop is one thread that goes on until it breaks.                    *)
FairSpec == Spec /\ WF_vars(Loop)

-----------------------------------------------------------------------------
(* The budget counts every model call the trace shows, those that end the  *)
(* run included (the comment at loop.py:137).                              *)
BudgetMatchesTrace == budget.tokens = spent

(* A limit is overshot by no more than the turn that met it (stop.py:      *)
(* "Budgets are hard rather than advisory").                               *)
BudgetIsHard ==
  \A cost \in {c \in TurnTokens : \A d \in TurnTokens : d <= c} :
    budget.tokens < MaxTokens + cost

(* A refused turn is a stalled turn, so a run of refusals is never longer  *)
(* than the run of stalled turns it is part of.                            *)
DenialsAreStalls == budget.denials <= budget.unchanged

(* Every discovery run ends, whatever the model asks for.                  *)
EveryDiscoveryEnds == <>(phase \notin {"check", "call"})

(* What a replay may type where the run typed something: an argument of an *)
(* input that was observed with that text, or that text where there is no  *)
(* such input.                                                             *)
MayType(step, arguments) ==
  LET names == {name \in InputNames(trace) : Lifted(trace)[name] = step.text}
  IN  IF step.tool = "type_text" /\ names # {} THEN {arguments[name] : name \in names}
      ELSE {step.text}

(* Whatever it is called with, a compiled capability refuses the call or   *)
(* does what the run did, apart from its navigations, with the arguments   *)
(* in place of the texts they stand for; called with the texts it was      *)
(* discovered with, it does what the run did, or one of those is a number  *)
(* of the kind it refuses (compile_capability, validate_inputs).           *)
ReplayReproducesRun ==
  phase = "compiled" =>
    /\ \A arguments \in UNION {[names -> Texts] : names \in SUBSET (Labels \cup {"input"})} :
         LET replay == ReplayOf(trace, arguments)
         IN  replay.refused
             \/ /\ DOMAIN replay.does = CompiledAt(trace)
                /\ \A i \in CompiledAt(trace) :
                     \E text \in MayType(trace[i], arguments) :
                       replay.does[i] = <<trace[i].tool, trace[i].about, text>>
    /\ LET replay == ReplayOf(trace, Lifted(trace))
       IN  IF replay.refused
           THEN \E i \in CompiledAt(trace) :
                  trace[i].text \in (Numerals \ Identifiers) \cup (Decimals \ Numbers)
           ELSE replay.does = RunOf(trace)
=============================================================================
