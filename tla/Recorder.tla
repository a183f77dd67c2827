------------------------------ MODULE Recorder ------------------------------
(***************************************************************************)
(* The compilation of a discovery trace into a capability                  *)
(* (src/src/cua/recorder/compile.py): which typed texts become inputs,     *)
(* what each step becomes, and when the document is refused.               *)
(*                                                                         *)
(* A label stands for the name a control's label has after `snake`, so     *)
(* two labels spelled differently may be one.  Of a value read off the     *)
(* page only the output it was read into is kept.                          *)
(***************************************************************************)
EXTENDS Naturals, Sequences, FiniteSetsExt

CONSTANTS GoalValues,   \* the texts that are words of the goal
          Numerals,     \* the texts that are digits, with a sign or without
          Identifiers,  \* the texts of four to twelve digits
          Decimals,     \* the texts that are digits, a point and digits
          Numbers,      \* the texts a number may be written as
          NoLabel       \* a control described by its position alone

(* One entry of the trace (DiscoveryStep).  `about` is the label of the    *)
(* control acted on, or the output an extraction records.                  *)
DiscoveryStep(tool, about, text) ==
  [tool |-> tool, about |-> about, text |-> text, ok |-> TRUE]

NoText == "no text"

(* A call that was refused, failed, or named nothing that exists.          *)
Wasted == [tool |-> "none", about |-> NoLabel, text |-> NoText, ok |-> FALSE]

(* effective_steps, by their positions in the trace (DiscoveryStep.index). *)
Effective(trace) == {i \in DOMAIN trace : trace[i].ok /\ trace[i].tool # "finish"}

-----------------------------------------------------------------------------
(* _lift_inputs: a text that was typed and is a word of the goal becomes   *)
(* an input named after its field.  A field keeps the first such text.     *)
IsLifted(step) == step.tool = "type_text" /\ step.text \in GoalValues

InputName(step) == IF step.about = NoLabel THEN "input" ELSE step.about

LiftedAt(trace, name) ==
  {i \in Effective(trace) : IsLifted(trace[i]) /\ InputName(trace[i]) = name}

InputNames(trace) ==
  {InputName(trace[i]) : i \in {j \in Effective(trace) : IsLifted(trace[j])}}

Lifted(trace) ==
  [name \in InputNames(trace) |-> trace[Min(LiftedAt(trace, name))].text]

(* `reverse`: where two inputs were observed with one text, the one        *)
(* declared last stands for it.                                            *)
NamesFor(trace, text) == {name \in InputNames(trace) : Lifted(trace)[name] = text}

NameOf(trace, text) ==
  CHOOSE name \in NamesFor(trace, text) :
    \A other \in NamesFor(trace, text) :
      Min(LiftedAt(trace, other)) <= Min(LiftedAt(trace, name))

-----------------------------------------------------------------------------
(* _step_id: the tool and what it acted on; the position in the trace      *)
(* where nothing names that.                                               *)
StepId(trace, i) ==
  <<trace[i].tool, IF trace[i].about = NoLabel THEN i ELSE trace[i].about>>

Literal(text) == [input |-> FALSE, is |-> text]
Ref(name)     == [input |-> TRUE, is |-> name]

(* Slip: the reference is looked up by the field and not by the text.      *)
ValueByField(trace, step) ==
  IF InputName(step) \in InputNames(trace) /\ step.tool = "type_text"
  THEN Ref(InputName(step))
  ELSE Literal(step.text)

Value(trace, step) ==
  IF step.tool = "type_text" /\ NamesFor(trace, step.text) # {}
  THEN Ref(NameOf(trace, step.text))
  ELSE Literal(step.text)

(* _compile_steps: a navigation has no action to compile to and is left    *)
(* out with a warning; a typed text that was lifted becomes a reference.   *)
CompiledAt(trace) == {i \in Effective(trace) : trace[i].tool # "navigate"}

CompiledStep(trace, step) ==
  [tool |-> step.tool, about |-> step.about, value |-> Value(trace, step)]

CompiledSteps(trace) == [i \in CompiledAt(trace) |-> CompiledStep(trace, trace[i])]

(* Capability._internally_consistent, on what a compilation can get wrong: *)
(* the ids of the steps.  The names of the inputs differ by construction,  *)
(* and outputs are named like the steps that read them.                    *)
IsConsistent(trace) ==
  \A i, j \in CompiledAt(trace) : StepId(trace, i) = StepId(trace, j) => i = j

-----------------------------------------------------------------------------
(* input_pattern and infer_type: what an input takes is drawn from the one *)
(* text it was observed with.  Digits are taken for an identifier.  A date *)
(* or any other text says nothing about the next.                          *)
Accepts(example, text) ==
  /\ example \in Numerals => text \in Identifiers
  /\ example \in Decimals => text \in Numbers

(* validate_inputs: every input has an argument that it takes, and every   *)
(* argument an input.                                                      *)
Validates(trace, arguments) ==
  /\ DOMAIN arguments = InputNames(trace)
  /\ \A name \in InputNames(trace) : Accepts(Lifted(trace)[name], arguments[name])

(* What a replay of the compiled steps types, given its arguments          *)
(* (ReplayExecutor binds each reference), once they are validated.         *)
Bound(value, arguments) == IF value.input THEN arguments[value.is] ELSE value.is

Replayed(trace, arguments) ==
  [i \in DOMAIN CompiledSteps(trace) |->
     LET step == CompiledSteps(trace)[i]
     IN  <<step.tool, step.about, Bound(step.value, arguments)>>]

ReplayOf(trace, arguments) ==
  IF Validates(trace, arguments)
  THEN [refused |-> FALSE, does |-> Replayed(trace, arguments)]
  ELSE [refused |-> TRUE, does |-> <<>>]

(* What the run did, its navigations left out.                             *)
RunOf(trace) ==
  [i \in CompiledAt(trace) |-> <<trace[i].tool, trace[i].about, trace[i].text>>]
=============================================================================
