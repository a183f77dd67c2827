------------------------------- MODULE Screens -------------------------------
(***************************************************************************)
(* What a capability can say of a screen and how replay goes by it: the    *)
(* predicates (domain/predicates.py), the wait policies (replay/wait.py)   *)
(* and what a screen means (replay/classify.py).                           *)
(*                                                                         *)
(* A screen is a snapshot: its url, the transport status and its nodes.    *)
(* A name is compared as folded, and a pattern is the set of what it       *)
(* matches.  The blanks of a text are written _.                           *)
(***************************************************************************)
EXTENDS Naturals, Sequences, FiniteSets

NoText == "no_text"   \* the empty text

Node(role, name, value, beside) ==
  [role |-> role, name |-> name, value |-> value, beside |-> beside]

NoScreen == [url |-> "none", status |-> 0, nodes |-> {}]

(* NodeQuery.select; no names is a query that asks for none.               *)
Select(query, screen) ==
  {node \in screen.nodes : node.role = query.role
                           /\ (query.names = {} \/ node.name \in query.names)}

TextContent(screen) == {node.name : node \in screen.nodes} \ {NoText}

(* _resolve: {$input} and {$output} are both looked up among the inputs,   *)
(* and what is not there is equal to nothing.                              *)
Denotes(value, text, inputs) ==
  IF value.is = "literal" THEN text = value.text
  ELSE value.name \in DOMAIN inputs /\ text = inputs[value.name]

(* The predicates that look at the screen themselves.                      *)
Asserted(predicate, screen, inputs) ==
  LET found == Select(predicate.query, screen)
  IN  \/ predicate.assert = "node_exists" /\ Cardinality(found) >= predicate.min_count
      \/ predicate.assert = "node_absent" /\ found = {}
      \/ /\ predicate.assert = "node_has_value"
         /\ \E node \in found : Denotes(predicate.value, node.value, inputs)
      \/ predicate.assert = "text_present" /\ predicate.value \in TextContent(screen)
      \/ predicate.assert = "text_absent" /\ predicate.value \notin TextContent(screen)
      \/ predicate.assert = "url_matches" /\ screen.url \in predicate.pattern
      \/ predicate.assert = "http_status_in" /\ screen.status \in predicate.codes
      \/ predicate.assert = "nothing"

(* evaluate, for predicates at most two deep (NestingBound): the deepest a *)
(* capability has is any_of over not.                                      *)
Evaluate(predicate, screen, inputs) ==
  LET combined(p, holds(_)) ==
        \/ p.assert = "all_of" /\ \A q \in p.of : holds(q)
        \/ p.assert = "any_of" /\ \E q \in p.of : holds(q)
        \/ p.assert = "not" /\ ~holds(p.of)
        \/ p.assert \notin {"all_of", "any_of", "not"} /\ holds(p)
      looks(p) == Asserted(p, screen, inputs)
      inner(p) == combined(p, looks)
  IN  combined(predicate, inner)

-----------------------------------------------------------------------------
(* _same: two looks are the same whatever their status.                    *)
IsSame(left, right) == left.url = right.url /\ left.nodes = right.nodes

(* One turn of wait_for's loop.  before is the screen acted on, seen the   *)
(* one of the turn before.                                                 *)
IsAwaited(wait, screen, before, seen, inputs) ==
  \/ wait.for = "predicate" /\ Evaluate(wait.until, screen, inputs)
  \/ /\ wait.for = "navigation"
     /\ \/ screen.url # before.url
        \/ Cardinality(screen.nodes) # Cardinality(before.nodes)
  \/ wait.for = "snapshot_stable" /\ IsSame(seen, screen)

-----------------------------------------------------------------------------
(* The first of the outcomes or rules whose detector fires.                *)
Fires(declared, screen, inputs) ==
  {k \in DOMAIN declared : Evaluate(declared[k].detect, screen, inputs)}

First(indices) == CHOOSE k \in indices : \A l \in indices : k <= l

(* Slip: what is expected is asked before what is declared.                *)
ClassifyInTurn(screen, capability, inputs, expectation) ==
  IF Evaluate(expectation, screen, inputs) THEN "expected"
  ELSE IF Fires(capability.recovery, screen, inputs) # {} THEN "recoverable"
  ELSE IF expectation.assert # "nothing" THEN "unexpected_state"
  ELSE IF Fires(capability.outcomes, screen, inputs) # {} THEN "business_outcome"
  ELSE "expected"

(* classify: a declared answer before a transient condition, and both      *)
(* before what this point of the flow expects.                             *)
Classify(screen, capability, inputs, expectation) ==
  IF Fires(capability.outcomes, screen, inputs) # {} THEN "business_outcome"
  ELSE IF Fires(capability.recovery, screen, inputs) # {} THEN "recoverable"
  ELSE IF Evaluate(expectation, screen, inputs) THEN "expected"
  ELSE "unexpected_state"
=============================================================================
