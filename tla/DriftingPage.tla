---------------------------- MODULE DriftingPage ----------------------------
(***************************************************************************)
(* One recorded target on a page that changes (discovery's _perform in     *)
(* src/src/cua/agent/loop.py, the dispatcher's resolution in               *)
(* runtime/dispatcher.py, both over src/src/cua/targeting): a model points *)
(* at a node, its description is recorded and resolved at once, and is     *)
(* resolved again at every replay, on whatever the page has become.        *)
(***************************************************************************)
EXTENDS Targeting, SequencesExt

CONSTANTS Shapes,      \* the nodes a page may be made of
          MaxNodes,    \* bound: nodes of a page
          MaxChanges,  \* bound: changes of the page
          NoTarget, NoResolution

ASSUME DriftAssumption ==
  /\ Shapes \subseteq Node
  /\ MaxNodes \in Nat /\ MaxChanges \in Nat
  /\ NoTarget \notin Descriptor
  /\ NoResolution \notin [node : Nat, rung : Nat, drifted : BOOLEAN]

VARIABLES page,
          target,      \* the descriptor in the capability
          chosen,      \* where the node it was made for was, 0 before
          resolution,  \* of the target on this page; none once it changed
          changes

vars == <<page, target, chosen, resolution, changes>>

(* In document order the nodes of a frame are together, those of a row too.*)
IsDocument(nodes) ==
  \A i, j, k \in DOMAIN nodes : i < j /\ j < k =>
    /\ nodes[i].scope.frame = nodes[k].scope.frame => nodes[j].scope.frame = nodes[i].scope.frame
    /\ nodes[i].row # NoRow /\ nodes[i].row = nodes[k].row => nodes[j].row = nodes[i].row

Pages == {nodes \in UNION {[1 .. length -> Shapes] : length \in 1 .. MaxNodes} :
            IsDocument(nodes)}

Init ==
  /\ page \in Pages
  /\ target = NoTarget
  /\ chosen = 0
  /\ resolution = NoResolution
  /\ changes = 0

(* Discovery describes the node, and resolves the description to verify it *)
(* and, whatever that showed, to act.                                      *)
Record(n) ==
  /\ target = NoTarget
  /\ target' = SynthesizeDescriptor(page, n)
  /\ chosen' = n
  /\ resolution' = Resolve(SynthesizeDescriptor(page, n), page)
  /\ UNCHANGED <<page, changes>>

(* The application: a node changes, goes, comes, or trades places.         *)
Changed(nodes) ==
  {[nodes EXCEPT ![i] = shape] : i \in DOMAIN nodes, shape \in Shapes}
    \cup {RemoveAt(nodes, i) : i \in DOMAIN nodes}
    \cup {InsertAt(nodes, i, shape) : i \in DOMAIN nodes, shape \in Shapes}
    \cup {[nodes EXCEPT ![i] = nodes[j], ![j] = nodes[i]] : i, j \in DOMAIN nodes}

PageChanges ==
  /\ target # NoTarget
  /\ changes < MaxChanges
  /\ page' \in Changed(page) \cap Pages
  /\ changes' = changes + 1
  /\ resolution' = NoResolution
  /\ UNCHANGED <<target, chosen>>

Replay ==
  /\ target # NoTarget
  /\ resolution = NoResolution
  /\ resolution' = Resolve(target, page)
  /\ UNCHANGED <<page, target, chosen, changes>>

Next ==
  \/ \E n \in DOMAIN page : Record(n)
  \/ PageChanges
  \/ Replay

Spec == Init /\ [][Next]_vars

-----------------------------------------------------------------------------
Acting == resolution # NoResolution /\ resolution.node # 0

(* The shape of the state: what acts is a node of the page, of the role    *)
(* and in the scope the target names.                                      *)
TypeOK ==
  /\ page \in Seq(Node)
  /\ target \in Descriptor \cup {NoTarget}
  /\ chosen \in Nat
  /\ changes \in Nat
  /\ resolution \in {Refused, NoResolution} \cup
       [node : DOMAIN page, rung : Ladder, drifted : BOOLEAN]

(* A description that goes by a name finds, on the page it was recorded    *)
(* on, the node it was made for, and one that goes by the label of a row   *)
(* finds that node or refuses (synthesize_descriptor counts its            *)
(* uniqueness over the pool, and by the comparison, the resolver uses).    *)
DescribesItsControl ==
  resolution # NoResolution /\ changes = 0 =>
    /\ target.recorded = Exact => resolution.node = chosen
    /\ target.anchor.relation = "row_of" => resolution.node \in {0, chosen}

(* Among equals nothing is picked: unless the target carries an ordinal or *)
(* asks for what comes next to a label, reading the page backwards finds   *)
(* the same node, by the same rung (resolve: "no code path from several    *)
(* things matched to acted on one of them").                               *)
NeverByPosition ==
  resolution # NoResolution /\ ~target.ordinal.given /\ target.anchor.relation # "adjacent_to" =>
    LET mirrored == Resolve(target, Reverse(page))
    IN  /\ mirrored.rung = resolution.rung
        /\ mirrored.node # 0 => mirrored.node = Len(page) + 1 - resolution.node

(* A target recorded by name that now acts on a node whose name does not   *)
(* fold to the recorded one is reported as drifted (is_drift).             *)
OtherNameIsDrift ==
  Acting /\ target.recorded = Exact /\ Fold(page[resolution.node].name) # Fold(target.name)
    => resolution.drifted

(* "Counted over the resolver's own pool, so a recorded ordinal means on   *)
(* replay exactly what it meant at discovery" (synthesize.py:133-134).     *)
OrdinalMeansTheSame ==
  Acting /\ changes = 0 /\ target.recorded = Positional => resolution.node = chosen
=============================================================================
