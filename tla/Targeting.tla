----------------------------- MODULE Targeting -----------------------------
(***************************************************************************)
(* How a control is described when it is recorded, and found again when    *)
(* the capability is replayed (src/src/cua/targeting): a ladder of five    *)
(* rungs, from the control's name down to its position.                    *)
(*                                                                         *)
(* A page is the sequence of its nodes in document order, every frame a    *)
(* document of its own.  Of a document's tree only the rows of one table   *)
(* matter: a node is a direct child of a row, or of the document when its  *)
(* row is NoRow.  Names have been through normalize_name, as those of      *)
(* every snapshot have, so EXACT is equality; the modes CONTAINS and       *)
(* REGEX, which only a person writes, are left out.                        *)
(***************************************************************************)
EXTENDS FiniteSets, Naturals

CONSTANTS Roles, Names, Rows, Frames, Regions, Hints,
          NoName, NoRow, NoFrame, NoRegion, NoHint,  \* None, in each place
          ReadableRoles,                     \* READABLE_ROLES
          Values,          \* the names that look like data (looks_like_value)
          Folds, Blank,    \* what a name may fold to; nothing left of it
          FoldOf           \* fold: case, spacing and punctuation removed

ASSUME TargetingAssumption ==
  /\ NoName \notin Names /\ NoRow \notin Rows /\ NoRegion \notin Regions
  /\ NoFrame \notin Frames /\ NoHint \notin Hints
  /\ Values \subseteq Names
  /\ Blank \in Folds
  /\ FoldOf \in [Names -> Folds]

Scopes == [frame : Frames \cup {NoFrame}, region : Regions \cup {NoRegion}]

Node == [role : Roles, name : Names \cup {NoName}, row : Rows \cup {NoRow},
         scope : Scopes, hint : Hints \cup {NoHint}]

Fold(name) == IF name = NoName THEN Blank ELSE FoldOf[name]

-----------------------------------------------------------------------------
(* Descriptors.                                                            *)

Relations == {"row_of", "adjacent_to", "within_section"}

NoAnchor  == [relation |-> "none", text |-> NoName]
Anchors   == [relation : Relations, text : Names] \cup {NoAnchor}
NoOrdinal == [given |-> FALSE, index |-> 0]
Ordinals  == [given : BOOLEAN, index : Nat]

At(index) == [given |-> TRUE, index |-> index]

(* LADDER without vision, which no resolver of a replay attempts.          *)
Exact      == 1
Structural == 3
Positional == 5
Ladder     == 1 .. 5

Descriptor == [role : Roles, name : Names \cup {NoName}, scope : Scopes,
               anchor : Anchors, ordinal : Ordinals,
               hint : Hints \cup {NoHint}, recorded : Ladder]

-----------------------------------------------------------------------------
(* Candidates, as the set of their positions in document order.            *)

(* The one with n of the others before it: found[n], pool[n].              *)
Nth(positions, n) ==
  CHOOSE i \in positions : Cardinality({j \in positions : j < i}) = n

First(positions) == CHOOSE i \in positions : \A j \in positions : i <= j

InScope(node, scope) ==
  /\ scope.frame # NoFrame => node.scope.frame = scope.frame
  /\ scope.region # NoRegion => node.scope.region = scope.region

OrdinalPool(page, role, scope) ==
  {i \in DOMAIN page : page[i].role = role /\ InScope(page[i], scope)}

Pool(target, page) == OrdinalPool(page, target.role, target.scope)

SemanticExact(target, page) ==
  {i \in Pool(target, page) : target.name # NoName /\ page[i].name = target.name}

SemanticNormalized(target, page) ==
  {i \in Pool(target, page) :
     Fold(target.name) # Blank /\ Fold(page[i].name) = Fold(target.name)}

RowMates(page, i) == {j \in DOMAIN page : page[i].row # NoRow /\ page[j].row = page[i].row}

SameFrame(page, i) == {j \in DOMAIN page : page[j].scope.frame = page[i].scope.frame}
Siblings(page, i)  == {j \in SameFrame(page, i) : page[j].row = page[i].row}

(* The table the node is in; outside it, its whole document.               *)
Section(page, i) ==
  {j \in SameFrame(page, i) : page[i].row # NoRow => page[j].row # NoRow}

(* Only the first one after the anchor is next to it.                      *)
Following(page, i, wanted) ==
  LET after == {j \in RowMates(page, i) \cap wanted : j > i}
  IN  IF after = {} THEN {} ELSE {First(after)}

Reached(relation, page, i, wanted) ==
  CASE relation = "row_of"         -> (RowMates(page, i) \ {i}) \cap wanted
    [] relation = "adjacent_to"    -> Following(page, i, wanted)
    [] relation = "within_section" -> (Section(page, i) \ {i}) \cap wanted

(* Every node whose text folds as the anchor's does anchors the search; a  *)
(* text that folds to nothing is matched by nodes without a name.          *)
StructuralAnchor(target, page) ==
  IF target.anchor = NoAnchor THEN {}
  ELSE UNION {Reached(target.anchor.relation, page, i, Pool(target, page)) :
                i \in {j \in DOMAIN page : Fold(page[j].name) = Fold(target.anchor.text)}}

(* A stored hint is a fast path: what it finds must bear the name as well. *)
HintCached(target, page) ==
  {i \in Pool(target, page) :
     /\ target.hint # NoHint
     /\ page[i].hint = target.hint
     /\ target.name # NoName => Fold(page[i].name) = Fold(target.name)}

OrdinalInRegion(target, page) ==
  LET pool == Pool(target, page)
  IN  IF target.ordinal.given /\ target.ordinal.index < Cardinality(pool)
        THEN {Nth(pool, target.ordinal.index)} ELSE {}

(* GENERATORS, in the order of the ladder.                                 *)
Candidates(rung, target, page) ==
  << SemanticExact(target, page),
     SemanticNormalized(target, page),
     StructuralAnchor(target, page),
     HintCached(target, page),
     OrdinalInRegion(target, page) >>[rung]

-----------------------------------------------------------------------------
(* Resolution: of the first rung with any candidate, the only one, or the  *)
(* one the ordinal names.  Anything else is refused.                       *)

Refused == [node |-> 0, rung |-> 0, drifted |-> FALSE]

(* Slip: the comparison the wrong way round.                               *)
IsDriftUp(recorded, used) == used < recorded

IsDrift(recorded, used) == used > recorded

Resolved(target, node, rung) ==
  [node |-> node, rung |-> rung, drifted |-> IsDrift(target.recorded, rung)]

(* Slip: the best guess.                                                   *)
ChoiceOfFirst(target, page, rung) ==
  Resolved(target, First(Candidates(rung, target, page)), rung)

Choice(target, page, rung) ==
  LET found == Candidates(rung, target, page)
  IN  IF Cardinality(found) = 1
        THEN Resolved(target, Nth(found, 0), rung)
      ELSE IF target.ordinal.given /\ target.ordinal.index < Cardinality(found)
        THEN Resolved(target, Nth(found, target.ordinal.index), rung)
      ELSE Refused

Resolve(target, page) ==
  LET answering == {rung \in Ladder : Candidates(rung, target, page) # {}}
  IN  IF answering = {} THEN Refused ELSE Choice(target, page, First(answering))

-----------------------------------------------------------------------------
(* Synthesis: the description recorded for the node a model pointed at.    *)

Nearest(positions) == CHOOSE i \in positions : \A j \in positions : j <= i

(* Acting on a control: the row is named by its first named cell.          *)
RowAnchor(page, n) ==
  LET named == {i \in RowMates(page, n) \ {n} : page[i].role = "cell" /\ page[i].name # NoName}
  IN  IF named = {} THEN NoAnchor
      ELSE [relation |-> "row_of", text |-> page[First(named)].name]

(* Reading a value: the nearest label before it, skipping data.            *)
PrecedingAnchor(page, n) ==
  LET labels == {i \in Siblings(page, n) :
                   i < n /\ page[i].name # NoName /\ page[i].name \notin Values}
  IN  IF labels = {} THEN NoAnchor
      ELSE [relation |-> "adjacent_to", text |-> page[Nearest(labels)].name]

AnchorFor(page, n) ==
  IF page[n].role \in ReadableRoles THEN PrecedingAnchor(page, n) ELSE RowAnchor(page, n)

Described(page, n, name, anchor, ordinal, rung) ==
  [role |-> page[n].role, name |-> name, scope |-> page[n].scope, anchor |-> anchor,
   ordinal |-> ordinal, hint |-> page[n].hint, recorded |-> rung]

(* Slip: unique among the nodes around it.                                 *)
NameIsUniqueHere(page, n) ==
  /\ page[n].name # NoName
  /\ {i \in Siblings(page, n) : page[i].name = page[n].name} = {n}

NameIsUnique(page, n) ==
  /\ page[n].name # NoName
  /\ {i \in OrdinalPool(page, page[n].role, page[n].scope) : page[i].name = page[n].name} = {n}

SynthesizeDescriptor(page, n) ==
  LET anchor == AnchorFor(page, n)
      before == {i \in OrdinalPool(page, page[n].role, page[n].scope) : i < n}
  IN  IF NameIsUnique(page, n)
        THEN Described(page, n, page[n].name, anchor, NoOrdinal, Exact)
      ELSE IF anchor # NoAnchor
        THEN Described(page, n, NoName, anchor, NoOrdinal, Structural)
      ELSE Described(page, n, page[n].name, NoAnchor, At(Cardinality(before)), Positional)
=============================================================================
