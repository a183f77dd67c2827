-------------------------- MODULE TargetingProofs --------------------------
(***************************************************************************)
(* Proofs about resolution and synthesis, for every page.                  *)
(***************************************************************************)
EXTENDS DriftingPage, FiniteSetTheorems, WellFoundedInduction, TLAPS

(* Positions are numbers, and some numbers have a first.                   *)
LEMMA FirstOfSome ==
  ASSUME NEW S \in SUBSET Nat, S # {}
  PROVE  /\ First(S) \in S
         /\ \A j \in S : First(S) <= j
<1> DEFINE R == OpToRel(<, Nat)
<1>1. \A x, y \in Nat : <<y, x>> \in R <=> y < x
  BY DEF OpToRel
<1>2. IsWellFoundedOn(R, Nat)
  BY NatLessThanWellFounded
<1> HIDE DEF R
<1>3. PICK x \in S : \A y \in S : ~ (<<y, x>> \in R)
  BY <1>2, WFMin
<1>4. \A y \in S : x <= y
  <2> TAKE y \in S
  <2>1. x \in Nat /\ y \in Nat OBVIOUS
  <2>2. ~ (y < x) BY <2>1, <1>1, <1>3
  <2> QED BY <2>1, <2>2
<1> QED BY <1>4 DEF First

(* Some positions up to a bound have a last.                               *)
LEMMA LastOfSome ==
  ASSUME NEW n \in Nat, NEW S \in SUBSET (0 .. n), S # {}
  PROVE  Nearest(S) \in S
<1> DEFINE T == {k \in 0 .. n : n - k \in S}
<1>1. T \in SUBSET Nat /\ T # {}
  <2>1. PICK i \in S : TRUE OBVIOUS
  <2>2. n - i \in T
    <3>1. i \in 0 .. n BY <2>1
    <3>2. n - i \in 0 .. n /\ n - (n - i) = i BY <3>1
    <3> QED BY <2>1, <3>2
  <2>3. \A k \in T : k \in Nat OBVIOUS
  <2> QED BY <2>2, <2>3
<1>2. First(T) \in T /\ \A k \in T : First(T) <= k
  <2> HIDE DEF T
  <2> QED BY <1>1, FirstOfSome
<1>3. n - First(T) \in S
  BY <1>2
<1>4. \A j \in S : j <= n - First(T)
  <2> TAKE j \in S
  <2>1. j \in 0 .. n /\ n - (n - j) = j OBVIOUS
  <2>2. n - j \in T BY <2>1
  <2>3. First(T) <= n - j /\ First(T) \in 0 .. n BY <1>2, <2>2
  <2> QED BY <2>1, <2>3
<1> QED BY <1>3, <1>4 DEF Nearest

(* As long as there are more than n, one has n before it: an ordinal below *)
(* the length of a list names one of its elements.                         *)
LEMMA NthExists ==
  ASSUME NEW S \in SUBSET Nat, IsFiniteSet(S), NEW m \in Nat, m < Cardinality(S)
  PROVE  Nth(S, m) \in S
<1> DEFINE Before(i) == {j \in S : j < i}
           Bad == {n \in Nat : n < Cardinality(S) /\ \A i \in S : Cardinality(Before(i)) # n}
<1>0. Cardinality(S) \in Nat
  BY FS_CardinalityType
<1>1. Bad = {}
  <2> SUFFICES ASSUME Bad # {} PROVE FALSE
    OBVIOUS
  <2> DEFINE n == First(Bad)
  <2>1. n \in Bad /\ \A k \in Bad : n <= k
    <3> HIDE DEF Bad
    <3>1. Bad \in SUBSET Nat BY DEF Bad
    <3> QED BY <3>1, FirstOfSome
  <2>2. n \in Nat /\ n < Cardinality(S) /\ \A i \in S : Cardinality(Before(i)) # n
    BY <2>1
  <2> HIDE DEF n
  <2>3. CASE n = 0
    <3>1. S # {} BY <2>2, <2>3, FS_EmptySet
    <3>2. First(S) \in S /\ Before(First(S)) = {}
      <4>1. First(S) \in S /\ \A j \in S : First(S) <= j
        BY <3>1, FirstOfSome
      <4>2. \A j \in S : ~ (j < First(S))
        <5> TAKE j \in S
        <5>1. j \in Nat /\ First(S) \in Nat BY <4>1
        <5> QED BY <4>1, <5>1
      <4> QED BY <4>1, <4>2
    <3>3. Cardinality(Before(First(S))) = 0 BY <3>2, FS_EmptySet
    <3> QED BY <2>2, <2>3, <3>2, <3>3
  <2>4. CASE n # 0
    <3>1. n - 1 \in Nat /\ n - 1 < Cardinality(S) BY <2>2, <2>4, <1>0
    <3>2. n - 1 \notin Bad BY <2>1, <2>2, <2>4
    <3>3. PICK i \in S : Cardinality(Before(i)) = n - 1 BY <3>1, <3>2
    <3> DEFINE after == {j \in S : i < j}
    <3>4. IsFiniteSet(Before(i)) /\ IsFiniteSet(Before(i) \cup {i})
      <4>1. IsFiniteSet(Before(i)) BY FS_Subset
      <4> QED BY <4>1, FS_AddElement
    <3>5. Cardinality(Before(i) \cup {i}) = n
      <4>1. i \notin Before(i) /\ i \in Nat OBVIOUS
      <4>2. Cardinality(Before(i) \cup {i}) = Cardinality(Before(i)) + 1
        BY <3>4, <4>1, FS_AddElement
      <4> QED BY <3>3, <4>2, <2>2
    <3>6. after # {}
      <4> SUFFICES ASSUME after = {} PROVE FALSE
        OBVIOUS
      <4>1. S = Before(i) \cup {i}
        <5>1. \A j \in S : j \in Nat /\ i \in Nat OBVIOUS
        <5>2. \A j \in S : j < i \/ j = i BY <5>1
        <5> QED BY <5>2
      <4> QED BY <4>1, <3>5, <2>2
    <3>7. First(after) \in after /\ \A j \in after : First(after) <= j
      <4>1. after \in SUBSET Nat OBVIOUS
      <4> HIDE DEF after
      <4> QED BY <3>6, <4>1, FirstOfSome
    <3> DEFINE k == First(after)
    <3>8. k \in S /\ k \in Nat /\ i \in Nat /\ i < k BY <3>7
    <3>9. Before(k) = Before(i) \cup {i}
      <4>1. \A j \in S : j < k <=> j < i \/ j = i
        <5> TAKE j \in S
        <5>1. j \in Nat OBVIOUS
        <5>2. i < j => k <= j BY <3>7
        <5> QED BY <5>1, <5>2, <3>8
      <4> QED BY <4>1
    <3> QED BY <3>5, <3>8, <3>9, <2>2
  <2> QED BY <2>3, <2>4
<1>2. \E i \in S : Cardinality(Before(i)) = m
  BY <1>1
<1> QED BY <1>2 DEF Nth

(* A list of one holds nothing but its first element.                      *)
LEMMA TheOnlyOne ==
  ASSUME NEW S \in SUBSET Nat, Cardinality(S) = 1, IsFiniteSet(S)
  PROVE  S = {Nth(S, 0)}
<1>1. PICK x : S = {x} BY FS_Singleton
<1>2. {j \in S : j < x} = {} BY <1>1
<1>3. Cardinality({j \in S : j < x}) = 0 BY <1>2, FS_EmptySet
<1>4. Nth(S, 0) \in S BY <1>1, <1>3 DEF Nth
<1> QED BY <1>1, <1>4

(* What the first two rungs find, on any page.                             *)
LEMMA NamedCandidates ==
  ASSUME NEW p \in Seq(Node), NEW t
  PROVE  /\ Pool(t, p) \subseteq DOMAIN p
         /\ IsFiniteSet(Pool(t, p))
         /\ Candidates(Exact, t, p) \subseteq Pool(t, p)
         /\ Candidates(2, t, p) \subseteq Pool(t, p)
         /\ \A i \in Candidates(Exact, t, p) \cup Candidates(2, t, p) :
               Fold(p[i].name) = Fold(t.name)
<1>1. Pool(t, p) \subseteq DOMAIN p
  BY DEF Pool, OrdinalPool
<1>2. IsFiniteSet(DOMAIN p)
  <2>1. DOMAIN p = 1 .. Len(p) /\ Len(p) \in Nat OBVIOUS
  <2> QED BY <2>1, FS_Interval
<1>3. Candidates(Exact, t, p) = SemanticExact(t, p)
  BY DEF Candidates, Exact
<1>4. Candidates(2, t, p) = SemanticNormalized(t, p)
  BY DEF Candidates
<1>5. IsFiniteSet(Pool(t, p))
  BY <1>1, <1>2, FS_Subset
<1> QED BY <1>1, <1>3, <1>4, <1>5 DEF SemanticExact, SemanticNormalized

(* What Resolve returns comes from the first rung with a candidate.        *)
LEMMA ResolvesByFirstRung ==
  ASSUME NEW p, NEW t, Resolve(t, p).node # 0
  PROVE  \E rung \in Ladder :
           /\ Candidates(rung, t, p) # {}
           /\ \A r \in Ladder : Candidates(r, t, p) # {} => rung <= r
           /\ Resolve(t, p) = Choice(t, p, rung)
<1> DEFINE answering == {r \in Ladder : Candidates(r, t, p) # {}}
<1>1. answering # {} /\ Resolve(t, p) = Choice(t, p, First(answering))
  BY DEF Resolve, Refused
<1>2. First(answering) \in answering /\ \A r \in answering : First(answering) <= r
  <2>1. answering \in SUBSET Nat BY DEF Ladder
  <2> HIDE DEF answering
  <2> QED BY <1>1, <2>1, FirstOfSome
<1> QED BY <1>1, <1>2

(* What a rung of one candidate, or of several without an ordinal, gives.  *)
LEMMA ChoosesTheOnlyOne ==
  ASSUME NEW p \in Seq(Node), NEW t, NEW rung \in Ladder,
         ~t.ordinal.given, Choice(t, p, rung).node # 0
  PROVE  /\ Cardinality(Candidates(rung, t, p)) = 1
         /\ Choice(t, p, rung) = Resolved(t, Nth(Candidates(rung, t, p), 0), rung)
BY DEF Choice, Refused

(* A target of no ordinal that acts on a node whose name does not fold to  *)
(* the recorded one got there below the two rungs that go by name.         *)
LEMMA OtherNameIsBelow ==
  ASSUME NEW p \in Seq(Node), NEW t, ~t.ordinal.given,
         Resolve(t, p).node # 0,
         Fold(p[Resolve(t, p).node].name) # Fold(t.name)
  PROVE  \E rung \in Ladder : rung > 2 /\ Resolve(t, p) = Resolved(t, Resolve(t, p).node, rung)
<1>1. PICK rung \in Ladder : Resolve(t, p) = Choice(t, p, rung)
  BY ResolvesByFirstRung
<1>2. /\ Cardinality(Candidates(rung, t, p)) = 1
      /\ Resolve(t, p) = Resolved(t, Nth(Candidates(rung, t, p), 0), rung)
  BY <1>1, ChoosesTheOnlyOne
<1>3. Resolve(t, p).node = Nth(Candidates(rung, t, p), 0)
  BY <1>2 DEF Resolved
<1>4. rung \notin {1, 2}
  <2> SUFFICES ASSUME rung \in {1, 2} PROVE FALSE
    OBVIOUS
  <2>1. Candidates(rung, t, p) \subseteq Pool(t, p)
    BY NamedCandidates DEF Exact
  <2>2. IsFiniteSet(Candidates(rung, t, p))
    BY <2>1, NamedCandidates, FS_Subset
  <2>3. Candidates(rung, t, p) \in SUBSET Nat
    <3>1. DOMAIN p = 1 .. Len(p) OBVIOUS
    <3> QED BY <2>1, <3>1, NamedCandidates
  <2>4. Candidates(rung, t, p) = {Nth(Candidates(rung, t, p), 0)}
    BY <1>2, <2>2, <2>3, TheOnlyOne
  <2>5. \A i \in Candidates(rung, t, p) : Fold(p[i].name) = Fold(t.name)
    BY NamedCandidates DEF Exact
  <2> QED BY <1>3, <2>4, <2>5
<1> QED BY <1>2, <1>3, <1>4 DEF Ladder

(* A name recorded as unique is found again by it.                         *)
LEMMA UniqueNameIsFound ==
  ASSUME NEW p \in Seq(Node), NEW n \in DOMAIN p, NameIsUnique(p, n)
  PROVE  Resolve(SynthesizeDescriptor(p, n), p).node = n
<1> DEFINE t == SynthesizeDescriptor(p, n)
<1>1. t = Described(p, n, p[n].name, AnchorFor(p, n), NoOrdinal, Exact)
  BY DEF SynthesizeDescriptor
<1>2. /\ t.name = p[n].name /\ t.role = p[n].role /\ t.scope = p[n].scope
      /\ t.name # NoName
  BY <1>1 DEF Described, NameIsUnique
<1>3. Pool(t, p) = OrdinalPool(p, p[n].role, p[n].scope)
  BY <1>2 DEF Pool
<1> HIDE DEF t
<1>4. Candidates(1, t, p) = SemanticExact(t, p)
  BY DEF Candidates
<1>5. SemanticExact(t, p) = {n}
  BY <1>2, <1>3 DEF SemanticExact, NameIsUnique
<1>6. Candidates(1, t, p) = {n} /\ n \in Nat
  <2>1. DOMAIN p \subseteq Nat
    <3>1. DOMAIN p = 1 .. Len(p) OBVIOUS
    <3> QED BY <3>1
  <2> QED BY <1>4, <1>5, <2>1
<1>7. Resolve(t, p) = Choice(t, p, 1)
  <2> DEFINE answering == {r \in Ladder : Candidates(r, t, p) # {}}
  <2>1. 1 \in answering /\ answering \in SUBSET Ladder
    <3>1. 1 \in Ladder BY DEF Ladder
    <3>2. Candidates(1, t, p) # {} BY <1>6
    <3> QED BY <3>1, <3>2
  <2> HIDE DEF answering
  <2>2. First(answering) = 1
    <3>0. answering \in SUBSET Nat BY <2>1 DEF Ladder
    <3>1. First(answering) \in answering /\ First(answering) <= 1
      BY <2>1, <3>0, FirstOfSome
    <3>2. First(answering) \in 1 .. 5 BY <2>1, <3>1 DEF Ladder
    <3> QED BY <3>1, <3>2
  <2>3. Resolve(t, p) = Choice(t, p, First(answering))
    <3> USE DEF answering
    <3>1. answering # {} BY <2>1
    <3> QED BY <3>1 DEF Resolve
  <2> QED BY <2>2, <2>3
<1>8. Cardinality({n}) = 1 /\ Nth({n}, 0) = n
  <2>1. Cardinality({n}) = 1 /\ IsFiniteSet({n})
    BY FS_Singleton
  <2>2. {n} \in SUBSET Nat
    BY <1>6
  <2>3. {n} = {Nth({n}, 0)}
    BY <2>1, <2>2, TheOnlyOne
  <2> QED BY <2>1, <2>3
<1>9. Choice(t, p, 1) = Resolved(t, n, 1)
  BY <1>6, <1>8 DEF Choice
<1> QED BY <1>7, <1>9 DEF Resolved, t

-----------------------------------------------------------------------------
(* Every rung keeps to the role and the scope of the target.               *)
LEMMA CandidatesInPool ==
  ASSUME NEW p \in Seq(Node), NEW t \in Descriptor, NEW rung \in Ladder
  PROVE  Candidates(rung, t, p) \subseteq Pool(t, p)
<1> DEFINE pool == Pool(t, p)
<1>1. pool \subseteq DOMAIN p /\ IsFiniteSet(pool) /\ pool \in SUBSET Nat
  <2>1. DOMAIN p = 1 .. Len(p) OBVIOUS
  <2> QED BY <2>1, NamedCandidates
<1>2. SemanticExact(t, p) \subseteq pool /\ SemanticNormalized(t, p) \subseteq pool
  BY DEF SemanticExact, SemanticNormalized
<1>3. HintCached(t, p) \subseteq pool
  BY DEF HintCached
<1>4. StructuralAnchor(t, p) \subseteq pool
  <2> SUFFICES ASSUME t.anchor # NoAnchor, NEW i \in DOMAIN p
               PROVE  Reached(t.anchor.relation, p, i, pool) \subseteq pool
    BY DEF StructuralAnchor
  <2> HIDE DEF pool
  <2>1. t.anchor.relation \in Relations
    BY DEF Descriptor, Anchors
  <2>2. Following(p, i, pool) \subseteq pool
    <3> DEFINE after == {j \in RowMates(p, i) \cap pool : j > i}
    <3>1. after \in SUBSET Nat /\ after \subseteq pool BY <1>1
    <3> HIDE DEF after
    <3>2. after # {} => First(after) \in pool BY <3>1, FirstOfSome
    <3>3. Following(p, i, pool) = IF after = {} THEN {} ELSE {First(after)}
      BY DEF Following, after
    <3> QED BY <3>2, <3>3
  <2>3. CASE t.anchor.relation = "row_of"
    <3>1. Reached("row_of", p, i, pool) = (RowMates(p, i) \ {i}) \cap pool
      BY DEF Reached
    <3> QED BY <2>3, <3>1
  <2>4. CASE t.anchor.relation = "adjacent_to"
    <3>1. Reached("adjacent_to", p, i, pool) = Following(p, i, pool)
      BY DEF Reached
    <3> QED BY <2>2, <2>4, <3>1
  <2>5. CASE t.anchor.relation = "within_section"
    <3>1. Reached("within_section", p, i, pool) = (Section(p, i) \ {i}) \cap pool
      BY DEF Reached
    <3> QED BY <2>5, <3>1
  <2> QED BY <2>1, <2>3, <2>4, <2>5 DEF Relations
<1>5. OrdinalInRegion(t, p) \subseteq pool
  <2>1. t.ordinal.index \in Nat
    BY DEF Descriptor, Ordinals
  <2>2. t.ordinal.index < Cardinality(pool) => Nth(pool, t.ordinal.index) \in pool
    BY <1>1, <2>1, NthExists
  <2> QED BY <2>2 DEF OrdinalInRegion
<1> QED BY <1>2, <1>3, <1>4, <1>5 DEF Candidates, Ladder

(* What is resolved is a node of the page, by a rung of the ladder.        *)
LEMMA ResolveType ==
  ASSUME NEW p \in Seq(Node), NEW t \in Descriptor
  PROVE  Resolve(t, p) \in {Refused} \cup [node : DOMAIN p, rung : Ladder, drifted : BOOLEAN]
<1> SUFFICES ASSUME NEW rung \in Ladder
             PROVE  Choice(t, p, rung) \in
                      {Refused} \cup [node : DOMAIN p, rung : Ladder, drifted : BOOLEAN]
  <2> DEFINE answering == {r \in Ladder : Candidates(r, t, p) # {}}
  <2>1. answering \in SUBSET Nat /\ answering \subseteq Ladder BY DEF Ladder
  <2> HIDE DEF answering
  <2>2. answering # {} => First(answering) \in Ladder BY <2>1, FirstOfSome
  <2>3. Resolve(t, p) = IF answering = {} THEN Refused ELSE Choice(t, p, First(answering))
    BY DEF Resolve, answering
  <2> QED BY <2>2, <2>3
<1> DEFINE found == Candidates(rung, t, p)
<1>1. found \in SUBSET Nat /\ found \subseteq DOMAIN p /\ IsFiniteSet(found)
  <2>1. DOMAIN p = 1 .. Len(p) OBVIOUS
  <2> QED BY <2>1, CandidatesInPool, NamedCandidates, FS_Subset
<1>2. t.ordinal.index \in Nat
  BY DEF Descriptor, Ordinals
<1>3. \A node \in DOMAIN p :
        Resolved(t, node, rung) \in [node : DOMAIN p, rung : Ladder, drifted : BOOLEAN]
  BY DEF Resolved, IsDrift, Descriptor, Ladder
<1> HIDE DEF found
<1>4. Cardinality(found) = 1 => Nth(found, 0) \in DOMAIN p
  BY <1>1, TheOnlyOne
<1>5. t.ordinal.index < Cardinality(found) => Nth(found, t.ordinal.index) \in DOMAIN p
  BY <1>1, <1>2, NthExists
<1> QED BY <1>3, <1>4, <1>5 DEF Choice, found

(* Synthesis makes descriptors.                                            *)
LEMMA SynthesisType ==
  ASSUME NEW p \in Seq(Node), NEW n \in DOMAIN p
  PROVE  SynthesizeDescriptor(p, n) \in Descriptor
<1>1. DOMAIN p = 1 .. Len(p) /\ p[n] \in Node /\ n \in Nat
  <2>1. DOMAIN p = 1 .. Len(p) /\ Len(p) \in Nat OBVIOUS
  <2> QED BY <2>1
<1>0. \A i \in DOMAIN p : p[i].name # NoName => p[i].name \in Names
  <2> TAKE i \in DOMAIN p
  <2>1. p[i] \in Node OBVIOUS
  <2> QED BY <2>1 DEF Node
<1>2. AnchorFor(p, n) \in Anchors
  <2>1. RowAnchor(p, n) \in Anchors
    <3> DEFINE named == {i \in RowMates(p, n) \ {n} : p[i].role = "cell" /\ p[i].name # NoName}
    <3>1. named \in SUBSET Nat BY <1>1 DEF RowMates
    <3>2. \A i \in named : p[i].name \in Names BY <1>0 DEF RowMates
    <3>3. RowAnchor(p, n) = IF named = {} THEN NoAnchor
                            ELSE [relation |-> "row_of", text |-> p[First(named)].name]
      BY DEF RowAnchor
    <3> HIDE DEF named
    <3>4. named # {} => First(named) \in named BY <3>1, FirstOfSome
    <3> QED BY <3>2, <3>3, <3>4 DEF Anchors, Relations
  <2>2. PrecedingAnchor(p, n) \in Anchors
    <3> DEFINE labels == {i \in Siblings(p, n) :
                            i < n /\ p[i].name # NoName /\ p[i].name \notin Values}
    <3>1. labels \in SUBSET (0 .. n) BY <1>1 DEF Siblings, SameFrame
    <3>2. \A i \in labels : p[i].name \in Names BY <1>0 DEF Siblings, SameFrame
    <3>3. PrecedingAnchor(p, n) = IF labels = {} THEN NoAnchor
                 ELSE [relation |-> "adjacent_to", text |-> p[Nearest(labels)].name]
      BY DEF PrecedingAnchor
    <3> HIDE DEF labels
    <3>4. labels # {} => Nearest(labels) \in labels BY <3>1, <1>1, LastOfSome
    <3> QED BY <3>2, <3>3, <3>4 DEF Anchors, Relations
  <2> QED BY <2>1, <2>2 DEF AnchorFor
<1>3. Cardinality({i \in OrdinalPool(p, p[n].role, p[n].scope) : i < n}) \in Nat
  <2>1. IsFiniteSet(1 .. Len(p)) BY FS_Interval
  <2>2. IsFiniteSet({i \in OrdinalPool(p, p[n].role, p[n].scope) : i < n})
    BY <1>1, <2>1, FS_Subset DEF OrdinalPool
  <2> QED BY <2>2, FS_CardinalityType
<1>4. NoAnchor \in Anchors /\ NoOrdinal \in Ordinals /\ \A k \in Nat : At(k) \in Ordinals
  BY DEF Anchors, NoOrdinal, Ordinals, At
<1> QED BY <1>1, <1>2, <1>3, <1>4
        DEF SynthesizeDescriptor, Described, Descriptor, Node, Ladder, Exact, Structural, Positional

(* A description by the label of a row finds its node or refuses.          *)
LEMMA RowLabelFindsOrRefuses ==
  ASSUME NEW p \in Seq(Node), NEW n \in DOMAIN p, ~NameIsUnique(p, n),
         SynthesizeDescriptor(p, n).anchor.relation = "row_of"
  PROVE  Resolve(SynthesizeDescriptor(p, n), p).node \in {0, n}
<1> DEFINE t == SynthesizeDescriptor(p, n)
           named == {i \in RowMates(p, n) \ {n} : p[i].role = "cell" /\ p[i].name # NoName}
<1>1. /\ AnchorFor(p, n) # NoAnchor
      /\ t = Described(p, n, NoName, AnchorFor(p, n), NoOrdinal, Structural)
  BY DEF SynthesizeDescriptor, Described, NoAnchor
<1>2. /\ t.name = NoName /\ t.role = p[n].role /\ t.scope = p[n].scope
      /\ t.anchor = AnchorFor(p, n) /\ ~t.ordinal.given /\ t.recorded = Structural
  BY <1>1 DEF Described, NoOrdinal
<1>3. /\ named # {}
      /\ t.anchor = [relation |-> "row_of", text |-> p[First(named)].name]
  <2>1. AnchorFor(p, n).relation = "row_of" /\ AnchorFor(p, n) # NoAnchor
    BY <1>1, <1>2
  <2>2. PrecedingAnchor(p, n).relation # "row_of"
    BY DEF PrecedingAnchor, NoAnchor
  <2>3. AnchorFor(p, n) = RowAnchor(p, n)
    BY <2>1, <2>2 DEF AnchorFor
  <2> QED BY <1>2, <2>1, <2>3 DEF RowAnchor
<1> DEFINE a == First(named)
<1>4. a \in DOMAIN p /\ a # n /\ p[n].row # NoRow /\ p[a].row = p[n].row
  <2>1. named \in SUBSET Nat
    <3>1. DOMAIN p = 1 .. Len(p) OBVIOUS
    <3> QED BY <3>1 DEF RowMates
  <2>2. a \in named
    <3> HIDE DEF named
    <3> QED BY <1>3, <2>1, FirstOfSome
  <2> QED BY <2>2 DEF RowMates
<1>5. n \in Pool(t, p)
  <2>1. p[n] \in Node OBVIOUS
  <2> QED BY <1>2, <2>1 DEF Pool, OrdinalPool, InScope
<1>6. t.anchor # NoAnchor /\ t.anchor.relation = "row_of" /\ t.anchor.text = p[a].name
  <2>1. t.anchor # NoAnchor
    BY <1>1, <1>2
  <2>2. t.anchor.relation = "row_of"
    BY <1>3
  <2>3. t.anchor.text = p[a].name
    <3> HIDE DEF named, t
    <3> QED BY <1>3
  <2> QED BY <2>1, <2>2, <2>3
<1> HIDE DEF a, named, t
<1>7. n \in StructuralAnchor(t, p)
  <2>1. Reached("row_of", p, a, Pool(t, p)) = (RowMates(p, a) \ {a}) \cap Pool(t, p)
    BY DEF Reached
  <2>2. n \in Reached(t.anchor.relation, p, a, Pool(t, p))
    BY <2>1, <1>4, <1>5, <1>6 DEF RowMates
  <2>3. a \in {j \in DOMAIN p : Fold(p[j].name) = Fold(t.anchor.text)}
    BY <1>4, <1>6
  <2> QED BY <2>2, <2>3, <1>6 DEF StructuralAnchor
<1>8. Candidates(1, t, p) = {} /\ Candidates(2, t, p) = {} /\ n \in Candidates(3, t, p)
  <2>1. Candidates(1, t, p) = SemanticExact(t, p) /\ Candidates(2, t, p) = SemanticNormalized(t, p)
        /\ Candidates(3, t, p) = StructuralAnchor(t, p)
    BY DEF Candidates
  <2> QED BY <2>1, <1>2, <1>7 DEF SemanticExact, SemanticNormalized, Fold
<1> SUFFICES ASSUME Resolve(t, p).node # 0
             PROVE  Resolve(t, p).node = n
  BY DEF t
<1>9. PICK rung \in Ladder :
        /\ Candidates(rung, t, p) # {}
        /\ \A r \in Ladder : Candidates(r, t, p) # {} => rung <= r
        /\ Resolve(t, p) = Choice(t, p, rung)
  BY ResolvesByFirstRung
<1>10. rung = 3
  <2>1. 3 \in Ladder /\ Candidates(3, t, p) # {} BY <1>8 DEF Ladder
  <2>2. rung <= 3 /\ rung # 1 /\ rung # 2 BY <2>1, <1>8, <1>9
  <2> QED BY <2>2, <1>9 DEF Ladder
<1>11. /\ Cardinality(Candidates(3, t, p)) = 1
       /\ Resolve(t, p) = Resolved(t, Nth(Candidates(3, t, p), 0), 3)
  BY <1>2, <1>9, <1>10, ChoosesTheOnlyOne
<1>12. Candidates(3, t, p) = {Nth(Candidates(3, t, p), 0)}
  <2>1. t \in Descriptor BY SynthesisType DEF t
  <2>2. DOMAIN p = 1 .. Len(p) OBVIOUS
  <2>3. Candidates(3, t, p) \subseteq Pool(t, p) /\ 3 \in Ladder
    BY <2>1, CandidatesInPool DEF Ladder
  <2>4. Candidates(3, t, p) \in SUBSET Nat /\ IsFiniteSet(Candidates(3, t, p))
    BY <2>2, <2>3, NamedCandidates, FS_Subset
  <2> QED BY <2>4, <1>11, TheOnlyOne
<1> QED BY <1>8, <1>11, <1>12 DEF Resolved

-----------------------------------------------------------------------------
(* The same node on a page read backwards.                                 *)
Opposite(p, i) == Len(p) - i + 1

(* A page read backwards has the same nodes, in the opposite places.       *)
LEMMA ReadBackwards ==
  ASSUME NEW p \in Seq(Node)
  PROVE  /\ Reverse(p) \in Seq(Node)
         /\ DOMAIN Reverse(p) = DOMAIN p /\ DOMAIN p = 1 .. Len(p) /\ Len(p) \in Nat
         /\ \A i \in DOMAIN p : /\ Opposite(p, i) \in DOMAIN p
                                /\ Opposite(p, Opposite(p, i)) = i
                                /\ Reverse(p)[i] = p[Opposite(p, i)]
<1>1. DOMAIN p = 1 .. Len(p) /\ Len(p) \in Nat
  OBVIOUS
<1>2. \A i \in 1 .. Len(p) : Opposite(p, i) \in 1 .. Len(p) /\ Opposite(p, Opposite(p, i)) = i
  BY <1>1 DEF Opposite
<1>3. Reverse(p) = [i \in 1 .. Len(p) |-> p[Opposite(p, i)]]
  BY DEF Reverse, Opposite
<1>4. \A i \in 1 .. Len(p) : p[Opposite(p, i)] \in Node
  BY <1>1, <1>2
<1> QED
  BY <1>1, <1>2, <1>3, <1>4

(* No rung of a target without an ordinal that does not ask for what comes *)
(* next depends on the order of the nodes.                                 *)
LEMMA RungsIgnoreOrder ==
  ASSUME NEW p \in Seq(Node), NEW t \in Descriptor, NEW rung \in Ladder,
         ~t.ordinal.given, t.anchor.relation # "adjacent_to", NEW i \in DOMAIN p
  PROVE  i \in Candidates(rung, t, Reverse(p)) <=> Opposite(p, i) \in Candidates(rung, t, p)
<1> DEFINE q == Reverse(p)
           o(j) == Opposite(p, j)
<1>1. /\ DOMAIN q = DOMAIN p
      /\ \A j \in DOMAIN p : o(j) \in DOMAIN p /\ o(o(j)) = j /\ q[j] = p[o(j)]
  BY ReadBackwards
<1> HIDE DEF q, o
<1>2. \A j \in DOMAIN p : j \in Pool(t, q) <=> o(j) \in Pool(t, p)
  BY <1>1 DEF Pool, OrdinalPool
<1>3. i \in SemanticExact(t, q) <=> o(i) \in SemanticExact(t, p)
  BY <1>1, <1>2 DEF SemanticExact
<1>4. i \in SemanticNormalized(t, q) <=> o(i) \in SemanticNormalized(t, p)
  BY <1>1, <1>2 DEF SemanticNormalized
<1>5. i \in HintCached(t, q) <=> o(i) \in HintCached(t, p)
  BY <1>1, <1>2 DEF HintCached
<1>6. i \in StructuralAnchor(t, q) <=> o(i) \in StructuralAnchor(t, p)
  <2> DEFINE anchors(read) == {j \in DOMAIN read : Fold(read[j].name) = Fold(t.anchor.text)}
             found(read, a) == Reached(t.anchor.relation, read, a, Pool(t, read))
  <2>1. \A a \in DOMAIN p : a \in anchors(q) <=> o(a) \in anchors(p)
    BY <1>1
  <2>2. ASSUME t.anchor # NoAnchor, NEW a \in DOMAIN p
        PROVE  i \in found(q, a) <=> o(i) \in found(p, o(a))
    <3>1. t.anchor.relation \in {"row_of", "within_section"}
      BY <2>2 DEF Descriptor, Anchors, Relations
    <3>2. i = a <=> o(i) = o(a)
      BY <1>1
    <3>3. i \in RowMates(q, a) <=> o(i) \in RowMates(p, o(a))
      BY <1>1 DEF RowMates
    <3>4. i \in Section(q, a) <=> o(i) \in Section(p, o(a))
      BY <1>1 DEF Section, SameFrame
    <3>5. CASE t.anchor.relation = "row_of"
      BY <1>2, <3>2, <3>3, <3>5 DEF Reached
    <3>6. CASE t.anchor.relation = "within_section"
      <4>1. \A read, b : found(read, b) = (Section(read, b) \ {b}) \cap Pool(t, read)
        BY <3>6 DEF Reached
      <4> QED
        BY <1>2, <3>2, <3>4, <4>1
    <3> QED
      BY <3>1, <3>5, <3>6
  <2>3. \A read : i \in StructuralAnchor(t, read) <=>
                    t.anchor # NoAnchor /\ \E a \in anchors(read) : i \in found(read, a)
    BY DEF StructuralAnchor
  <2>4. \A read : o(i) \in StructuralAnchor(t, read) <=>
                    t.anchor # NoAnchor /\ \E a \in anchors(read) : o(i) \in found(read, a)
    BY DEF StructuralAnchor
  <2>5. anchors(q) \subseteq DOMAIN p /\ anchors(p) \subseteq DOMAIN p
    BY <1>1
  <2> HIDE DEF anchors, found
  <2> QED
    BY <1>1, <2>1, <2>2, <2>3, <2>4, <2>5
<1>7. OrdinalInRegion(t, q) = {} /\ OrdinalInRegion(t, p) = {}
  BY DEF OrdinalInRegion
<1>8. \A read : /\ Candidates(1, t, read) = SemanticExact(t, read)
                /\ Candidates(2, t, read) = SemanticNormalized(t, read)
                /\ Candidates(3, t, read) = StructuralAnchor(t, read)
                /\ Candidates(4, t, read) = HintCached(t, read)
                /\ Candidates(5, t, read) = OrdinalInRegion(t, read)
  BY DEF Candidates
<1>9. i \in Candidates(rung, t, q) <=> o(i) \in Candidates(rung, t, p)
  BY <1>3, <1>4, <1>5, <1>6, <1>7, <1>8 DEF Ladder
<1> QED
  BY <1>9 DEF q, o

(* Read backwards, a page resolves such a target to the same node, by the  *)
(* same rung.                                                              *)
LEMMA ResolutionIgnoresOrder ==
  ASSUME NEW p \in Seq(Node), NEW t \in Descriptor,
         ~t.ordinal.given, t.anchor.relation # "adjacent_to"
  PROVE  /\ Resolve(t, Reverse(p)).rung = Resolve(t, p).rung
         /\ Resolve(t, Reverse(p)).node # 0 =>
              Resolve(t, Reverse(p)).node = Len(p) + 1 - Resolve(t, p).node
<1> DEFINE q == Reverse(p)
           found(read, r) == Candidates(r, t, read)
           answering(read) == {r \in Ladder : found(read, r) # {}}
<1>1. /\ q \in Seq(Node) /\ DOMAIN q = DOMAIN p /\ DOMAIN p = 1 .. Len(p) /\ Len(p) \in Nat
      /\ \A i \in DOMAIN p : Opposite(p, i) \in DOMAIN p /\ Opposite(p, Opposite(p, i)) = i
  BY ReadBackwards
<1>2. \A read \in {p, q}, r \in Ladder :
        found(read, r) \subseteq DOMAIN p /\ IsFiniteSet(found(read, r))
  <2> TAKE read \in {p, q}, r \in Ladder
  <2>1. read \in Seq(Node) /\ DOMAIN read = DOMAIN p
    BY <1>1
  <2>2. found(read, r) \subseteq Pool(t, read)
    BY <2>1, CandidatesInPool
  <2>3. Pool(t, read) \subseteq DOMAIN read /\ IsFiniteSet(Pool(t, read))
    BY <2>1, NamedCandidates
  <2> QED
    BY <2>1, <2>2, <2>3, FS_Subset
<1>3. \A r \in Ladder, i \in DOMAIN p : i \in found(q, r) <=> Opposite(p, i) \in found(p, r)
  BY RungsIgnoreOrder
<1>4. \A read : Resolve(t, read) = IF answering(read) = {} THEN Refused
                                   ELSE Choice(t, read, First(answering(read)))
  BY DEF Resolve
<1> HIDE DEF q, found
<1>5. answering(q) = answering(p)
  BY <1>1, <1>2, <1>3
<1>6. ASSUME NEW r \in Ladder
      PROVE  /\ Choice(t, q, r).rung = Choice(t, p, r).rung
             /\ Choice(t, q, r).node # 0 => Choice(t, q, r).node = Len(p) + 1 - Choice(t, p, r).node
  <2>1. \A read : Choice(t, read, r) = IF Cardinality(found(read, r)) = 1
                                       THEN Resolved(t, Nth(found(read, r), 0), r) ELSE Refused
    BY DEF Choice, found
  <2>2. ASSUME Cardinality(found(q, r)) = 1
        PROVE  /\ Cardinality(found(p, r)) = 1
               /\ Nth(found(q, r), 0) = Len(p) + 1 - Nth(found(p, r), 0)
    <3>1. PICK x \in DOMAIN p : found(q, r) = {x}
      BY <1>2, <2>2, FS_Singleton
    <3>2. found(p, r) = {Opposite(p, x)}
      BY <1>1, <1>2, <1>3, <3>1
    <3>3. Cardinality(found(p, r)) = 1
      BY <3>2, FS_Singleton
    <3>4. Nth(found(q, r), 0) = x /\ Nth(found(p, r), 0) = Opposite(p, x)
      <4>1. found(q, r) \in SUBSET Nat /\ found(p, r) \in SUBSET Nat
        BY <1>1, <1>2
      <4> QED
        BY <1>2, <2>2, <3>1, <3>2, <3>3, <4>1, TheOnlyOne
    <3>5. x = Len(p) + 1 - Opposite(p, x)
      BY <1>1 DEF Opposite
    <3> QED
      BY <3>3, <3>4, <3>5
  <2>3. ASSUME Cardinality(found(p, r)) = 1
        PROVE  Cardinality(found(q, r)) = 1
    <3>1. PICK x \in DOMAIN p : found(p, r) = {x}
      BY <1>2, <2>3, FS_Singleton
    <3>2. found(q, r) = {Opposite(p, x)}
      BY <1>1, <1>2, <1>3, <3>1
    <3> QED
      BY <3>2, FS_Singleton
  <2> QED
    BY <2>1, <2>2, <2>3 DEF Resolved, Refused
<1>7. answering(p) # {} => First(answering(p)) \in Ladder
  <2>1. answering(p) \in SUBSET Nat /\ answering(p) \subseteq Ladder
    BY DEF Ladder
  <2> HIDE DEF answering
  <2> QED
    BY <2>1, FirstOfSome
<1>8. /\ Resolve(t, q).rung = Resolve(t, p).rung
      /\ Resolve(t, q).node # 0 => Resolve(t, q).node = Len(p) + 1 - Resolve(t, p).node
  <2> HIDE DEF answering
  <2> QED
    BY <1>4, <1>5, <1>6, <1>7 DEF Refused
<1> QED
  BY <1>8 DEF q

-----------------------------------------------------------------------------
(* What a resolution is of, and where a target came from.                  *)
Origin ==
  /\ target = NoTarget => resolution = NoResolution /\ changes = 0
  /\ target # NoTarget /\ resolution # NoResolution => resolution = Resolve(target, page)
  /\ target # NoTarget /\ target.ordinal.given => target.recorded = Positional
  /\ target # NoTarget /\ changes = 0 =>
       chosen \in DOMAIN page /\ target = SynthesizeDescriptor(page, chosen)

IInv == TypeOK /\ Origin

LEMMA PagesAreSequences == Pages \subseteq Seq(Node)
BY DriftAssumption DEF Pages

LEMMA Initially == Init => IInv
<1> SUFFICES ASSUME Init PROVE IInv
  OBVIOUS
<1>1. page \in Seq(Node)
  BY PagesAreSequences DEF Init
<1> QED BY <1>1 DEF Init, IInv, TypeOK, Origin

LEMMA Inductive == IInv /\ [Next]_vars => IInv'
<1> SUFFICES ASSUME IInv, [Next]_vars PROVE IInv'
  OBVIOUS
<1> USE DEF IInv
<1>1. ASSUME NEW n \in DOMAIN page, Record(n) PROVE IInv'
  <2> DEFINE t == SynthesizeDescriptor(page, n)
  <2>1. t \in Descriptor /\ n \in Nat
    <3>1. DOMAIN page = 1 .. Len(page) BY DEF TypeOK
    <3> QED BY <3>1, SynthesisType DEF TypeOK
  <2>2. Resolve(t, page) \in {Refused} \cup [node : DOMAIN page, rung : Ladder, drifted : BOOLEAN]
    BY <2>1, ResolveType DEF TypeOK
  <2>3. t.ordinal.given => t.recorded = Positional
    BY DEF SynthesizeDescriptor, Described, NoOrdinal, At
  <2> HIDE DEF t
  <2>4. target' = t /\ chosen' = n /\ resolution' = Resolve(t, page) /\ page' = page
        /\ changes' = changes
    BY <1>1 DEF Record, t
  <2>5. target' # NoTarget
    BY <2>1, <2>4, DriftAssumption
  <2> QED BY <2>1, <2>2, <2>3, <2>4, <2>5 DEF TypeOK, Origin, t
<1>2. CASE PageChanges
  <2>1. page' \in Seq(Node) /\ changes' \in Nat /\ changes' # 0
    BY <1>2, PagesAreSequences DEF PageChanges, TypeOK
  <2> QED BY <1>2, <2>1 DEF PageChanges, TypeOK, Origin
<1>3. CASE Replay
  <2>1. target \in Descriptor
    BY <1>3 DEF Replay, TypeOK
  <2>2. Resolve(target, page) \in {Refused} \cup [node : DOMAIN page, rung : Ladder, drifted : BOOLEAN]
    BY <2>1, ResolveType DEF TypeOK
  <2> QED BY <1>3, <2>2 DEF Replay, TypeOK, Origin
<1>4. CASE UNCHANGED vars
  BY <1>4 DEF vars, TypeOK, Origin
<1> QED BY <1>1, <1>2, <1>3, <1>4 DEF Next

LEMMA SafelyDescribed == IInv => DescribesItsControl /\ OtherNameIsDrift
<1> SUFFICES ASSUME IInv PROVE DescribesItsControl /\ OtherNameIsDrift
  OBVIOUS
<1>1. page \in Seq(Node)
  BY DEF IInv, TypeOK
<1>2. ASSUME resolution # NoResolution
      PROVE  target # NoTarget /\ target \in Descriptor /\ resolution = Resolve(target, page)
  BY <1>2 DEF IInv, TypeOK, Origin
<1>3. DescribesItsControl
  <2> SUFFICES ASSUME resolution # NoResolution, changes = 0
               PROVE  /\ target.recorded = Exact => resolution.node = chosen
                      /\ target.anchor.relation = "row_of" => resolution.node \in {0, chosen}
    BY DEF DescribesItsControl
  <2>1. chosen \in DOMAIN page /\ target = SynthesizeDescriptor(page, chosen)
    BY <1>2 DEF IInv, Origin
  <2>2. CASE NameIsUnique(page, chosen)
    BY <1>1, <1>2, <2>1, <2>2, UniqueNameIsFound
  <2>3. CASE ~NameIsUnique(page, chosen)
    <3>1. target.recorded # Exact
      BY <2>1, <2>3 DEF SynthesizeDescriptor, Described, Exact, Structural, Positional
    <3>2. target.anchor.relation = "row_of" => resolution.node \in {0, chosen}
      BY <1>1, <1>2, <2>1, <2>3, RowLabelFindsOrRefuses
    <3> QED BY <3>1, <3>2
  <2> QED BY <2>2, <2>3
<1>4. OtherNameIsDrift
  <2> SUFFICES ASSUME Acting, target.recorded = Exact,
                      Fold(page[resolution.node].name) # Fold(target.name)
               PROVE  resolution.drifted
    BY DEF OtherNameIsDrift
  <2>1. ~target.ordinal.given /\ resolution = Resolve(target, page) /\ resolution.node # 0
    BY <1>2 DEF Acting, IInv, Origin, Exact, Positional
  <2>2. PICK rung \in Ladder : rung > 2 /\ resolution = Resolved(target, resolution.node, rung)
    BY <1>1, <2>1, OtherNameIsBelow
  <2>3. rung > target.recorded
    BY <2>2 DEF Exact, Ladder
  <2>4. resolution.drifted = IsDrift(target.recorded, rung)
    BY <2>2 DEF Resolved
  <2>5. IsDrift(target.recorded, rung)
    BY <2>3 DEF IsDrift
  <2> QED BY <2>4, <2>5, Zenon
<1> QED BY <1>3, <1>4

(* Whatever the page, what is acted on is one of its nodes, by a rung of   *)
(* the ladder.                                                             *)
THEOREM ResolutionTypeCorrect == Spec => []TypeOK
<1>1. IInv => TypeOK
  BY DEF IInv
<1> QED BY Initially, Inductive, <1>1, PTL DEF Spec

(* A description by name or by the label of a row never finds another      *)
(* control on the page it was made on, on pages of any size.               *)
THEOREM DescriptionsFindTheirControl == Spec => []DescribesItsControl
BY Initially, Inductive, SafelyDescribed, PTL DEF Spec

(* However the page changes, a target recorded by name never acts on a     *)
(* control of another name without reporting drift.                        *)
THEOREM OtherNamesAreReported == Spec => []OtherNameIsDrift
BY Initially, Inductive, SafelyDescribed, PTL DEF Spec

(* Among equals nothing is picked by its place: on a page of any size read *)
(* backwards the same node is found, by the same rung, or none is.         *)
THEOREM NothingIsPickedByPosition == Spec => []NeverByPosition
<1>1. IInv => NeverByPosition
  <2> SUFFICES ASSUME IInv, resolution # NoResolution, ~target.ordinal.given,
                      target.anchor.relation # "adjacent_to"
               PROVE  /\ Resolve(target, Reverse(page)).rung = resolution.rung
                      /\ Resolve(target, Reverse(page)).node # 0 =>
                           Resolve(target, Reverse(page)).node = Len(page) + 1 - resolution.node
    BY DEF NeverByPosition
  <2>1. page \in Seq(Node) /\ target \in Descriptor /\ resolution = Resolve(target, page)
    BY DEF IInv, TypeOK, Origin
  <2> QED
    BY <2>1, ResolutionIgnoresOrder
<1> QED
  BY Initially, Inductive, <1>1, PTL DEF Spec
=============================================================================
