-------------------------- MODULE LifecycleProofs --------------------------
(***************************************************************************)
(* How a capability comes to be and comes to be approved.  The first part  *)
(* is about Discovery: the budgets of a discovery run and what is compiled *)
(* from it, for every set of limits, labels, texts, outputs and costs of a *)
(* model call, and traces of any length.                                   *)
(*                                                                         *)
(* The second part is about Evaluation: what an evaluation says of a       *)
(* capability and what an approval on it rests on, for any artifacts,      *)
(* cases, behaviours, repeats and suites.  The invariant carried is where  *)
(* a score on disk came from: the runs of a suite, of the content whose    *)
(* hash the document names unless somebody wrote the artifact under them.  *)
(***************************************************************************)
EXTENDS Discovery, Evaluation, FiniteSetTheorems, WellFoundedInduction, TLAPS

Budgets == [steps : Nat, tokens : Nat, unchanged : Nat, denials : Nat]

(* Every step of the loop that is not a turn leaves the budget alone or    *)
(* ends the run, and a turn starts only below every limit.                 *)
Accounted ==
  /\ budget \in Budgets
  /\ spent \in Nat
  /\ phase \in Phases
  /\ budget.tokens = spent
  /\ budget.denials <= budget.unchanged
  /\ phase = "call" => budget.tokens < MaxTokens

(* What one model turn does to the budget and to nothing else it bounds.   *)
Counts(tokens) ==
  /\ phase = "call"
  /\ phase' \in {"check", "done"}
  /\ spent' = spent + tokens
  /\ \E progressed, denied \in BOOLEAN :
       /\ budget' = Recorded(tokens, progressed, denied)
       /\ denied => ~progressed

-----------------------------------------------------------------------------
(* Whatever the model answers, the turn is counted once, and a refusal is  *)
(* never progress.                                                         *)
LEMMA AnswersCount ==
  ASSUME NEW tokens \in TurnTokens, Answers(tokens)
  PROVE  Counts(tokens)
<1>1. ASSUME NEW steps, NEW progressed \in BOOLEAN, NEW denied \in BOOLEAN,
             Turn(tokens, steps, progressed, denied), denied => ~progressed
      PROVE  Counts(tokens)
  BY <1>1 DEF Turn, Counts
<1>2. CASE Nudged(tokens)
  BY <1>1, <1>2 DEF Nudged
<1>3. CASE Finishes(tokens)
  BY <1>3 DEF Finishes, Ending, Counts
<1>4. CASE GivesUp(tokens)
  BY <1>4 DEF GivesUp, Ending, Counts
<1>5. CASE Misses(tokens)
  BY <1>1, <1>5 DEF Misses
<1>6. CASE Refused(tokens)
  BY <1>1, <1>6 DEF Refused, ProgressIfNotOk
<1>7. CASE \E output \in Outputs : Extracts(tokens, output)
  BY <1>1, <1>7 DEF Extracts
<1>8. ASSUME NEW tool, NEW control, NEW text, Performs(tokens, tool, control, text)
      PROVE  Counts(tokens)
  BY <1>1, <1>8 DEF Performs
<1> QED
  BY <1>2, <1>3, <1>4, <1>5, <1>6, <1>7, <1>8 DEF Answers

(* Counting a turn keeps the accounts.                                     *)
LEMMA TurnAccounted ==
  ASSUME Accounted, NEW tokens \in TurnTokens, Counts(tokens)
  PROVE  Accounted'
<1> PICK progressed \in BOOLEAN, denied \in BOOLEAN :
      budget' = Recorded(tokens, progressed, denied) /\ (denied => ~progressed)
  BY DEF Counts
<1>1. tokens \in Nat
  BY BudgetAssumption
<1>2. budget' \in Budgets /\ budget'.tokens = budget.tokens + tokens
  BY <1>1 DEF Accounted, Budgets, Recorded
<1>3. budget'.denials <= budget'.unchanged
  BY DEF Accounted, Budgets, Recorded
<1>4. spent' = spent + tokens /\ phase' \in {"check", "done"}
  BY DEF Counts
<1> QED
  BY <1>1, <1>2, <1>3, <1>4 DEF Accounted, Phases

(* So does every step of the specification.                                *)
LEMMA NextAccounted ==
  ASSUME Accounted, [Next]_vars
  PROVE  Accounted'
<1>1. CASE \E tokens \in TurnTokens : Answers(tokens)
  BY <1>1, AnswersCount, TurnAccounted
<1>2. CASE Stops \/ ModelFails \/ TimePasses \/ Compiles \/ UNCHANGED vars
  BY <1>2 DEF Stops, ModelFails, TimePasses, Compiles, vars, Accounted, Phases
<1>3. CASE Asks
  <2>1. budget.tokens < MaxTokens
    BY <1>3, BudgetAssumption DEF Asks, IsExceeded, Accounted, Budgets
  <2> QED
    BY <1>3, <2>1 DEF Asks, Accounted, Phases
<1> QED
  BY <1>1, <1>2, <1>3 DEF Next, Loop

(* The accounts hold in every reachable state.                             *)
LEMMA AlwaysAccounted == Spec => []Accounted
<1>1. Init => Accounted
  BY DEF Init, Accounted, Budgets, Phases
<1>2. Accounted /\ [Next]_vars => Accounted'
  BY NextAccounted
<1> QED
  BY <1>1, <1>2, PTL DEF Spec

-----------------------------------------------------------------------------
(* The recorded budget and the trace's model calls never disagree on the   *)
(* tokens of a run, its last call included (DiscoveryAgent.run).           *)
THEOREM BudgetAlwaysMatchesTrace == Spec => []BudgetMatchesTrace
<1>1. Accounted => BudgetMatchesTrace
  BY DEF Accounted, BudgetMatchesTrace
<1> QED
  BY <1>1, AlwaysAccounted, PTL

(* A refusal is always a stalled turn (Budget.record_step).                *)
THEOREM RefusalsAreStalls == Spec => []DenialsAreStalls
<1>1. Accounted => DenialsAreStalls
  BY DEF Accounted, DenialsAreStalls
<1> QED
  BY <1>1, AlwaysAccounted, PTL

(* Where as many refusals are allowed as stalled turns, as they are by     *)
(* default (stop.py:36-37), no run ever ends with POLICY_WALL: DEAD_END    *)
(* is looked at first and is always hit first.                             *)
THEOREM PolicyWallIsUnreachable ==
  ASSUME MaxUnchanged <= MaxDenials
  PROVE  Spec => [](stop # "policy_wall")
<1>1. Init => stop # "policy_wall"
  BY DEF Init
<1>2. Accounted /\ stop # "policy_wall" /\ [Next]_vars => (stop # "policy_wall")'
  <2> SUFFICES ASSUME Accounted, stop # "policy_wall", [Next]_vars
               PROVE  stop' # "policy_wall"
    OBVIOUS
  <2>1. CASE Stops
    <3>1. budget.denials >= MaxDenials => budget.unchanged >= MaxUnchanged
      BY BudgetAssumption DEF Accounted, Budgets
    <3> QED
      BY <2>1, <3>1 DEF Stops, IsExceeded, Exceeded
  <2>2. CASE \E tokens \in TurnTokens : Answers(tokens)
    BY <2>2 DEF Answers, Nudged, Finishes, GivesUp, Misses, Refused, Extracts, Performs, Turn
  <2>3. CASE Asks \/ ModelFails \/ TimePasses \/ Compiles \/ UNCHANGED vars
    BY <2>3 DEF Asks, ModelFails, TimePasses, Compiles, vars
  <2> QED
    BY <2>1, <2>2, <2>3 DEF Next, Loop
<1> QED
  BY <1>1, <1>2, AlwaysAccounted, PTL DEF Spec

(* Tokens are overshot by less than one turn, whatever a turn may cost.    *)
THEOREM BudgetStaysHard == Spec => []BudgetIsHard
<1>1. Init => BudgetIsHard
  BY BudgetAssumption DEF Init, BudgetIsHard
<1>2. Accounted /\ BudgetIsHard /\ [Next]_vars => BudgetIsHard'
  <2> SUFFICES ASSUME Accounted, BudgetIsHard, [Next]_vars,
                      NEW cost \in {c \in TurnTokens : \A d \in TurnTokens : d <= c}
               PROVE  budget'.tokens < MaxTokens + cost
    BY DEF BudgetIsHard
  <2>1. CASE \E tokens \in TurnTokens : Answers(tokens)
    <3> PICK tokens \in TurnTokens : Counts(tokens)
      BY <2>1, AnswersCount
    <3>1. budget'.tokens = budget.tokens + tokens /\ budget.tokens < MaxTokens
      BY DEF Counts, Recorded, Accounted
    <3>2. tokens <= cost /\ tokens \in Nat /\ cost \in Nat /\ budget.tokens \in Nat
      BY BudgetAssumption DEF Accounted, Budgets
    <3> QED
      BY <3>1, <3>2, BudgetAssumption
  <2>2. CASE Stops \/ Asks \/ ModelFails \/ TimePasses \/ Compiles \/ UNCHANGED vars
    BY <2>2 DEF BudgetIsHard, Stops, Asks, ModelFails, TimePasses, Compiles, vars
  <2> QED
    BY <2>1, <2>2 DEF Next, Loop
<1> QED
  BY <1>1, <1>2, AlwaysAccounted, PTL DEF Spec

-----------------------------------------------------------------------------
(* Of positions some are first, and those a bound holds of have a last.    *)
LEMMA FirstExists ==
  ASSUME NEW S \in SUBSET Nat, S # {}
  PROVE  Min(S) \in S /\ \A x \in S : Min(S) <= x
<1> DEFINE before == OpToRel(<, Nat)
<1>1. \A x, y \in Nat : <<x, y>> \in before <=> x < y
  BY DEF OpToRel
<1>2. IsWellFoundedOn(before, Nat)
  BY NatLessThanWellFounded
<1> HIDE DEF before
<1>3. PICK least \in S : \A x \in S : <<x, least>> \notin before
  BY <1>2, WFMin
<1>4. ASSUME NEW x \in S
      PROVE  least <= x
  <2>1. x \in Nat /\ least \in Nat
    OBVIOUS
  <2>2. ~(x < least)
    BY <1>1, <1>3, <2>1
  <2> QED
    BY <2>1, <2>2
<1> QED
  BY <1>4 DEF Min

LEMMA LastExists ==
  ASSUME NEW bound \in Nat, NEW S \in SUBSET (0 .. bound), S # {}
  PROVE  \E last \in S : \A x \in S : x <= last
<1> DEFINE below == {k \in 0 .. bound : bound - k \in S}
<1>1. below \in SUBSET Nat /\ below # {}
  <2>1. PICK x \in S : x \in 0 .. bound
    OBVIOUS
  <2>2. bound - x \in 0 .. bound /\ bound - (bound - x) = x
    BY <2>1
  <2> QED
    BY <2>1, <2>2
<1>2. PICK k \in below : \A l \in below : k <= l
  <2> HIDE DEF below
  <2> QED
    BY <1>1, FirstExists
<1>3. ASSUME NEW x \in S
      PROVE  x <= bound - k
  <2>1. x \in 0 .. bound /\ bound - x \in 0 .. bound /\ bound - (bound - x) = x
    OBVIOUS
  <2>2. k <= bound - x /\ k \in 0 .. bound
    BY <1>2, <2>1
  <2> QED
    BY <2>1, <2>2
<1> QED
  BY <1>2, <1>3

TraceSteps ==
  [tool : {"finish", "none", "extract", "click", "type_text", "navigate"},
   about : Controls \cup Outputs, text : Texts \cup {NoText}, ok : BOOLEAN]

(* An input that stands for a text is found by it: of the names lifted     *)
(* with that text one was lifted last.                                     *)
LEMMA NamesAreFound ==
  ASSUME NEW t \in Seq(TraceSteps), NEW text, NamesFor(t, text) # {}
  PROVE  NameOf(t, text) \in NamesFor(t, text)
<1> DEFINE firsts == {Min(LiftedAt(t, name)) : name \in NamesFor(t, text)}
<1>1. Len(t) \in Nat /\ DOMAIN t = 1 .. Len(t)
  OBVIOUS
<1>2. ASSUME NEW name \in NamesFor(t, text)
      PROVE  Min(LiftedAt(t, name)) \in 0 .. Len(t)
  <2>1. LiftedAt(t, name) \subseteq 1 .. Len(t)
    BY <1>1 DEF LiftedAt, Effective
  <2>2. LiftedAt(t, name) # {}
    BY DEF NamesFor, InputNames, LiftedAt
  <2>3. Min(LiftedAt(t, name)) \in LiftedAt(t, name)
    BY <1>1, <2>1, <2>2, FirstExists
  <2> QED
    BY <1>1, <2>1, <2>3
<1>3. firsts \in SUBSET (0 .. Len(t)) /\ firsts # {}
  BY <1>2
<1>4. PICK last \in firsts : \A first \in firsts : first <= last
  <2> HIDE DEF firsts
  <2> QED
    BY <1>1, <1>3, LastExists
<1>5. \E name \in NamesFor(t, text) :
        \A other \in NamesFor(t, text) : Min(LiftedAt(t, other)) <= Min(LiftedAt(t, name))
  BY <1>4
<1> QED
  BY <1>5 DEF NameOf

(* So each compiled step, bound to any arguments, types one of those its   *)
(* text was observed for, or that text.                                    *)
LEMMA ValuesAreBound ==
  ASSUME NEW step \in TraceSteps, trace \in Seq(TraceSteps), NEW arguments
  PROVE  Bound(Value(trace, step), arguments) \in MayType(step, arguments)
<1> DEFINE names == {name \in InputNames(trace) : Lifted(trace)[name] = step.text}
<1>1. names = NamesFor(trace, step.text)
  BY DEF NamesFor
<1>2. CASE step.tool = "type_text" /\ names # {}
  <2>1. PICK t \in Seq(TraceSteps) : t = trace
    OBVIOUS
  <2>2. NameOf(trace, step.text) \in names
    BY <1>1, <1>2, <2>1, NamesAreFound
  <2>3. Value(trace, step) = Ref(NameOf(trace, step.text))
    BY <1>1, <1>2 DEF Value
  <2>4. Bound(Value(trace, step), arguments) = arguments[NameOf(trace, step.text)]
    BY <2>3 DEF Bound, Ref
  <2>5. MayType(step, arguments) = {arguments[name] : name \in names}
    BY <1>2 DEF MayType
  <2> QED
    BY <2>2, <2>4, <2>5
<1>3. CASE ~(step.tool = "type_text" /\ names # {})
  <2>1. Value(trace, step) = Literal(step.text)
    BY <1>1, <1>3 DEF Value
  <2>2. MayType(step, arguments) = {step.text}
    BY <1>3 DEF MayType
  <2> QED
    BY <2>1, <2>2 DEF Bound, Literal
<1> QED
  BY <1>2, <1>3

(* An input was observed with a text that a compiled step types.           *)
LEMMA LiftedFromCompiled ==
  ASSUME trace \in Seq(TraceSteps), NEW name \in InputNames(trace)
  PROVE  \E i \in CompiledAt(trace) : trace[i].text = Lifted(trace)[name]
<1> DEFINE first == Min(LiftedAt(trace, name))
<1>1. LiftedAt(trace, name) # {}
  BY DEF InputNames, LiftedAt
<1>2. LiftedAt(trace, name) \subseteq DOMAIN trace
  BY DEF LiftedAt, Effective
<1>3. DOMAIN trace \subseteq Nat
  OBVIOUS
<1>4. LiftedAt(trace, name) \in SUBSET Nat
  BY <1>2, <1>3
<1>5. first \in LiftedAt(trace, name)
  BY <1>1, <1>4, FirstExists
<1>6. first \in CompiledAt(trace)
  BY <1>5 DEF LiftedAt, IsLifted, CompiledAt
<1>7. Lifted(trace)[name] = trace[first].text
  BY DEF Lifted
<1> QED
  BY <1>6, <1>7

(* Whatever the run typed, in whatever order and into whatever fields, and *)
(* whatever a capability compiled from it is called with: it refuses the   *)
(* call or does what the run did with the arguments in place of the texts; *)
(* with the run's own texts it does what the run did, unless one of them   *)
(* is a number its own validation refuses (compile_capability,             *)
(* validate_inputs).                                                       *)
THEOREM CompiledRunsAreReproduced == Spec => []ReplayReproducesRun
<1>1. Init => trace \in Seq(TraceSteps)
  BY DEF Init
<1>2. trace \in Seq(TraceSteps) /\ [Next]_vars => (trace \in Seq(TraceSteps))'
  <2> SUFFICES ASSUME trace \in Seq(TraceSteps), [Next]_vars PROVE trace' \in Seq(TraceSteps)
    OBVIOUS
  <2>1. ASSUME NEW tokens, Answers(tokens)
        PROVE  trace' \in Seq(TraceSteps)
    <3>1. Wasted \in TraceSteps
      BY DEF Wasted, TraceSteps, Controls
    <3>2. ASSUME NEW tool \in {"finish", "extract", "click", "type_text", "navigate"},
                 NEW about \in Controls \cup Outputs, NEW text \in Texts \cup {NoText}
          PROVE  DiscoveryStep(tool, about, text) \in TraceSteps
      BY DEF DiscoveryStep, TraceSteps
    <3>3. \/ trace' = trace
          \/ trace' = trace \o <<>>
          \/ trace' = trace \o <<Wasted>>
          \/ \E tool \in {"finish", "extract", "click", "type_text", "navigate"},
                about \in Controls \cup Outputs, text \in Texts \cup {NoText} :
               \/ trace' = Append(trace, DiscoveryStep(tool, about, text))
               \/ trace' = trace \o <<DiscoveryStep(tool, about, text)>>
      BY <2>1
      DEF Answers, Nudged, Finishes, GivesUp, Misses, Refused, Extracts, Performs, Turn, Controls
    <3>4. PICK t \in Seq(TraceSteps) : t = trace
      OBVIOUS
    <3>5. ASSUME NEW step \in TraceSteps
          PROVE  t \o <<step>> \in Seq(TraceSteps) /\ Append(t, step) \in Seq(TraceSteps)
      OBVIOUS
    <3>6. t \o <<>> \in Seq(TraceSteps)
      OBVIOUS
    <3> QED
      BY <3>1, <3>2, <3>3, <3>4, <3>5, <3>6
  <2>2. CASE Stops \/ Asks \/ ModelFails \/ TimePasses \/ Compiles \/ UNCHANGED vars
    BY <2>2 DEF Stops, Asks, ModelFails, TimePasses, Compiles, vars
  <2> QED
    BY <2>1, <2>2 DEF Next, Loop
<1>3. trace \in Seq(TraceSteps) => ReplayReproducesRun
  <2> SUFFICES ASSUME trace \in Seq(TraceSteps)
               PROVE  ReplayReproducesRun
    OBVIOUS
  <2> DEFINE own == Lifted(trace)
  <2>1. ASSUME NEW arguments, NEW i \in CompiledAt(trace)
        PROVE  Bound(Value(trace, trace[i]), arguments) \in MayType(trace[i], arguments)
    <3>1. trace[i] \in TraceSteps
      BY DEF CompiledAt, Effective
    <3>2. PICK step \in TraceSteps : step = trace[i]
      BY <3>1
    <3> QED
      BY <3>2, ValuesAreBound
  <2>2. DOMAIN CompiledSteps(trace) = CompiledAt(trace)
    BY DEF CompiledSteps
  <2>3. \A i \in CompiledAt(trace) :
          /\ CompiledSteps(trace)[i].tool = trace[i].tool
          /\ CompiledSteps(trace)[i].about = trace[i].about
          /\ CompiledSteps(trace)[i].value = Value(trace, trace[i])
    BY DEF CompiledSteps, CompiledStep
  <2>4. ASSUME NEW arguments
        PROVE  Replayed(trace, arguments)
                 = [i \in CompiledAt(trace) |->
                      <<trace[i].tool, trace[i].about, Bound(Value(trace, trace[i]), arguments)>>]
    BY <2>2, <2>3 DEF Replayed
  <2>5. ASSUME NEW arguments
        PROVE  ReplayOf(trace, arguments).refused
               \/ /\ DOMAIN ReplayOf(trace, arguments).does = CompiledAt(trace)
                  /\ \A i \in CompiledAt(trace) :
                       \E text \in MayType(trace[i], arguments) :
                         ReplayOf(trace, arguments).does[i] = <<trace[i].tool, trace[i].about, text>>
    BY <2>1, <2>4 DEF ReplayOf
  <2>6. CASE ReplayOf(trace, own).refused
    <3>1. ~Validates(trace, own)
      BY <2>6 DEF ReplayOf
    <3>2. DOMAIN own = InputNames(trace)
      BY DEF Lifted
    <3>3. PICK name \in InputNames(trace) : ~Accepts(own[name], own[name])
      BY <3>1, <3>2 DEF Validates
    <3>4. own[name] \in (Numerals \ Identifiers) \cup (Decimals \ Numbers)
      BY <3>3 DEF Accepts
    <3>5. \E i \in CompiledAt(trace) :
            trace[i].text \in (Numerals \ Identifiers) \cup (Decimals \ Numbers)
      BY <3>4, LiftedFromCompiled
    <3> QED
      BY <2>5, <2>6, <3>5 DEF ReplayReproducesRun
  <2>7. CASE ~ReplayOf(trace, own).refused
    <3>1. ReplayOf(trace, own).does = Replayed(trace, own)
      BY <2>7 DEF ReplayOf
    <3>2. ASSUME NEW i \in CompiledAt(trace)
          PROVE  MayType(trace[i], own) = {trace[i].text}
      BY DEF MayType
    <3>3. \A i \in CompiledAt(trace) : Bound(Value(trace, trace[i]), own) = trace[i].text
      BY <2>1, <3>2
    <3>4. ReplayOf(trace, own).does = RunOf(trace)
      BY <2>4, <3>1, <3>3 DEF RunOf
    <3> QED
      BY <2>5, <2>7, <3>4 DEF ReplayReproducesRun
  <2> QED
    BY <2>6, <2>7
<1> QED
  BY <1>1, <1>2, <1>3, PTL DEF Spec

-----------------------------------------------------------------------------
(* The records a suite of n repeats may come to.                           *)
Records(n) == [(1 .. n) \X Cases -> Behaviours]

-----------------------------------------------------------------------------
(* Where the input is not masked, a wrong action is counted exactly if a   *)
(* run told what is not so.                                                *)
LEMMA WrongIsWrong ==
  ASSUME NEW on \in Contents \ Masked, NEW n \in Repeats, NEW kept,
         NEW records \in Records(n)
  PROVE  Scored(on, records, kept).wrong = Facts(records).misled
<1> DEFINE Misleads(run) ==
      /\ records[run].status \in {"success", "business_outcome"}
      /\ <<records[run].status, records[run].answer>>
           # <<Truth[run[2]].status, Truth[run[2]].answer>>
<1>1. ASSUME NEW run \in DOMAIN records
      PROVE  IsWrong(on, run, records[run]) <=> Misleads(run)
  <2>1. run[2] \in Cases
    BY DEF Records
  <2>2. Truth[run[2]].status \in {"success", "business_outcome"}
    BY <2>1, EvaluationAssumption
  <2> QED
    BY <2>2 DEF IsWrong
<1>2. (\E run \in DOMAIN records : IsWrong(on, run, records[run]))
        = (\E run \in DOMAIN records : Misleads(run))
  BY <1>1
<1>3. Scored(on, records, kept).wrong = \E run \in DOMAIN records : IsWrong(on, run, records[run])
  BY DEF Scored
<1>4. Facts(records).misled = \E run \in DOMAIN records : Misleads(run)
  BY DEF Facts
<1> QED
  BY <1>2, <1>3, <1>4

(* Replay is called non-deterministic exactly if its decisions are not a   *)
(* function of the member: nothing of an earlier suite is in the           *)
(* comparison.                                                             *)
LEMMA DifferenceIsFound ==
  ASSUME NEW on \in Contents \ Masked, NEW n \in Repeats, NEW kept,
         NEW records \in Records(n)
  PROVE  /\ (Scored(on, records, kept).determinism = "fails") = Facts(records).differ
         /\ \A x, y \in DOMAIN records :
              x[2] = y[2] /\ DecisionTrace(records[x]) # DecisionTrace(records[y]) =>
                Facts(records).differ
<1> DEFINE runs == DOMAIN records
           went(run) == DecisionTrace(records[run])
           traced(run) == <<LeftInDirectory(run, kept), went(run)>>
           pairs == {p \in runs \X runs : p[1] # p[2] /\ Inputs(on, p[1]) = Inputs(on, p[2])}
           fails == \E p \in pairs : traced(p[1]) # traced(p[2])
           unlike == \E x, y \in runs : x[2] = y[2] /\ went(x) # went(y)
           decides(decided) == \A run \in runs : went(run) = decided[run[2]]
           decisions == {went(run) : run \in runs}
<1>1. Determinism(on, records, kept) = IF fails THEN "fails"
                                       ELSE IF pairs = {} THEN "unmeasured" ELSE "holds"
  BY DEF Determinism
<1>2. fails <=> unlike
  <2>1. ASSUME NEW p \in pairs, traced(p[1]) # traced(p[2])
        PROVE  unlike
    BY <2>1 DEF Inputs, LeftInDirectory
  <2>2. ASSUME NEW x \in runs, NEW y \in runs, x[2] = y[2], went(x) # went(y)
        PROVE  fails
    <3>1. <<x, y>> \in pairs
      BY <2>2 DEF Inputs
    <3>2. traced(x) # traced(y)
      BY <2>2
    <3> QED
      BY <3>1, <3>2
  <2> QED
    BY <2>1, <2>2
<1>3. unlike => \A decided \in [Cases -> decisions] : ~decides(decided)
  OBVIOUS
<1>4. ASSUME ~unlike
      PROVE  \E decided \in [Cases -> decisions] : decides(decided)
  <2> DEFINE decided == [c \in Cases |-> went(<<1, c>>)]
  <2>1. \A c \in Cases : <<1, c>> \in runs
    <3>1. 1 \in 1 .. n
      <4>1. n \in Nat \ {0}
        BY EvaluationAssumption
      <4> QED
        BY <4>1
    <3>2. runs = (1 .. n) \X Cases
      BY DEF Records
    <3> QED
      BY <3>1, <3>2
  <2>2. \A run \in runs : run[2] \in Cases
    BY DEF Records
  <2>3. decided \in [Cases -> decisions]
    BY <2>1
  <2>4. ASSUME NEW run \in runs
        PROVE  went(run) = decided[run[2]]
    <3>1. <<1, run[2]>> \in runs /\ run[2] \in Cases /\ <<1, run[2]>>[2] = run[2]
      BY <2>1, <2>2
    <3>2. went(run) = went(<<1, run[2]>>)
      BY <1>4, <3>1
    <3> QED
      BY <3>1, <3>2
  <2> QED
    BY <2>3, <2>4
<1>5. Facts(records).differ = ~\E decided \in [Cases -> decisions] : decides(decided)
  BY DEF Facts
<1>6. Facts(records).differ <=> unlike
  BY <1>3, <1>4, <1>5
<1>7. (Determinism(on, records, kept) = "fails") <=> fails
  BY <1>1
<1>8. Scored(on, records, kept).determinism = Determinism(on, records, kept)
  BY DEF Scored
<1>9. (Scored(on, records, kept).determinism = "fails") = Facts(records).differ
  BY <1>2, <1>5, <1>6, <1>7, <1>8
<1> QED
  BY <1>6, <1>9

(* Two answers about one member are either two decisions, or two outputs   *)
(* of which one at least is wrong.                                         *)
LEMMA DivisionIsSeen ==
  ASSUME NEW n \in Repeats, NEW records \in Records(n), Facts(records).divided
  PROVE  \/ Facts(records).misled
         \/ \E x, y \in DOMAIN records :
              x[2] = y[2] /\ DecisionTrace(records[x]) # DecisionTrace(records[y])
<1>1. PICK x \in DOMAIN records, y \in DOMAIN records :
        /\ x[2] = y[2]
        /\ <<records[x].status, records[x].answer>> # <<records[y].status, records[y].answer>>
  BY DEF Facts
<1>2. CASE records[x].status = "success" /\ records[y].status = "success"
  <2>1. \E run \in {x, y} :
          /\ records[run].status \in {"success", "business_outcome"}
          /\ <<records[run].status, records[run].answer>>
               # <<Truth[run[2]].status, Truth[run[2]].answer>>
    BY <1>1, <1>2
  <2> QED
    BY <1>1, <2>1 DEF Facts
<1>3. CASE records[x].status # records[y].status
  <2>1. DecisionTrace(records[x]) # DecisionTrace(records[y])
    BY <1>3 DEF DecisionTrace
  <2> QED
    BY <1>1, <2>1
<1>4. CASE records[x].status = records[y].status /\ records[x].status # "success"
  <2>1. DecisionTrace(records[x]) # DecisionTrace(records[y])
    BY <1>1, <1>4 DEF DecisionTrace
  <2> QED
    BY <1>1, <2>1
<1> QED
  BY <1>2, <1>3, <1>4

(* A score of content that shows its inputs says what its runs did, and    *)
(* counts them.                                                            *)
LEMMA ScoresAreTrue ==
  ASSUME NEW on \in Contents, NEW n \in Repeats, NEW kept \in {0} \cup Repeats,
         NEW score \in Scores[on][n][kept]
  PROVE  /\ score.runs \in Nat
         /\ on \notin Masked =>
              /\ score.wrong = score.facts.misled
              /\ (score.determinism = "fails") = score.facts.differ
              /\ score.facts.divided => score.wrong \/ score.determinism = "fails"
<1>1. PICK records \in Records(n) : score = Scored(on, records, kept)
  <2>1. Scores[on][n][kept] = {Scored(on, records, kept) : records \in Records(n)}
    BY DEF Scores, Records
  <2> QED
    BY <2>1
<1>2. score.runs \in Nat
  <2>1. DOMAIN records = (1 .. n) \X Cases /\ n \in Nat
    BY EvaluationAssumption DEF Records
  <2>2. IsFiniteSet(DOMAIN records)
    <3>1. IsFiniteSet(1 .. n) /\ IsFiniteSet(Cases)
      BY <2>1, 1 \in Int, n \in Int, FS_Interval, EvaluationAssumption
    <3> QED
      BY <2>1, <3>1, FS_Product
  <2> QED
    BY <1>1, <2>2, FS_CardinalityType DEF Scored
<1>3. score.facts = Facts(records)
  BY <1>1 DEF Scored
<1>4. ASSUME on \notin Masked
      PROVE  /\ score.wrong = score.facts.misled
             /\ (score.determinism = "fails") = score.facts.differ
             /\ score.facts.divided => score.wrong \/ score.determinism = "fails"
  <2>1. /\ score.wrong = score.facts.misled
        /\ (score.determinism = "fails") = score.facts.differ
    BY <1>1, <1>3, <1>4, WrongIsWrong, DifferenceIsFound
  <2>2. score.facts.divided => score.facts.misled \/ score.facts.differ
    BY <1>1, <1>3, <1>4, DivisionIsSeen, DifferenceIsFound
  <2> QED
    BY <2>1, <2>2
<1> QED
  BY <1>2, <1>4

-----------------------------------------------------------------------------
SuiteRecord ==
  [name : Suites, repeats : Repeats, on : Contents, disturbed : BOOLEAN]

(* A document on disk holds a score of the content it is on, and its hash  *)
(* is that content's or names none, unless the artifact was written.       *)
Grounded(e) ==
  /\ e.on \in Contents
  /\ \E n \in Repeats, kept \in {0} \cup Repeats : e.score \in Scores[e.on][n][kept]
  /\ e.disturbed \/ e.hash \in {e.on, "the bound copy"}

EInv ==
  /\ file \in Artifacts
  /\ suite # NoSuite =>
       /\ suite \in SuiteRecord
       /\ suite.disturbed \/ file.content = suite.on
  /\ traces \in [Suites -> {0} \cup Repeats]
  /\ DOMAIN evaluations = Suites
  /\ \A s \in Suites : evaluations[s] # NoEvaluation => Grounded(evaluations[s])

LEMMA InitEInv == EvaluationInit => EInv
BY DEF EvaluationInit, EInv, Artifacts

(* A suite that ends leaves a document that is grounded, if the artifact   *)
(* it reads then is readable.                                              *)
LEMMA EndingIsGrounded ==
  ASSUME EInv, SuiteEnds
  PROVE  EInv'
<1>1. suite \in SuiteRecord /\ (suite.disturbed \/ file.content = suite.on)
  BY DEF EInv, SuiteEnds
<1>2. traces' \in [Suites -> {0} \cup Repeats]
  BY <1>1 DEF EInv, SuiteEnds, Kept, SuiteRecord
<1>3. PICK score \in Scores[suite.on][suite.repeats][traces[suite.name]] :
        evaluations' = [evaluations EXCEPT ![suite.name] =
          [hash |-> SourceHash, score |-> score, on |-> suite.on, disturbed |-> suite.disturbed]]
  BY DEF SuiteEnds
<1> DEFINE e == [hash |-> SourceHash, score |-> score, on |-> suite.on, disturbed |-> suite.disturbed]
<1>4. Grounded(e)
  <2>1. suite.disturbed \/ SourceHash \in {suite.on, "the bound copy"}
    BY <1>1 DEF SuiteEnds, Readable, HashIsValid, SourceHash
  <2>2. traces[suite.name] \in {0} \cup Repeats
    BY <1>1 DEF EInv, SuiteRecord
  <2> QED
    BY <1>1, <1>3, <2>1, <2>2 DEF Grounded, SuiteRecord
<1>5. \A s \in Suites : evaluations'[s] \in {e, evaluations[s]}
  BY <1>1, <1>3 DEF EInv, SuiteRecord
<1> HIDE DEF e
<1> QED
  BY <1>2, <1>3, <1>4, <1>5 DEF EInv, SuiteEnds

(* Every other step leaves the documents, or does away with one.           *)
LEMMA StepEInv == EInv /\ [EvaluationNext]_evaluationVars => EInv'
<1> SUFFICES ASSUME EInv, [EvaluationNext]_evaluationVars PROVE EInv'
  OBVIOUS
<1>1. ASSUME NEW document \in Artifacts, Edit(document)
      PROVE  EInv'
  <2>1. suite # NoSuite => suite' = [suite EXCEPT !.disturbed = TRUE]
    BY <1>1 DEF Edit
  <2>2. suite' # NoSuite => suite' \in SuiteRecord /\ suite'.disturbed
    BY <1>1, <2>1 DEF EInv, Edit, SuiteRecord
  <2> QED
    BY <1>1, <2>2 DEF EInv, Edit
<1>2. ASSUME NEW s \in Suites, NEW n \in Repeats, SuiteStarts(s, n)
      PROVE  EInv'
  <2>1. suite' \in SuiteRecord /\ file.content = suite'.on
    BY <1>2 DEF EInv, SuiteStarts, SuiteRecord, Artifacts
  <2> QED
    BY <1>2, <2>1 DEF EInv, SuiteStarts
<1>3. CASE SuiteEnds
  BY <1>3, EndingIsGrounded
<1>4. CASE SuiteIsLost
  <2>1. suite \in SuiteRecord
    BY <1>4 DEF EInv, SuiteIsLost
  <2>2. traces' \in [Suites -> {0} \cup Repeats]
    BY <1>4, <2>1 DEF EInv, SuiteIsLost, Kept, SuiteRecord
  <2>3. /\ DOMAIN evaluations' = Suites
        /\ \A s \in Suites : evaluations'[s] \in {evaluations[s], NoEvaluation}
    BY <1>4, <2>1 DEF EInv, SuiteIsLost, SuiteRecord
  <2> QED
    BY <1>4, <2>2, <2>3 DEF EInv, SuiteIsLost
<1>5. CASE (\E fromEval \in BOOLEAN : Approve(fromEval)) \/ UNCHANGED evaluationVars
  BY <1>5 DEF EInv, Approve, evaluationVars
<1> QED
  BY <1>1, <1>2, <1>3, <1>4, <1>5 DEF EvaluationNext

(* A grounded document says what its runs did.                             *)
LEMMA GroundedIsTrue ==
  ASSUME NEW e, Grounded(e)
  PROVE  /\ e.score.runs \in Nat
         /\ e.on \notin Masked =>
              /\ e.score.wrong = e.score.facts.misled
              /\ (e.score.determinism = "fails") = e.score.facts.differ
              /\ e.score.facts.divided => e.score.wrong \/ e.score.determinism = "fails"
<1>1. PICK n \in Repeats, kept \in {0} \cup Repeats : e.score \in Scores[e.on][n][kept]
  BY DEF Grounded
<1>2. PICK on \in Contents : on = e.on
  BY DEF Grounded
<1> QED
  BY <1>1, <1>2, ScoresAreTrue

(* For any contents, cases and behaviours: an evaluation calls replay      *)
(* non-deterministic exactly if its runs' decisions were not a function of *)
(* the member, and where two runs told two things of one member, it does   *)
(* or it counts a wrong action.                                            *)
THEOREM EvaluationsAreTrue == EvaluationSpec => []EvaluationSaysWhatHappened
<1>1. EInv => EvaluationSaysWhatHappened
  BY GroundedIsTrue DEF EInv, EvaluationSaysWhatHappened
<1> QED
  BY <1>1, InitEInv, StepEInv, PTL DEF EvaluationSpec

-----------------------------------------------------------------------------
Better(s, t) ==
  \/ evaluations[s].score.runs > evaluations[t].score.runs
  \/ evaluations[s].score.runs = evaluations[t].score.runs /\ s <= t

(* Of any documents found there is a first one with the most runs: what    *)
(* is better than it is a smaller and smaller set of suites.               *)
LEMMA BestExists ==
  ASSUME EInv, NEW found \in SUBSET {s \in Suites : evaluations[s] # NoEvaluation}, found # {}
  PROVE  Best(found) \in found
<1> DEFINE above(s) == {t \in found : ~Better(s, t)}
           aboves == {above(s) : s \in found}
<1>0. NumSuites \in Nat
  BY EvaluationAssumption
<1>1. ASSUME NEW s \in found
      PROVE  s \in Nat /\ evaluations[s].score.runs \in Nat
  <2>1. s \in Nat
    BY <1>0 DEF Suites
  <2>2. Grounded(evaluations[s])
    BY DEF EInv
  <2> QED
    BY <2>1, <2>2, GroundedIsTrue
<1>2. IsFiniteSet(found)
  <2>1. IsFiniteSet(Suites)
    <3>1. 1 \in Int /\ NumSuites \in Int
      BY <1>0
    <3> QED
      BY <3>1, FS_Interval DEF Suites
  <2> QED
    BY <2>1, FS_Subset
<1>3. aboves \subseteq FiniteSubsetsOf(found) /\ aboves # {}
  <2>1. ASSUME NEW s \in found
        PROVE  above(s) \in FiniteSubsetsOf(found)
    <3>1. above(s) \in SUBSET found
      OBVIOUS
    <3>2. IsFiniteSet(above(s))
      BY <1>2, <3>1, FS_Subset
    <3> QED
      BY <3>1, <3>2 DEF FiniteSubsetsOf
  <2> QED
    BY <2>1
<1>4. PICK least \in aboves : \A other \in aboves : <<other, least>> \notin StrictSubsetOrdering(found)
  BY <1>3, WFMin, FS_StrictSubsetOrderingWellFounded
<1>5. PICK s \in found : least = above(s)
  OBVIOUS
<1>6. ASSUME NEW t \in above(s)
      PROVE  FALSE
  <2>1. above(t) \subseteq above(s) /\ t \notin above(t)
    BY <1>1, <1>6 DEF Better
  <2>2. <<above(t), above(s)>> \in StrictSubsetOrdering(found)
    BY <1>6, <2>1 DEF StrictSubsetOrdering
  <2> QED
    BY <1>4, <1>5, <1>6, <2>2
<1>7. \A t \in found : Better(s, t)
  BY <1>6
<1> QED
  BY <1>7 DEF Best, Better

(* An approval on the evidence rests on runs of what it approves.          *)
THEOREM ApprovalsRestOnTheirOwnRuns == EvaluationSpec => ApprovedOnItsOwnEvidence
<1> DEFINE Rests ==
      \E s \in Suites :
         LET e == evaluations[s]
         IN  /\ e # NoEvaluation /\ e.score.runs >= 5
             /\ e.disturbed \/ e.on = file.content
             /\ e.on \in Masked \/ ~e.score.facts.misled
<1>1. EInv /\ [EvaluationNext]_evaluationVars => [Approve(TRUE) => Rests]_evaluationVars
  <2> SUFFICES ASSUME EInv, Approve(TRUE)
               PROVE  Rests
    OBVIOUS
  <2> DEFINE s == Best(Measured(file.hash))
  <2>1. Measured(file.hash) # {} /\ Recommended(evaluations[s].score)
    BY DEF Approve, Evidence
  <2>2. s \in Measured(file.hash)
    BY <2>1, BestExists DEF Measured
  <2>3. /\ s \in Suites /\ evaluations[s] # NoEvaluation
        /\ evaluations[s].hash = file.content /\ file.content \in Contents
    BY <2>2 DEF Measured, Approve, HashIsValid, EInv, Artifacts
  <2> HIDE DEF s
  <2>4. Grounded(evaluations[s])
    BY <2>3 DEF EInv
  <2>5. evaluations[s].disturbed \/ evaluations[s].on = file.content
    BY <2>3, <2>4, EvaluationAssumption DEF Grounded
  <2>6. evaluations[s].on \in Masked \/ ~evaluations[s].score.facts.misled
    BY <2>1, <2>4, GroundedIsTrue DEF Recommended
  <2> QED
    BY <2>1, <2>3, <2>5, <2>6 DEF Recommended
<1> QED
  BY <1>1, InitEInv, StepEInv, PTL DEF EvaluationSpec, ApprovedOnItsOwnEvidence
=============================================================================
