---------------------------- MODULE ReplayProofs ----------------------------
(***************************************************************************)
(* What holds of every replay, for every plan, every set of rules and      *)
(* remedies and every total: of one run (ReplayExecutor), of a run that a  *)
(* model helped over one step (AssistedReplay), and of a run that hands    *)
(* its session to an operator and is resumed (SupervisedRun).              *)
(***************************************************************************)
EXTENDS AssistedReplay, SupervisedRun, SequenceTheorems, FiniteSetTheorems, TLAPS

Ats == {"admission", "navigation", "observe", "dispatch", "settle", "remedy", "checkpoint"}

FrameRecord ==
  [ plan     : {"run", "remedy"},
    mode     : {"run", "resume"},
    at       : Ats,
    index    : Nat,
    last     : Nat,
    attempts : Nat,
    recovery : Nat,
    outputs  : SUBSET Nat,
    left     : Seq({"action", "capability"}) ]

(* base: what was spent before this run, which a resume that does not      *)
(* carry the count over forgets.                                           *)
Counted(base) ==
  /\ frames \in Seq(FrameRecord)
  /\ Len(frames) \in 0 .. 2
  /\ spent \in base .. base + MaxRecoveryTotal
  /\ Active => base + Top.recovery = spent

-----------------------------------------------------------------------------
(* A new _State is a frame.                                                *)
LEMMA NewFrameType ==
  ASSUME NEW plan \in {"run", "remedy"}, NEW mode \in {"run", "resume"},
         NEW from \in Nat, NEW outputs \in SUBSET Nat, NEW recovery \in Nat
  PROVE  /\ NewFrame(plan, mode, from, outputs, recovery) \in FrameRecord
         /\ NewFrame(plan, mode, from, outputs, recovery).recovery = recovery
BY DEF NewFrame, FrameRecord, Ats

(* Moving a frame on leaves it a frame with the same count.                *)
LEMMA EnteredType ==
  ASSUME NEW f \in FrameRecord
  PROVE  Entered(f) \in FrameRecord /\ Entered(f).recovery = f.recovery
BY DEF Entered, FrameRecord, Ats

(* So does moving it to its next step.                                     *)
LEMMA AdvanceType ==
  ASSUME NEW f \in FrameRecord
  PROVE  Advance(f) \in FrameRecord /\ Advance(f).recovery = f.recovery
<1>1. f.index + 1 \in Nat
  BY DEF FrameRecord
<1> QED
  BY <1>1 DEF Advance, FrameRecord, Ats

(* The top of the stack is a frame.                                        *)
LEMMA TopType ==
  ASSUME NEW base \in Nat, Counted(base), Active
  PROVE  Top \in FrameRecord
BY DEF Counted, Active, Top

(* Replacing the top by a frame that carries the new count keeps the       *)
(* invariant.                                                              *)
LEMMA TopReplaced ==
  ASSUME NEW base \in Nat, Counted(base), Active, NEW f \in FrameRecord, Becomes(f),
         base + f.recovery = spent', spent' \in base .. base + MaxRecoveryTotal
  PROVE  Counted(base)'
<1>1. frames \in Seq(FrameRecord) /\ Len(frames) \in 1 .. Len(frames)
  BY DEF Counted, Active
<1>2. frames' = [frames EXCEPT ![Len(frames)] = f]
  BY DEF Becomes
<1>3. /\ frames' \in Seq(FrameRecord)
      /\ Len(frames') = Len(frames)
      /\ frames'[Len(frames)] = f
  BY <1>1, <1>2, ExceptSeq
<1> QED
  BY <1>3 DEF Counted, Top, Active

(* An ended run has no frame to count by.                                  *)
LEMMA Ended ==
  ASSUME NEW base \in Nat, Counted(base), frames' = <<>>, spent' = spent
  PROVE  Counted(base)'
BY DEF Counted, Active

(* Every way to fail or to answer ends the run.                            *)
LEMMA FailureEnds ==
  ASSUME NEW base \in Nat, Counted(base), UNCHANGED spent, NEW f,
         \/ Answers(f)
         \/ \E code, named : Fails(f, code, named)
  PROVE  Counted(base)'
BY Ended DEF Answers, Fails

(* Steps that only move the top frame on.                                  *)
LEMMA MovingOn ==
  ASSUME NEW base \in Nat, Counted(base),
         \/ Admitted \/ Navigated \/ ObserveExpected \/ RemedyDone \/ RemedyActs
         \/ ConditionHolds \/ Dispatched \/ Extracted \/ Settled
  PROVE  Counted(base)'
<1> DEFINE Moved(f) == f \in FrameRecord /\ f.recovery = Top.recovery
<1>1. Active /\ UNCHANGED spent
  BY DEF Admitted, Navigated, ObserveExpected, AtStep, RemedyDone, RemedyActs, AtRemedy,
     ConditionHolds, Dispatched, Extracted, AtDispatch, Settled
<1>2. Top \in FrameRecord
  BY <1>1, TopType
<1>3. Moved(Entered(Top)) /\ Moved(Advance(Top))
  BY <1>2, EnteredType, AdvanceType
<1>4. ASSUME NEW f, Moved(f), Becomes(f)
      PROVE  Counted(base)'
  BY <1>1, <1>4, TopReplaced DEF Counted
<1>5. ASSUME NEW at \in Ats
      PROVE  Moved([Top EXCEPT !.at = at]) /\ Moved([Here EXCEPT !.at = at])
  BY <1>2 DEF FrameRecord, Here
<1>6. CASE Admitted \/ Navigated
  BY <1>3, <1>4, <1>5, <1>6 DEF Admitted, Navigated, Ats
<1>7. CASE ObserveExpected \/ RemedyDone \/ Dispatched
  BY <1>4, <1>5, <1>7 DEF ObserveExpected, RemedyDone, Dispatched, Ats
<1>8. CASE RemedyActs
  <2>1. Top.left # <<>> /\ Top.left \in Seq({"action", "capability"})
    BY <1>2, <1>8 DEF RemedyActs, FrameRecord
  <2>2. Tail(Top.left) \in Seq({"action", "capability"})
    BY <2>1, HeadTailProperties
  <2>3. Moved([Top EXCEPT !.left = Tail(@)])
    BY <1>2, <2>2 DEF FrameRecord
  <2> QED
    BY <1>4, <1>8, <2>3 DEF RemedyActs
<1>9. CASE Extracted
  <2>1. Moved([Top EXCEPT !.at = "settle", !.outputs = @ \cup {Top.index}])
    BY <1>2 DEF FrameRecord, Ats
  <2> QED
    BY <1>4, <1>9, <2>1 DEF Extracted
<1>10. CASE ConditionHolds \/ Settled
  BY <1>3, <1>4, <1>10 DEF ConditionHolds, Settled
<1> QED
  BY <1>6, <1>7, <1>8, <1>9, <1>10

(* A recovery is counted, and refused when the count passes the total.     *)
LEMMA RecoveryCounted ==
  ASSUME NEW base \in Nat, Counted(base), NEW rule \in Rules, ObserveRecoverable(rule)
  PROVE  Counted(base)'
<1> DEFINE f == [Here EXCEPT !.attempts = @ + 1, !.recovery = @ + 1]
<1>1. Active /\ Top \in FrameRecord /\ base + Top.recovery = spent
  BY TopType DEF ObserveRecoverable, AtStep, Counted
<1>2. Here \in FrameRecord /\ Here.recovery = Top.recovery
  BY <1>1 DEF Here, FrameRecord
<1>3. /\ f \in FrameRecord
      /\ f.recovery = Here.recovery + 1
      /\ base + f.recovery = spent + 1
  <2>1. Here.attempts + 1 \in Nat /\ Here.recovery + 1 \in Nat /\ Here.recovery \in Nat
    BY <1>2 DEF FrameRecord
  <2>2. f \in FrameRecord /\ f.recovery = Here.recovery + 1
    BY <1>2, <2>1 DEF FrameRecord
  <2> QED
    BY <1>1, <1>2, <2>1, <2>2
<1>4. CASE Exhausted(f, rule)
  BY <1>4, FailureEnds DEF ObserveRecoverable
<1>5. CASE ~Exhausted(f, rule)
  <2>1. [f EXCEPT !.at = "remedy", !.left = Remedies[rule]] \in FrameRecord
    BY <1>3, ReplayAssumption DEF FrameRecord, Ats
  <2>2. base + [f EXCEPT !.at = "remedy", !.left = Remedies[rule]].recovery = spent + 1
    BY <1>2, <1>3 DEF FrameRecord
  <2>3. spent' = spent + 1 /\ spent + 1 \in base .. base + MaxRecoveryTotal
    <3>1. f.recovery \in Nat
      <4> HIDE DEF f
      <4> QED
        BY <1>3 DEF FrameRecord
    <3>2. f.recovery <= MaxRecoveryTotal
      <4> HIDE DEF f
      <4> QED
        BY <1>5, <3>1, ReplayAssumption DEF Exhausted
    <3>3. spent' = spent + 1
      BY <1>5 DEF ObserveRecoverable
    <3> QED
      BY <1>3, <3>1, <3>2, <3>3, ReplayAssumption DEF Counted
  <2>4. Becomes([f EXCEPT !.at = "remedy", !.left = Remedies[rule]])
    BY <1>5 DEF ObserveRecoverable
  <2> QED
    BY <1>1, <2>1, <2>2, <2>3, <2>4, TopReplaced
<1> QED
  BY <1>4, <1>5

(* A remedy's capability starts from its run's count, ...                  *)
LEMMA RemedyStartsFromCount ==
  ASSUME NEW base \in Nat, Counted(base), CapabilityRuns
  PROVE  Counted(base)'
<1>1. Active /\ Top \in FrameRecord /\ base + Top.recovery = spent /\ spent' = spent
  BY TopType DEF CapabilityRuns, AtRemedy, Counted
<1>2. Top.left # <<>> /\ Top.left \in Seq({"action", "capability"})
  BY <1>1 DEF CapabilityRuns, FrameRecord
<1>3. Tail(Top.left) \in Seq({"action", "capability"})
  BY <1>2, HeadTailProperties
<1>4. [Top EXCEPT !.left = Tail(@)] \in FrameRecord
  BY <1>1, <1>3 DEF FrameRecord
<1> DEFINE n == NewFrame("remedy", "run", 1, {}, Top.recovery)
<1>5. n \in FrameRecord /\ base + n.recovery = spent
  <2>1. Top.recovery \in Nat
    BY <1>1 DEF FrameRecord
  <2>2. n \in FrameRecord /\ n.recovery = Top.recovery
    BY <2>1, NewFrameType
  <2> QED
    BY <1>1, <2>2
<1>6. Entered(n) \in FrameRecord /\ base + Entered(n).recovery = spent
  BY <1>5, EnteredType
<1>7. frames' = <<[Top EXCEPT !.left = Tail(@)], Entered(n)>>
  BY DEF CapabilityRuns
<1>8. frames' \in Seq(FrameRecord) /\ Len(frames') = 2 /\ frames'[2] = Entered(n)
  BY <1>4, <1>6, <1>7
<1> QED
  BY <1>1, <1>6, <1>8 DEF Counted, Top, Active

(* ... and its run carries on from the remedy's.                           *)
LEMMA RunTakesCountBack ==
  ASSUME NEW base \in Nat, Counted(base), CheckpointHolds
  PROVE  Counted(base)'
<1>1. Active /\ Top \in FrameRecord /\ base + Top.recovery = spent /\ spent' = spent
  BY TopType DEF CheckpointHolds, AtCheckpoint, Counted
<1>2. CASE ~Nested
  BY <1>1, <1>2, Ended DEF CheckpointHolds
<1>3. CASE Nested
  <2>1. frames[1] \in FrameRecord
    BY <1>3 DEF Nested, Counted
  <2>2. Top.recovery \in Nat
    BY <1>1 DEF FrameRecord
  <2>3. Answering(Top) \in FrameRecord /\ base + Answering(Top).recovery = spent
    BY <1>1, <1>3, <2>1, <2>2 DEF Answering, FrameRecord
  <2>4. frames' = <<Answering(Top)>>
    BY <1>3 DEF CheckpointHolds
  <2>5. frames' \in Seq(FrameRecord) /\ Len(frames') = 1 /\ frames'[1] = Answering(Top)
    BY <2>3, <2>4
  <2> QED
    BY <1>1, <2>3, <2>5 DEF Counted, Top, Active
<1> QED
  BY <1>2, <1>3

(* Steps that end the run.                                                 *)
LEMMA Ending ==
  ASSUME NEW base \in Nat, Counted(base),
         \/ \E code \in Codes :
              \/ Refused(code) \/ NotReached(code) \/ RemedyRefused(code)
              \/ CapabilityRefused(code) \/ DispatchFails(code)
         \/ Overrun \/ ObserveOutcome \/ ObserveUnexpected \/ BindingFails
         \/ ConditionFails \/ NeverSettles \/ EffectMissing
         \/ CheckpointOutcome \/ CheckpointFails
  PROVE  Counted(base)'
<1>1. CASE \E code \in Codes :
             \/ Refused(code) \/ NotReached(code) \/ RemedyRefused(code)
             \/ CapabilityRefused(code) \/ DispatchFails(code)
  BY <1>1, FailureEnds DEF Refused, NotReached, RemedyRefused, CapabilityRefused,
     DispatchFails
<1>2. CASE Overrun \/ ObserveOutcome \/ ObserveUnexpected \/ BindingFails
  BY <1>2, FailureEnds DEF Overrun, ObserveOutcome, ObserveUnexpected, BindingFails
<1>3. CASE ConditionFails \/ NeverSettles \/ EffectMissing
  BY <1>3, FailureEnds DEF ConditionFails, NeverSettles, EffectMissing
<1>4. CASE CheckpointOutcome \/ CheckpointFails
  BY <1>4, FailureEnds DEF CheckpointOutcome, CheckpointFails
<1> QED
  BY <1>1, <1>2, <1>3, <1>4

(* A run starts at no recoveries.                                          *)
LEMMA Starting ==
  ASSUME NEW base \in Nat, Counted(base), Run
  PROVE  Counted(0)'
<1> DEFINE n == NewFrame("run", "run", 1, {}, 0)
<1>1. n \in FrameRecord /\ n.recovery = 0
  BY NewFrameType
<1>2. frames' = <<n>> /\ spent' = 0
  BY DEF Run
<1>3. frames' \in Seq(FrameRecord) /\ Len(frames') = 1 /\ frames'[1] = n
  BY <1>1, <1>2
<1> QED
  BY <1>1, <1>2, <1>3, ReplayAssumption DEF Counted, Top, Active

-----------------------------------------------------------------------------
(* Every step of the executor's loop keeps the count.                      *)
LEMMA StepsCount ==
  ASSUME NEW base \in Nat, Counted(base), Step
  PROVE  Counted(base)'
<1>1. CASE Beginning
  BY <1>1, MovingOn, Ending DEF Beginning
<1>2. CASE Dispatching
  BY <1>2, MovingOn, Ending DEF Dispatching
<1>3. CASE Deciding
  BY <1>3, MovingOn, Ending, RecoveryCounted, RemedyStartsFromCount, RunTakesCountBack
     DEF Deciding
<1> QED
  BY <1>1, <1>2, <1>3 DEF Step

(* So does a step that leaves the executor alone.                          *)
LEMMA StandingStill ==
  ASSUME NEW base \in Nat, Counted(base), UNCHANGED executor
  PROVE  Counted(base)'
BY DEF executor, Counted, Top, Active

(* However rules, remedies and the remedies' own recoveries alternate, one *)
(* run attempts no more recoveries than max_recovery_attempts_total        *)
(* (executor.py, _recover and _run_capability).                            *)
THEOREM RecoveriesStayWithinTotal == ReplaySafety => []RecoveriesWithinTotal
<1>1. Idle => Counted(0)
  BY ReplayAssumption DEF Idle, Counted, Active
<1>2. Counted(0) /\ [ReplayNext]_executor => Counted(0)'
  BY Starting, StepsCount, StandingStill DEF ReplayNext
<1>3. Counted(0) => RecoveriesWithinTotal
  BY ReplayAssumption DEF Counted, RecoveriesWithinTotal
<1> QED
  BY <1>1, <1>2, <1>3, PTL DEF ReplaySafety

-----------------------------------------------------------------------------
(* A frame is at a step its plan has, or past the last at the checkpoint.  *)
Placed(f) ==
  /\ f.index \in 1 .. Len(PlanOf(f)) + 1
  /\ f.last \in 0 .. Len(PlanOf(f)) /\ f.last <= f.index
  /\ f.at \in {"observe", "remedy", "dispatch", "settle"} => f.index <= Len(PlanOf(f))
  /\ f.at = "checkpoint" => f.index = Len(PlanOf(f)) + 1

(* The run is below and its remedy above it; neither has returned.         *)
Stacked ==
  /\ frames \in Seq(FrameRecord) /\ Len(frames) \in 0 .. 2
  /\ Active => frames[1].plan = "run" /\ Placed(frames[1]) /\ result = NoResult
  /\ Nested => frames[2].plan = "remedy" /\ Placed(frames[2])

(* A result can be resumed from.                                           *)
Returned == result.outputs \in SUBSET Nat /\ result.recovery \in Nat

(* What a step may mean to the run: it ends short of success, ...          *)
EndsShort ==
  /\ Active /\ frames' = <<>> /\ UNCHANGED <<covered, read>>
  /\ result'.status \in {"failed", "needs_human", "business_outcome"}
  /\ \A named \in {result'.step, result'.index} :
       named \in 0 .. Len(Plan) /\ named <= frames[1].index
  /\ result'.status = "needs_human" => result'.outputs = frames[1].outputs
  /\ Returned'

(* ... it succeeds past its last step, ...                                 *)
Succeeds ==
  /\ Active /\ frames' = <<>> /\ UNCHANGED <<covered, read>>
  /\ frames[1].index = Len(Plan) + 1
  /\ result' = [NoResult EXCEPT !.status = "success", !.outputs = frames[1].outputs,
                                !.recovery = frames[1].recovery]

(* ... it stays where it is, ...                                           *)
Stays ==
  /\ frames'[1].index = frames[1].index
  /\ frames'[1].outputs = frames[1].outputs
  /\ frames'[1].at = "settle" => frames[1].at = "settle"
  /\ UNCHANGED <<covered, read>>

(* ... it performs the step it is at, which may read something, ...        *)
Performs ==
  /\ frames'[1].index = frames[1].index
  /\ frames[1].index \in 1 .. Len(Plan)
  /\ covered' = covered \cup {frames[1].index}
  /\ \/ /\ Plan[frames[1].index].does = "extract"
        /\ frames'[1].outputs = frames[1].outputs \cup {frames[1].index}
        /\ read' = read \cup {frames[1].index}
     \/ /\ Plan[frames[1].index].does # "extract"
        /\ frames'[1].outputs = frames[1].outputs
        /\ UNCHANGED read

(* ... or it moves on from a step that has settled or was only looked at.  *)
MovesOn ==
  /\ frames'[1].index = frames[1].index + 1
  /\ frames'[1].outputs = frames[1].outputs
  /\ frames'[1].at # "settle"
  /\ frames[1].index \in 1 .. Len(Plan)
  /\ UNCHANGED read
  /\ \/ frames[1].at = "settle" /\ UNCHANGED covered
     \/ /\ Plan[frames[1].index].does # "extract"
        /\ covered' = covered \cup {frames[1].index}

GoesOn == Active /\ Active' /\ UNCHANGED result /\ (Stays \/ Performs \/ MovesOn)

Shaped == EndsShort \/ Succeeds \/ GoesOn

-----------------------------------------------------------------------------
(* Plans are sequences of steps.                                           *)
LEMMA PlanType ==
  ASSUME NEW f \in FrameRecord
  PROVE  /\ PlanOf(f) \in Seq(StepRecord) /\ Len(PlanOf(f)) \in Nat
         /\ f.plan = "run" => PlanOf(f) = Plan
BY ReplayAssumption DEF PlanOf, FrameRecord

(* The frames of a stack, and the one on top.                              *)
LEMMA TopPlaced ==
  ASSUME Stacked, Active
  PROVE  /\ frames[1] \in FrameRecord /\ frames[1].plan = "run" /\ Placed(frames[1])
         /\ Top \in FrameRecord /\ Placed(Top)
         /\ ~Nested => Top = frames[1]
         /\ Top.plan = IF Nested THEN "remedy" ELSE "run"
<1>1. Len(frames) \in {1, 2}
  BY DEF Stacked, Active
<1>2. frames[1] \in FrameRecord /\ Top \in FrameRecord
  BY <1>1 DEF Stacked, Top
<1> QED
  BY <1>1, <1>2 DEF Stacked, Top, Nested

(* Replacing the top leaves the frame below alone.                         *)
LEMMA TopMoves ==
  ASSUME Stacked, Active, NEW f \in FrameRecord, Placed(f), f.plan = Top.plan,
         Becomes(f), UNCHANGED result
  PROVE  /\ Stacked' /\ Active'
         /\ frames'[1] = IF Nested THEN frames[1] ELSE f
<1>1. Len(frames) \in {1, 2}
  BY DEF Stacked, Active
<1>2. frames' = [frames EXCEPT ![Len(frames)] = f]
  BY DEF Becomes
<1>3. /\ frames' \in Seq(FrameRecord)
      /\ Len(frames') = Len(frames)
      /\ frames'[Len(frames)] = f
      /\ \A i \in 1 .. Len(frames) : i # Len(frames) => frames'[i] = frames[i]
  BY <1>1, <1>2, ExceptSeq DEF Stacked
<1>4. frames'[1] = IF Nested THEN frames[1] ELSE f
  BY <1>1, <1>3 DEF Nested
<1>5. Placed(frames'[1]) /\ frames'[1].plan = "run"
  BY <1>4, TopPlaced
<1>6. Nested => frames'[2] = f /\ f.plan = "remedy"
  BY <1>3, TopPlaced DEF Nested
<1>7. (Active /\ result = NoResult)' /\ (Nested' <=> Nested)
  BY <1>1, <1>3 DEF Active, Nested, Stacked
<1>8. (Active => frames[1].plan = "run" /\ Placed(frames[1]) /\ result = NoResult)'
  BY <1>5, <1>7 DEF Placed, PlanOf
<1>9. (Nested => frames[2].plan = "remedy" /\ Placed(frames[2]))'
  BY <1>6, <1>7 DEF Placed, PlanOf
<1> QED
  BY <1>1, <1>3, <1>4, <1>7, <1>8, <1>9 DEF Stacked

(* An empty stack is one.                                                  *)
LEMMA EmptyStacked ==
  ASSUME frames' = <<>>
  PROVE  Stacked'
BY DEF Stacked, Active, Nested

(* A failure names no step beyond the plan or beyond where the run was.    *)
LEMMA FailingEnds ==
  ASSUME Stacked, Active, UNCHANGED <<covered, read>>,
         NEW f \in FrameRecord, Placed(f), f.plan = Top.plan,
         ~Nested => f.index = Top.index /\ f.outputs = Top.outputs,
         NEW code, NEW named, named => f.index <= Len(PlanOf(f)),
         Fails(f, code, named)
  PROVE  Stacked' /\ EndsShort
<1> DEFINE g == Answering(f)
           step == IF named /\ ~Nested THEN f.index ELSE 0
<1>1. /\ g.last \in 0 .. Len(Plan) /\ g.last <= frames[1].index
      /\ g.outputs = frames[1].outputs /\ g.outputs \in SUBSET Nat /\ g.recovery \in Nat
  <2>1. CASE Nested
    <3>1. g.last = frames[1].last /\ g.outputs = frames[1].outputs /\ g.recovery = f.recovery
      BY <2>1, TopPlaced DEF Answering, FrameRecord
    <3> QED
      BY <3>1, TopPlaced, PlanType DEF Placed, FrameRecord
  <2>2. CASE ~Nested
    BY <2>2, TopPlaced, PlanType DEF Answering, Placed, FrameRecord
  <2> QED
    BY <2>1, <2>2
<1>2. step \in 0 .. Len(Plan) /\ step <= frames[1].index
  <2>1. CASE named /\ ~Nested
    <3>1. f.index \in Nat /\ f.index <= Len(Plan) /\ f.index = frames[1].index
      BY <2>1, TopPlaced, PlanType DEF FrameRecord
    <3> QED
      BY <2>1, <3>1, PlanType
  <2>2. CASE ~(named /\ ~Nested)
    BY <2>2, TopPlaced, ReplayAssumption, SMTT(30) DEF FrameRecord
  <2> QED
    BY <2>1, <2>2
<1>3. frames' = <<>> /\ result' = Failure(g, code, step)
  BY DEF Fails
<1> HIDE DEF g, step
<1>4. /\ result'.status \in {"failed", "needs_human"} /\ result'.step = step
      /\ result'.index \in {0, g.last}
      /\ result'.status = "needs_human" => result'.outputs = g.outputs
      /\ Returned'
  BY <1>1, <1>3 DEF Failure, Returned
<1>5. 0 \in 0 .. Len(Plan) /\ 0 <= frames[1].index
  BY TopPlaced, ReplayAssumption, SMTT(30) DEF FrameRecord
<1> QED
  BY <1>1, <1>2, <1>3, <1>4, <1>5, EmptyStacked DEF EndsShort

(* An answer ends the run, and fails it when it is a remedy's.             *)
LEMMA AnsweringEnds ==
  ASSUME Stacked, Active, UNCHANGED <<covered, read>>,
         NEW f \in FrameRecord, Placed(f), f.plan = Top.plan,
         ~Nested => f.index = Top.index /\ f.outputs = Top.outputs,
         Answers(f)
  PROVE  Stacked' /\ EndsShort
<1>1. CASE Nested
  BY <1>1, FailingEnds DEF Answers
<1>2. CASE ~Nested
  <2>1. frames' = <<>> /\ result' = [NoResult EXCEPT !.status = "business_outcome"]
    BY <1>2 DEF Answers
  <2>2. /\ result'.status = "business_outcome" /\ result'.step = 0 /\ result'.index = 0
        /\ Returned'
    BY <2>1 DEF NoResult, Returned
  <2>3. 0 \in 0 .. Len(Plan) /\ 0 <= frames[1].index
    BY TopPlaced, ReplayAssumption, SMTT(30) DEF FrameRecord
  <2> QED
    BY <2>1, <2>2, <2>3, EmptyStacked DEF EndsShort
<1> QED
  BY <1>1, <1>2

(* Entering its plan or moving on in it leaves a frame placed.             *)
LEMMA EnteredPlaced ==
  ASSUME NEW f \in FrameRecord, Placed(f)
  PROVE  /\ Entered(f) \in FrameRecord /\ Placed(Entered(f))
         /\ Entered(f).plan = f.plan /\ Entered(f).index = f.index
         /\ Entered(f).outputs = f.outputs /\ Entered(f).at # "settle"
<1>1. /\ Entered(f) \in FrameRecord
      /\ Entered(f).plan = f.plan /\ Entered(f).index = f.index
      /\ Entered(f).outputs = f.outputs /\ Entered(f).last = f.last
      /\ Entered(f).at = IF f.index > Len(PlanOf(f)) THEN "checkpoint" ELSE "observe"
  BY EnteredType DEF Entered, FrameRecord
<1>2. PlanOf(Entered(f)) = PlanOf(f) /\ Len(PlanOf(f)) \in Nat
  BY <1>1, PlanType DEF PlanOf
<1> HIDE DEF Entered
<1> QED
  BY <1>1, <1>2 DEF Placed

LEMMA AdvancePlaced ==
  ASSUME NEW f \in FrameRecord, Placed(f), f.index <= Len(PlanOf(f))
  PROVE  /\ Advance(f) \in FrameRecord /\ Placed(Advance(f))
         /\ Advance(f).plan = f.plan /\ Advance(f).index = f.index + 1
         /\ Advance(f).outputs = f.outputs /\ Advance(f).at # "settle"
<1>1. /\ Advance(f) \in FrameRecord
      /\ Advance(f).plan = f.plan /\ Advance(f).index = f.index + 1
      /\ Advance(f).outputs = f.outputs /\ Advance(f).last = f.last
      /\ Advance(f).at = IF f.index = Len(PlanOf(f)) THEN "checkpoint" ELSE "observe"
  BY AdvanceType DEF Advance, FrameRecord
<1>2. PlanOf(Advance(f)) = PlanOf(f) /\ Len(PlanOf(f)) \in Nat
  BY <1>1, PlanType DEF PlanOf
<1> HIDE DEF Advance
<1> QED
  BY <1>1, <1>2 DEF Placed

(* So does looking at the screen, where the step is the last one seen.     *)
LEMMA HerePlaced ==
  ASSUME Stacked, AtStep
  PROVE  /\ Here \in FrameRecord /\ Placed(Here) /\ Here.plan = Top.plan
         /\ Here.index = Top.index /\ Here.outputs = Top.outputs
         /\ Here.index <= Len(PlanOf(Here)) /\ Here.at = "observe"
         /\ Here.attempts \in Nat /\ Here.recovery \in Nat
<1>1. Top \in FrameRecord /\ Placed(Top) /\ Top.at = "observe"
  BY TopPlaced DEF AtStep
<1>2. /\ Here \in FrameRecord /\ Here.plan = Top.plan /\ Here.at = "observe"
      /\ Here.index = Top.index /\ Here.outputs = Top.outputs /\ Here.last = Top.index
      /\ Here.attempts \in Nat /\ Here.recovery \in Nat
  BY <1>1 DEF Here, FrameRecord
<1>3. PlanOf(Here) = PlanOf(Top) /\ Len(PlanOf(Top)) \in Nat
  BY <1>1, <1>2, PlanType DEF PlanOf
<1> HIDE DEF Here
<1> QED
  BY <1>1, <1>2, <1>3 DEF Placed

-----------------------------------------------------------------------------
(* Every failure and every answer ends the run.                            *)
LEMMA EndingsEndShort ==
  ASSUME Stacked,
         \/ \E code \in Codes :
              \/ Refused(code) \/ NotReached(code) \/ RemedyRefused(code)
              \/ CapabilityRefused(code) \/ DispatchFails(code)
         \/ Overrun \/ ObserveOutcome \/ ObserveUnexpected \/ BindingFails
         \/ ConditionFails \/ NeverSettles \/ EffectMissing
         \/ CheckpointOutcome \/ CheckpointFails
  PROVE  Stacked' /\ EndsShort
<1>1. ASSUME NEW code \in Codes,
             \/ Refused(code) \/ NotReached(code) \/ RemedyRefused(code)
             \/ CapabilityRefused(code)
      PROVE  Stacked' /\ EndsShort
  <2>1. Active /\ UNCHANGED <<covered, read>> /\ Fails(Top, code, FALSE)
    BY <1>1 DEF Refused, NotReached, RemedyRefused, CapabilityRefused, AtRemedy
  <2> QED
    BY <2>1, TopPlaced, FailingEnds
<1>2. ASSUME \/ \E code \in Codes : DispatchFails(code)
             \/ BindingFails \/ ConditionFails \/ NeverSettles \/ EffectMissing
      PROVE  Stacked' /\ EndsShort
  <2>1. PICK code : Active /\ UNCHANGED <<covered, read>> /\ Fails(Top, code, TRUE)
                    /\ Top.at \in {"dispatch", "settle"}
    BY <1>2 DEF DispatchFails, BindingFails, ConditionFails, AtDispatch, NeverSettles,
       EffectMissing
  <2>2. Top.index <= Len(PlanOf(Top))
    BY <2>1, TopPlaced DEF Placed
  <2> QED
    BY <2>1, <2>2, TopPlaced, FailingEnds
<1>3. CASE Overrun \/ ObserveUnexpected
  <2>1. PICK code : AtStep /\ UNCHANGED <<covered, read>> /\ Fails(Here, code, TRUE)
    BY <1>3 DEF Overrun, ObserveUnexpected
  <2>2. Active
    BY <2>1 DEF AtStep
  <2> QED
    BY <2>1, <2>2, HerePlaced, FailingEnds
<1>4. CASE ObserveOutcome
  BY <1>4, HerePlaced, AnsweringEnds DEF ObserveOutcome, AtStep
<1>5. CASE CheckpointOutcome
  BY <1>5, TopPlaced, AnsweringEnds DEF CheckpointOutcome, AtCheckpoint
<1>6. CASE CheckpointFails
  BY <1>6, TopPlaced, FailingEnds DEF CheckpointFails, AtCheckpoint
<1> QED
  BY <1>1, <1>2, <1>3, <1>4, <1>5, <1>6

(* A step that leaves the frame's index and outputs alone stays.           *)
LEMMA MovingStays ==
  ASSUME Stacked, Active, NEW f \in FrameRecord, Placed(f), f.plan = Top.plan,
         f.index = Top.index, f.outputs = Top.outputs, f.at # "settle",
         Becomes(f), UNCHANGED <<result, covered, read>>
  PROVE  Stacked' /\ GoesOn
<1>1. Stacked' /\ Active' /\ frames'[1] = IF Nested THEN frames[1] ELSE f
  BY TopMoves
<1>2. ~Nested => Top = frames[1]
  BY TopPlaced
<1>3. Stays
  BY <1>1, <1>2 DEF Stays
<1> QED
  BY <1>1, <1>3 DEF GoesOn

(* Being admitted, reaching the entrypoint, deciding to act and acting to  *)
(* recover leave the run where it is.                                      *)
LEMMA PausesStay ==
  ASSUME Stacked,
         Admitted \/ Navigated \/ ObserveExpected \/ RemedyDone \/ RemedyActs
  PROVE  Stacked' /\ GoesOn
<1>1. CASE Admitted \/ Navigated
  <2>1. Active /\ UNCHANGED <<result, covered, read>> /\ Top \in FrameRecord /\ Placed(Top)
    BY <1>1, TopPlaced DEF Admitted, Navigated
  <2>2. CASE Becomes(Entered(Top))
    BY <2>1, <2>2, EnteredPlaced, MovingStays
  <2>3. CASE Becomes([Top EXCEPT !.at = "navigation"])
    <3> DEFINE f == [Top EXCEPT !.at = "navigation"]
    <3>1. f \in FrameRecord /\ f.plan = Top.plan /\ f.index = Top.index /\ f.last = Top.last
          /\ f.outputs = Top.outputs /\ f.at = "navigation"
      BY <2>1 DEF FrameRecord, Ats
    <3>2. Placed(f)
      BY <2>1, <3>1 DEF Placed, PlanOf
    <3> HIDE DEF f
    <3> QED
      BY <2>1, <2>3, <3>1, <3>2, MovingStays DEF f
  <2> QED
    BY <1>1, <2>2, <2>3 DEF Admitted, Navigated
<1>2. CASE ObserveExpected
  <2> DEFINE f == [Here EXCEPT !.at = "dispatch"]
  <2>1. Active /\ UNCHANGED <<result, covered, read>> /\ Becomes(f)
    BY <1>2 DEF ObserveExpected, AtStep
  <2>2. /\ Here \in FrameRecord /\ Placed(Here) /\ Here.plan = Top.plan
        /\ Here.index = Top.index /\ Here.outputs = Top.outputs
        /\ Here.index <= Len(PlanOf(Here))
    BY <1>2, HerePlaced DEF ObserveExpected
  <2>3. f \in FrameRecord /\ f.plan = Here.plan /\ f.index = Here.index /\ f.last = Here.last
        /\ f.outputs = Here.outputs /\ f.at = "dispatch"
    BY <2>2 DEF FrameRecord, Ats
  <2> HIDE DEF f
  <2>4. Placed(f)
    BY <2>2, <2>3 DEF Placed, PlanOf
  <2> QED
    BY <2>1, <2>2, <2>3, <2>4, MovingStays
<1>3. CASE RemedyDone
  <2> DEFINE f == [Top EXCEPT !.at = "observe"]
  <2>1. Active /\ UNCHANGED <<result, covered, read>> /\ Becomes(f)
        /\ Top \in FrameRecord /\ Placed(Top) /\ Top.at = "remedy"
    BY <1>3, TopPlaced DEF RemedyDone, AtRemedy
  <2>2. f \in FrameRecord /\ f.plan = Top.plan /\ f.index = Top.index /\ f.last = Top.last
        /\ f.outputs = Top.outputs /\ f.at = "observe"
    BY <2>1 DEF FrameRecord, Ats
  <2> HIDE DEF f
  <2>3. Placed(f)
    BY <2>1, <2>2 DEF Placed, PlanOf
  <2> QED
    BY <2>1, <2>2, <2>3, MovingStays
<1>4. CASE RemedyActs
  <2> DEFINE f == [Top EXCEPT !.left = Tail(@)]
  <2>1. Active /\ UNCHANGED <<result, covered, read>> /\ Becomes(f)
        /\ Top \in FrameRecord /\ Placed(Top) /\ Top.at = "remedy" /\ Top.left # <<>>
    BY <1>4, TopPlaced DEF RemedyActs, AtRemedy
  <2>2. Tail(Top.left) \in Seq({"action", "capability"})
    BY <2>1, HeadTailProperties DEF FrameRecord
  <2>3. f \in FrameRecord /\ f.plan = Top.plan /\ f.index = Top.index /\ f.last = Top.last
        /\ f.outputs = Top.outputs /\ f.at = "remedy"
    BY <2>1, <2>2 DEF FrameRecord
  <2> HIDE DEF f
  <2>4. Placed(f)
    BY <2>1, <2>3 DEF Placed, PlanOf
  <2> QED
    BY <2>1, <2>3, <2>4, MovingStays
<1> QED
  BY <1>1, <1>2, <1>3, <1>4

(* Performing a step covers it, and an extraction reads.                   *)
LEMMA DispatchesPerform ==
  ASSUME Stacked, Dispatched \/ Extracted
  PROVE  Stacked' /\ GoesOn
<1>1. /\ Active /\ UNCHANGED result /\ Top \in FrameRecord /\ Placed(Top)
      /\ Top.at = "dispatch" /\ Done(Top)
  BY TopPlaced DEF Dispatched, Extracted, AtDispatch
<1>2. PICK f \in FrameRecord :
        /\ Becomes(f) /\ f.plan = Top.plan /\ f.index = Top.index /\ f.last = Top.last
        /\ f.at = "settle"
        /\ \/ StepOf(Top).does = "act" /\ f.outputs = Top.outputs /\ UNCHANGED read
           \/ /\ StepOf(Top).does = "extract"
              /\ f.outputs = Top.outputs \cup {Top.index}
              /\ read' = IF Nested THEN read ELSE read \cup {Top.index}
  <2>1. CASE Dispatched
    <3> DEFINE f == [Top EXCEPT !.at = "settle"]
    <3>1. f \in FrameRecord /\ f.plan = Top.plan /\ f.index = Top.index /\ f.last = Top.last
          /\ f.at = "settle" /\ f.outputs = Top.outputs
      BY <1>1 DEF FrameRecord, Ats
    <3>2. Becomes(f) /\ StepOf(Top).does = "act" /\ UNCHANGED read
      BY <2>1 DEF Dispatched, AtDispatch
    <3> HIDE DEF f
    <3> QED
      BY <3>1, <3>2
  <2>2. CASE Extracted
    <3> DEFINE f == [Top EXCEPT !.at = "settle", !.outputs = @ \cup {Top.index}]
    <3>1. f \in FrameRecord /\ f.plan = Top.plan /\ f.index = Top.index /\ f.last = Top.last
          /\ f.at = "settle" /\ f.outputs = Top.outputs \cup {Top.index}
      BY <1>1 DEF FrameRecord, Ats
    <3>2. /\ Becomes(f) /\ StepOf(Top).does = "extract"
          /\ read' = IF Nested THEN read ELSE read \cup {Top.index}
      BY <2>2 DEF Extracted, AtDispatch
    <3> HIDE DEF f
    <3> QED
      BY <3>1, <3>2
  <2> QED
    BY <2>1, <2>2
<1>3. Placed(f)
  BY <1>1, <1>2 DEF Placed, PlanOf
<1>4. Stacked' /\ Active' /\ frames'[1] = IF Nested THEN frames[1] ELSE f
  BY <1>1, <1>2, <1>3, TopMoves
<1>5. CASE Nested
  <2>1. UNCHANGED <<covered, read>>
    BY <1>1, <1>2, <1>5 DEF Done
  <2>2. Stays
    BY <1>4, <1>5, <2>1 DEF Stays
  <2> QED
    BY <1>1, <1>4, <2>2 DEF GoesOn
<1>6. CASE ~Nested
  <2>1. Top = frames[1] /\ StepOf(Top) = Plan[Top.index] /\ Top.index \in 1 .. Len(Plan)
    BY <1>1, <1>6, TopPlaced, PlanType DEF StepOf, Placed
  <2>2. covered' = covered \cup {Top.index} /\ frames'[1] = f
    BY <1>1, <1>4, <1>6 DEF Done
  <2>3. Performs
    BY <1>2, <1>6, <2>1, <2>2 DEF Performs
  <2> QED
    BY <1>1, <1>4, <2>3 DEF GoesOn
<1> QED
  BY <1>5, <1>6

(* A condition that holds, and a step that has settled, are left behind.   *)
LEMMA DoneMovesOn ==
  ASSUME Stacked, ConditionHolds \/ Settled
  PROVE  Stacked' /\ GoesOn
<1>1. /\ Active /\ UNCHANGED <<result, read>> /\ Top \in FrameRecord /\ Placed(Top)
      /\ Becomes(Advance(Top)) /\ Top.at \in {"dispatch", "settle"}
  BY TopPlaced DEF ConditionHolds, Settled, AtDispatch
<1>2. Top.index <= Len(PlanOf(Top))
  BY <1>1 DEF Placed
<1> DEFINE f == Advance(Top)
<1>3. f \in FrameRecord /\ Placed(f) /\ f.plan = Top.plan /\ f.index = Top.index + 1
      /\ f.outputs = Top.outputs /\ f.at # "settle"
  BY <1>1, <1>2, AdvancePlaced
<1> HIDE DEF f
<1>4. Stacked' /\ Active' /\ frames'[1] = IF Nested THEN frames[1] ELSE f
  BY <1>1, <1>3, TopMoves DEF f
<1>5. CASE Nested
  <2>1. UNCHANGED covered
    BY <1>5 DEF ConditionHolds, Settled, Done
  <2>2. Stays
    BY <1>1, <1>4, <1>5, <2>1 DEF Stays
  <2> QED
    BY <1>1, <1>4, <2>2 DEF GoesOn
<1>6. CASE ~Nested
  <2>1. /\ Top = frames[1] /\ StepOf(Top) = Plan[Top.index] /\ Top.index \in 1 .. Len(Plan)
        /\ frames'[1] = f
    BY <1>1, <1>2, <1>4, <1>6, TopPlaced, PlanType DEF StepOf, Placed
  <2>2. \/ Top.at = "settle" /\ UNCHANGED covered
        \/ Plan[Top.index].does # "extract" /\ covered' = covered \cup {Top.index}
    BY <1>6, <2>1 DEF ConditionHolds, Settled, AtDispatch, Done
  <2>3. MovesOn
    BY <1>1, <1>3, <2>1, <2>2 DEF MovesOn
  <2> QED
    BY <1>1, <1>4, <2>3 DEF GoesOn
<1> QED
  BY <1>5, <1>6

(* Counting a recovery, or running out of them.                            *)
LEMMA RecoveringStays ==
  ASSUME Stacked, NEW rule \in Rules, ObserveRecoverable(rule)
  PROVE  Stacked' /\ (EndsShort \/ GoesOn)
<1> DEFINE f == [Here EXCEPT !.attempts = @ + 1, !.recovery = @ + 1]
           g == [f EXCEPT !.at = "remedy", !.left = Remedies[rule]]
<1>1. AtStep /\ Active /\ UNCHANGED <<covered, read>>
  BY DEF ObserveRecoverable, AtStep
<1>2. /\ Here \in FrameRecord /\ Placed(Here) /\ Here.plan = Top.plan
      /\ Here.index = Top.index /\ Here.outputs = Top.outputs
      /\ Here.index <= Len(PlanOf(Here))
      /\ Here.attempts + 1 \in Nat /\ Here.recovery + 1 \in Nat
  BY <1>1, HerePlaced
<1>3. f \in FrameRecord /\ f.plan = Top.plan /\ f.index = Top.index /\ f.last = Here.last
      /\ f.outputs = Top.outputs /\ f.at = Here.at
  BY <1>2 DEF FrameRecord
<1>4. g \in FrameRecord /\ g.plan = f.plan /\ g.index = f.index /\ g.last = f.last
      /\ g.outputs = f.outputs /\ g.at = "remedy"
  <2> HIDE DEF f
  <2> QED
    BY <1>3, ReplayAssumption DEF FrameRecord, Ats
<1>5. \/ Fails(f, "recovery_exhausted", FALSE)
      \/ Becomes(g) /\ UNCHANGED result
  BY DEF ObserveRecoverable
<1> HIDE DEF f, g
<1>6. Placed(f) /\ Placed(g)
  BY <1>2, <1>3, <1>4 DEF Placed, PlanOf
<1>7. CASE Fails(f, "recovery_exhausted", FALSE)
  BY <1>1, <1>3, <1>6, <1>7, FailingEnds
<1>8. CASE Becomes(g) /\ UNCHANGED result
  BY <1>1, <1>3, <1>4, <1>6, <1>8, MovingStays
<1> QED
  BY <1>5, <1>7, <1>8

(* A remedy's capability starts above the run that waits for it, ...       *)
LEMMA RemedyIsStacked ==
  ASSUME Stacked, CapabilityRuns
  PROVE  Stacked' /\ GoesOn
<1> DEFINE f == [Top EXCEPT !.left = Tail(@)]
           n == NewFrame("remedy", "run", 1, {}, Top.recovery)
<1>1. /\ Active /\ ~Nested /\ UNCHANGED <<result, covered, read>>
      /\ Top \in FrameRecord /\ Placed(Top) /\ Top.plan = "run"
      /\ Top = frames[1] /\ Top.at = "remedy" /\ Top.left # <<>>
  BY TopPlaced DEF CapabilityRuns, AtRemedy
<1>2. f \in FrameRecord /\ f.plan = Top.plan /\ f.index = Top.index /\ f.last = Top.last
      /\ f.outputs = Top.outputs /\ f.at = Top.at
  <2>1. Tail(Top.left) \in Seq({"action", "capability"})
    BY <1>1, HeadTailProperties DEF FrameRecord
  <2> QED
    BY <1>1, <2>1 DEF FrameRecord
<1>3. n \in FrameRecord /\ n.plan = "remedy" /\ n.index = 1 /\ n.last = 0 /\ n.at = "admission"
  <2>1. Top.recovery \in Nat
    BY <1>1 DEF FrameRecord
  <2>2. n \in FrameRecord
    BY <2>1, NewFrameType
  <2> QED
    BY <2>2 DEF NewFrame
<1>4. frames' = <<f, Entered(n)>>
  BY DEF CapabilityRuns
<1> HIDE DEF f, n
<1>5. Placed(f) /\ Placed(n)
  <2>1. PlanOf(n) = RemedyPlan /\ Len(RemedyPlan) \in Nat
    BY <1>3, ReplayAssumption DEF PlanOf
  <2>2. Placed(n)
    BY <1>3, <2>1 DEF Placed
  <2>3. Placed(f)
    BY <1>1, <1>2 DEF Placed, PlanOf
  <2> QED
    BY <2>2, <2>3
<1>6. Entered(n) \in FrameRecord /\ Placed(Entered(n)) /\ Entered(n).plan = "remedy"
  BY <1>3, <1>5, EnteredPlaced
<1>7. frames' \in Seq(FrameRecord) /\ Len(frames') = 2 /\ frames'[1] = f /\ frames'[2] = Entered(n)
  BY <1>2, <1>4, <1>6
<1>8. (Placed(frames[1]) /\ Placed(frames[2]))'
  BY <1>5, <1>6, <1>7 DEF Placed, PlanOf
<1>9. Stacked' /\ Active'
  BY <1>1, <1>2, <1>6, <1>7, <1>8 DEF Stacked, Active, Nested
<1>10. Stays
  BY <1>1, <1>2, <1>7 DEF Stays
<1> QED
  BY <1>1, <1>9, <1>10 DEF GoesOn

(* ... which carries on when it is done, and succeeds past its last step.  *)
LEMMA CheckpointSucceeds ==
  ASSUME Stacked, CheckpointHolds
  PROVE  Stacked' /\ (Succeeds \/ GoesOn)
<1>1. /\ Active /\ Top.at = "checkpoint" /\ UNCHANGED <<covered, read>>
      /\ Top \in FrameRecord /\ Placed(Top) /\ frames[1] \in FrameRecord
      /\ Placed(frames[1]) /\ frames[1].plan = "run"
  BY TopPlaced DEF CheckpointHolds, AtCheckpoint
<1>2. CASE Nested
  <2> DEFINE f == Answering(Top)
  <2>1. f \in FrameRecord /\ f.plan = frames[1].plan /\ f.index = frames[1].index
        /\ f.last = frames[1].last /\ f.outputs = frames[1].outputs /\ f.at = frames[1].at
    <3>1. Top.recovery \in Nat
      BY <1>1 DEF FrameRecord
    <3> QED
      BY <1>1, <1>2, <3>1 DEF Answering, FrameRecord
  <2>2. frames' = <<f>> /\ UNCHANGED result
    BY <1>2 DEF CheckpointHolds
  <2> HIDE DEF f
  <2>3. frames' \in Seq(FrameRecord) /\ Len(frames') = 1 /\ frames'[1] = f
    BY <2>1, <2>2
  <2>4. Placed(frames[1])'
    BY <1>1, <2>1, <2>3 DEF Placed, PlanOf
  <2>5. Stacked' /\ Active'
    BY <1>1, <2>1, <2>2, <2>3, <2>4 DEF Stacked, Active, Nested
  <2>6. Stays
    BY <1>1, <2>1, <2>3 DEF Stays
  <2> QED
    BY <1>1, <2>2, <2>5, <2>6 DEF GoesOn
<1>3. CASE ~Nested
  <2>1. Top = frames[1] /\ frames[1].index = Len(Plan) + 1
    BY <1>1, <1>3, TopPlaced, PlanType DEF Placed
  <2>2. frames' = <<>>
    BY <1>3 DEF CheckpointHolds
  <2>3. Succeeds
    BY <1>1, <1>3, <2>1, <2>2 DEF CheckpointHolds, Succeeds
  <2> QED
    BY <2>2, <2>3, EmptyStacked
<1> QED
  BY <1>2, <1>3

(* Every step of the loop does one of the things a step may mean.          *)
LEMMA StepsAreShaped ==
  ASSUME Stacked, Step
  PROVE  Stacked' /\ Shaped
<1>1. CASE Beginning
  BY <1>1, PausesStay, EndingsEndShort DEF Beginning, Shaped
<1>2. CASE Dispatching
  BY <1>2, PausesStay, DispatchesPerform, EndingsEndShort DEF Dispatching, Shaped
<1>3. CASE Deciding
  BY <1>3, PausesStay, DoneMovesOn, RecoveringStays, RemedyIsStacked, CheckpointSucceeds,
     EndingsEndShort DEF Deciding, Shaped
<1> QED
  BY <1>1, <1>2, <1>3 DEF Step

-----------------------------------------------------------------------------
(* The steps of the plan before one of them.                               *)
Before(n) == {k \in 1 .. Len(Plan) : k < n}

(* What lies behind a run was done for its task, by replay or otherwise    *)
(* (by), and so was what lies behind the steps its result names.           *)
Covering(by) ==
  /\ covered \subseteq 1 .. Len(Plan)
  /\ Active =>
       /\ Before(frames[1].index) \subseteq covered \cup by
       /\ frames[1].at = "settle" => frames[1].index \in covered
  /\ \A named \in {result.index, result.step} :
       named \in 0 .. Len(Plan) /\ Before(named) \subseteq covered \cup by
  /\ result.status = "success" => 1 .. Len(Plan) \subseteq covered \cup by

Extracts == {k \in 1 .. Len(Plan) : Plan[k].does = "extract"}

(* What a run at this index carries is what its task has read so far;      *)
(* less only where it will read again, which takes a re-anchoring that     *)
(* failed and asked for a human.                                           *)
Kept(outputs, index) ==
  /\ outputs \subseteq read
  /\ read \cap Before(index) \subseteq outputs
  /\ "unexpected_state" \notin Triggers => outputs = read

Keeping ==
  /\ read \subseteq Extracts
  /\ Active =>
       /\ Kept(frames[1].outputs, frames[1].index)
       /\ frames[1].at = "settle" => read \cap {frames[1].index} \subseteq frames[1].outputs
  /\ result.status = "needs_human" => Kept(result.outputs, result.index)
  /\ result.status = "success" => read = result.outputs

(* A run that returns, returns steps and a count.                          *)
LEMMA StepsReturn ==
  ASSUME Stacked, Returned, Shaped
  PROVE  Returned'
<1>1. CASE Succeeds
  BY <1>1, TopPlaced DEF Succeeds, Returned, NoResult, FrameRecord
<1> QED
  BY <1>1 DEF Shaped, EndsShort, GoesOn, Returned

(* Steps are done in order, so what is behind stays done.                  *)
LEMMA StepsCover ==
  ASSUME NEW by, Stacked, Covering(by), Shaped
  PROVE  Covering(by)'
<1> USE DEF Covering, Before
<1>1. Len(Plan) \in Nat
  BY ReplayAssumption
<1>2. Active => frames[1].index \in Nat
  BY TopPlaced DEF FrameRecord
<1>3. CASE EndsShort
  BY <1>1, <1>2, <1>3 DEF EndsShort, Active
<1>4. CASE Succeeds
  <2>1. /\ result'.status = "success" /\ result'.index = 0 /\ result'.step = 0
        /\ ~Active' /\ covered' = covered
    BY <1>4 DEF Succeeds, NoResult, Active
  <2>2. 1 .. Len(Plan) \subseteq covered \cup by
    BY <1>1, <1>4 DEF Succeeds
  <2> QED
    BY <1>1, <2>1, <2>2
<1>5. CASE GoesOn
  <2>1. Active /\ UNCHANGED result /\ result.status # "success"
    BY <1>5 DEF GoesOn, Stacked, NoResult
  <2>2. CASE Stays
    BY <1>1, <1>2, <2>1, <2>2 DEF Stays
  <2>3. CASE Performs
    BY <1>1, <1>2, <2>1, <2>3 DEF Performs
  <2>4. CASE MovesOn
    <3>1. frames[1].index \in covered'
      BY <2>1, <2>4 DEF MovesOn
    <3>2. Before(frames'[1].index) \subseteq Before(frames[1].index) \cup {frames[1].index}
      BY <1>1, <1>2, <2>1, <2>4 DEF MovesOn
    <3> QED
      BY <1>1, <1>2, <2>1, <2>4, <3>1, <3>2 DEF MovesOn
  <2> QED
    BY <1>5, <2>2, <2>3, <2>4 DEF GoesOn
<1> QED
  BY <1>3, <1>4, <1>5 DEF Shaped

(* What was read stays read, and is handed on.                             *)
LEMMA StepsKeep ==
  ASSUME Stacked, Keeping, Shaped
  PROVE  Keeping'
<1> USE DEF Keeping, Kept, Before, Extracts
<1>1. Len(Plan) \in Nat
  BY ReplayAssumption
<1>2. Active => frames[1].index \in Nat
  BY TopPlaced DEF FrameRecord
<1>3. CASE EndsShort
  BY <1>1, <1>2, <1>3 DEF EndsShort, Active
<1>4. CASE Succeeds
  <2>1. /\ result'.status = "success" /\ result'.outputs = frames[1].outputs
        /\ ~Active' /\ read' = read
    BY <1>4 DEF Succeeds, NoResult, Active
  <2>2. read \cap Before(Len(Plan) + 1) = read
    <3>1. ASSUME NEW k \in read
          PROVE  k \in 1 .. Len(Plan) /\ k < Len(Plan) + 1
      BY <1>1
    <3> QED
      BY <3>1
  <2>3. read = frames[1].outputs
    BY <1>4, <2>2 DEF Succeeds
  <2> QED
    BY <2>1, <2>3
<1>5. CASE GoesOn
  <2>1. Active /\ UNCHANGED result /\ result.status = "none"
    BY <1>5 DEF GoesOn, Stacked, NoResult
  <2>2. CASE Stays
    BY <2>1, <2>2 DEF Stays
  <2>3. CASE Performs
    BY <1>1, <1>2, <2>1, <2>3 DEF Performs
  <2>4. CASE MovesOn
    <3>1. read \cap {frames[1].index} \subseteq frames[1].outputs
      BY <2>1, <2>4 DEF MovesOn
    <3>2. Before(frames'[1].index) \subseteq Before(frames[1].index) \cup {frames[1].index}
      BY <1>1, <1>2, <2>1, <2>4 DEF MovesOn
    <3> QED
      BY <2>1, <2>4, <3>1, <3>2 DEF MovesOn
  <2> QED
    BY <1>5, <2>2, <2>3, <2>4 DEF GoesOn
<1> QED
  BY <1>3, <1>4, <1>5 DEF Shaped

(* A run starts at the first step, with nothing done or read.              *)
LEMMA RunStarts ==
  ASSUME NEW by, Run
  PROVE  (Stacked /\ Returned /\ Covering(by) /\ Keeping)'
<1> DEFINE n == NewFrame("run", "run", 1, {}, 0)
<1>1. /\ n \in FrameRecord /\ n.plan = "run" /\ n.index = 1 /\ n.last = 0
      /\ n.at = "admission" /\ n.outputs = {}
  BY NewFrameType DEF NewFrame
<1>2. frames' = <<n>> /\ result' = NoResult /\ covered' = {} /\ read' = {}
  BY DEF Run
<1> HIDE DEF n
<1>3. frames' \in Seq(FrameRecord) /\ Len(frames') = 1 /\ frames'[1] = n
  BY <1>1, <1>2
<1>4. Placed(frames[1])'
  BY <1>1, <1>3, PlanType DEF Placed, PlanOf
<1>5. Stacked'
  BY <1>1, <1>2, <1>3, <1>4 DEF Stacked, Nested
<1>6. Covering(by)' /\ Keeping' /\ Returned'
  BY <1>1, <1>2, <1>3, ReplayAssumption
  DEF Covering, Keeping, Kept, Before, Extracts, Returned, NoResult
<1> QED
  BY <1>5, <1>6

(* Before the first run there is neither a result nor anything done.       *)
LEMMA IdleStarts ==
  ASSUME NEW by, Idle
  PROVE  Stacked /\ Returned /\ Covering(by) /\ Keeping
<1>1. Stacked
  BY DEF Idle, Stacked, Active, Nested
<1> QED
  BY <1>1, ReplayAssumption
  DEF Idle, Active, NoResult, Covering, Keeping, Kept, Before, Extracts, Returned

(* A step that leaves the executor alone leaves all of this alone.         *)
LEMMA NothingMoves ==
  ASSUME NEW by, UNCHANGED executor, Stacked, Returned, Covering(by)
  PROVE  (Stacked /\ Returned /\ Covering(by))'
BY DEF executor, Stacked, Active, Nested, Placed, PlanOf, Returned, Covering, Before

LEMMA NothingIsLost ==
  ASSUME UNCHANGED executor, Keeping
  PROVE  Keeping'
BY DEF executor, Active, Keeping, Kept, Before, Extracts

(* One run returns everything it reads: no recovery, and no capability a   *)
(* remedy runs in between, costs an output.                                *)
THEOREM OneRunReturnsAllItRead == ReplaySafety => []SuccessReturnsAllRead
<1>1. Idle => Stacked /\ Keeping
  BY IdleStarts
<1>2. Stacked /\ Keeping /\ [ReplayNext]_executor => (Stacked /\ Keeping)'
  <2> SUFFICES ASSUME Stacked, Keeping, [ReplayNext]_executor
               PROVE  (Stacked /\ Keeping)'
    OBVIOUS
  <2>1. CASE Run
    BY <2>1, RunStarts
  <2>2. CASE Step
    BY <2>2, StepsAreShaped, StepsKeep
  <2>3. CASE UNCHANGED executor
    BY <2>3, NothingIsLost DEF executor, Stacked, Active, Nested, Placed, PlanOf
  <2> QED
    BY <2>1, <2>2, <2>3 DEF ReplayNext
<1>3. Keeping => SuccessReturnsAllRead
  BY DEF Keeping, SuccessReturnsAllRead
<1> QED
  BY <1>1, <1>2, <1>3, PTL DEF ReplaySafety

-----------------------------------------------------------------------------
(* A resume that re-anchors skips only what it sees done.                  *)
LEMMA ReanchoredCovers ==
  ASSUME NEW by, NEW n \in 1 .. Len(Plan) + 1, NEW from \in 1 .. Len(Plan) + 1,
         NEW outputs \in SUBSET Nat, NEW recovery \in Nat,
         covered \subseteq 1 .. Len(Plan), Before(from) \subseteq covered \cup by,
         ReanchoredAt(n, from, outputs, recovery)
  PROVE  /\ (Stacked /\ Returned /\ Covering(by))'
         /\ Active' /\ Len(frames') = 1 /\ frames'[1].at = "admission"
         /\ frames'[1].index = n /\ n >= from
         /\ frames'[1].outputs = outputs /\ frames'[1].recovery = recovery
<1> DEFINE f == NewFrame("run", "resume", n, outputs, recovery)
<1>1. Len(Plan) \in Nat /\ n \in Nat /\ from \in Nat
  BY ReplayAssumption
<1>2. /\ f \in FrameRecord /\ f.plan = "run" /\ f.index = n /\ f.last = 0
      /\ f.at = "admission" /\ f.outputs = outputs /\ f.recovery = recovery
  BY <1>1, NewFrameType DEF NewFrame
<1>3. /\ frames' = <<f>> /\ result' = NoResult
      /\ n \in from .. Len(Plan) + 1 /\ covered' = covered \cup from .. n - 1
  BY DEF ReanchoredAt, ResumePoints
<1> HIDE DEF f
<1>4. frames' \in Seq(FrameRecord) /\ Len(frames') = 1 /\ frames'[1] = f /\ Active'
  BY <1>2, <1>3 DEF Active
<1>5. Placed(frames[1])'
  BY <1>1, <1>2, <1>4, PlanType DEF Placed, PlanOf
<1>6. Stacked' /\ Returned'
  BY <1>2, <1>3, <1>4, <1>5 DEF Stacked, Nested, Returned, NoResult
<1>7. Before(n) \subseteq Before(from) \cup from .. n - 1
  BY <1>1, <1>3 DEF Before
<1>8. Covering(by)'
  BY <1>1, <1>2, <1>3, <1>4, <1>7 DEF Covering, Before, NoResult
<1> QED
  BY <1>1, <1>2, <1>3, <1>4, <1>6, <1>8

(* One that cannot re-anchor leaves a failure that names nothing.          *)
LEMMA ReanchoringFails ==
  ASSUME NEW by, NEW from, ~Active, Stacked, covered \subseteq 1 .. Len(Plan),
         NotReanchored(from)
  PROVE  /\ (Stacked /\ Returned /\ Covering(by))' /\ ~Active'
         /\ result'.status \in {"failed", "needs_human"}
         /\ result'.status = "needs_human" <=> "unexpected_state" \in Triggers
         /\ result'.index = 0 /\ result'.outputs = {}
<1>1. frames' = <<>> /\ covered' = covered
  BY DEF NotReanchored, Stacked, Active
<1>2. /\ result'.status \in {"failed", "needs_human"}
      /\ result'.status = "needs_human" <=> "unexpected_state" \in Triggers
      /\ result'.index = 0 /\ result'.step = 0 /\ result'.outputs = {} /\ result'.recovery = 0
  BY DEF NotReanchored, Failure, NewFrame
<1>3. Covering(by)'
  BY <1>1, <1>2, ReplayAssumption DEF Covering, Active, Before
<1> QED
  BY <1>1, <1>2, <1>3, EmptyStacked DEF Active, Returned

-----------------------------------------------------------------------------
(* Replay past a model's correction.  Before it, what was spent counts     *)
(* from nothing, and after it from what was spent by then.                 *)
AssistedCounted ==
  /\ attempted \in BOOLEAN
  /\ \E base \in 0 .. MaxRecoveryTotal : Counted(base) /\ (attempted \/ base = 0)

(* The corrected step is behind the run, and the run it failed in is over. *)
Corrected ==
  /\ corrected \in 0 .. Len(Plan)
  /\ Covering({corrected} \ {0})
  /\ corrected # 0 =>
       /\ attempted
       /\ Active => frames[1].index > corrected
       /\ ~Active => result # NoResult

AssistedInv == Stacked /\ Returned /\ AssistedCounted /\ Corrected

(* A resume that forgets the count begins at the one that was reached.     *)
LEMMA ResumeForgets ==
  ASSUME Counted(0), Returned, NEW from, Resume(from, result.outputs, 0)
  PROVE  Counted(spent)'
<1>1. spent \in 0 .. MaxRecoveryTotal /\ spent' = spent /\ ~Active
  <2>1. spent \in 0 .. 0 + MaxRecoveryTotal
    BY DEF Counted
  <2>2. spent' = spent /\ ~Active
    BY DEF Resume
  <2> QED
    BY <2>1, <2>2, ReplayAssumption
<1>2. ASSUME NEW n \in 1 .. Len(Plan) + 1, ReanchoredAt(n, from, result.outputs, 0)
      PROVE  Counted(spent)'
  <2> DEFINE f == NewFrame("run", "resume", n, result.outputs, 0)
  <2>1. n \in Nat
    BY ReplayAssumption
  <2>2. f \in FrameRecord /\ f.recovery = 0
    BY <2>1, NewFrameType, 0 \in Nat DEF Returned
  <2>3. frames' = <<f>>
    BY <1>2 DEF ReanchoredAt
  <2>4. frames' \in Seq(FrameRecord) /\ Len(frames') = 1 /\ frames'[1] = f
    BY <2>2, <2>3
  <2> QED
    BY <1>1, <2>2, <2>4, ReplayAssumption DEF Counted, Top, Active
<1>3. CASE NotReanchored(from)
  <2>1. frames' = <<>>
    BY <1>1, <1>3 DEF NotReanchored, Active, Counted
  <2> QED
    BY <1>1, <2>1, ReplayAssumption DEF Counted, Active
<1> QED
  BY <1>2, <1>3 DEF Resume

(* The model's action is taken for the step that failed, and no other.     *)
LEMMA AssistCorrects ==
  ASSUME AssistedInv, AssistActs
  PROVE  (Stacked /\ Returned /\ Corrected)'
<1> DEFINE by == {result.step}
<1>1. /\ result.step # 0 /\ attempted' = TRUE /\ corrected' = result.step
      /\ Resume(result.step + 1, result.outputs, 0)
  BY DEF AssistActs, NextIndex
<1>2. corrected = 0
  BY DEF AssistActs, IsAssistable, AssistedInv, Corrected
<1>3. /\ result.step \in 1 .. Len(Plan) /\ Before(result.step) \subseteq covered
      /\ covered \subseteq 1 .. Len(Plan) /\ Len(Plan) \in Nat
  BY <1>1, <1>2, ReplayAssumption DEF AssistedInv, Corrected, Covering
<1>4. Before(result.step + 1) \subseteq covered \cup by
  BY <1>3 DEF Before
<1>5. {corrected'} \ {0} = by /\ corrected' \in 0 .. Len(Plan)
  BY <1>1, <1>3
<1>6. result.outputs \in SUBSET Nat /\ 0 \in Nat /\ result.step + 1 \in 1 .. Len(Plan) + 1
  BY <1>3 DEF AssistedInv, Returned
<1>7. PICK b : b = by
  OBVIOUS
<1>8. ASSUME NEW n \in 1 .. Len(Plan) + 1,
             ReanchoredAt(n, result.step + 1, result.outputs, 0)
      PROVE  (Stacked /\ Returned /\ Corrected)'
  <2>1. PICK from \in 1 .. Len(Plan) + 1 : from = result.step + 1
    BY <1>6
  <2>2. PICK outputs \in SUBSET Nat : outputs = result.outputs
    BY <1>6
  <2>3. Before(from) \subseteq covered \cup b /\ ReanchoredAt(n, from, outputs, 0)
    BY <1>4, <1>7, <1>8, <2>1, <2>2
  <2>4. /\ (Stacked /\ Returned /\ Covering(b))' /\ Active'
        /\ frames'[1].index = n /\ n >= from
    BY <1>3, <1>6, <2>3, ReanchoredCovers
  <2>5. n > result.step /\ n # 0
    BY <1>3, <2>1, <2>4
  <2>6. Covering({corrected} \ {0})'
    BY <1>5, <1>7, <2>4 DEF Covering
  <2>7. Corrected'
    BY <1>1, <1>3, <1>5, <2>4, <2>5, <2>6 DEF Corrected
  <2> QED
    BY <2>4, <2>7
<1>9. CASE NotReanchored(result.step + 1)
  <2>1. /\ (Stacked /\ Returned /\ Covering(b))' /\ ~Active'
        /\ result'.status \in {"failed", "needs_human"}
    BY <1>1, <1>3, <1>9, ReanchoringFails DEF Resume, AssistedInv
  <2>2. Covering({corrected} \ {0})'
    BY <1>5, <1>7, <2>1 DEF Covering
  <2>3. Corrected'
    BY <1>1, <1>5, <2>1, <2>2 DEF Corrected, NoResult
  <2> QED
    BY <2>1, <2>3
<1> QED
  BY <1>1, <1>8, <1>9 DEF Resume

(* Replay after it goes forward, and never back to it.                     *)
LEMMA CorrectedStaysBehind ==
  ASSUME AssistedInv, Shaped, UNCHANGED <<attempted, corrected>>, Covering({corrected} \ {0})'
  PROVE  Corrected'
<1>1. ASSUME corrected # 0
      PROVE  /\ attempted'
             /\ Active' => frames'[1].index > corrected
             /\ ~Active' => result' # NoResult
  <2>1. CASE EndsShort \/ Succeeds
    <3>1. frames' = <<>> /\ result'.status # "none"
      BY <2>1 DEF EndsShort, Succeeds, NoResult
    <3> QED
      BY <1>1, <3>1 DEF NoResult, Active, AssistedInv, Corrected
  <2>2. CASE GoesOn
    <3>1. corrected \in Nat /\ frames[1].index \in Nat /\ frames[1].index > corrected
      BY <1>1, <2>2, TopPlaced DEF GoesOn, AssistedInv, Corrected, FrameRecord
    <3> QED
      BY <1>1, <2>2, <3>1
      DEF GoesOn, Stays, Performs, MovesOn, AssistedInv, Corrected
  <2> QED
    BY <2>1, <2>2 DEF Shaped
<1> QED
  BY <1>1 DEF AssistedInv, Corrected

(* Every step of an assisted replay keeps all of this.                     *)
LEMMA AssistedKeeps ==
  ASSUME AssistedInv, [AssistedNext]_assistedVars
  PROVE  AssistedInv'
<1> USE DEF AssistedInv
<1>1. PICK base \in 0 .. MaxRecoveryTotal : Counted(base) /\ (attempted \/ base = 0)
  BY DEF AssistedCounted
<1>2. base \in Nat /\ 0 \in 0 .. MaxRecoveryTotal
  BY ReplayAssumption
<1>3. PICK by : by = {corrected} \ {0}
  OBVIOUS
<1>4. CASE Runs
  <2>1. Counted(0)' /\ (Stacked /\ Returned /\ Covering(by))' /\ UNCHANGED <<attempted, corrected>>
    BY <1>1, <1>2, <1>4, Starting, RunStarts DEF Runs
  <2>2. corrected = 0
    BY <1>4 DEF Runs, Run, Corrected
  <2> QED
    BY <1>2, <1>3, <2>1, <2>2 DEF AssistedCounted, Corrected
<1>5. CASE Replays
  <2>1. Counted(base)' /\ UNCHANGED <<attempted, corrected>>
    BY <1>1, <1>2, <1>5, StepsCount DEF Replays
  <2>2. Stacked' /\ Shaped
    BY <1>5, StepsAreShaped DEF Replays
  <2>3. Returned' /\ Covering(by)'
    BY <1>3, <2>2, StepsReturn, StepsCover DEF Corrected
  <2>4. Corrected'
    BY <1>3, <2>1, <2>2, <2>3, CorrectedStaysBehind
  <2> QED
    BY <1>1, <2>1, <2>2, <2>3, <2>4 DEF AssistedCounted
<1>6. CASE AssistActs
  <2>1. Counted(0) /\ attempted' = TRUE
    BY <1>1, <1>6 DEF AssistActs, IsAssistable
  <2>2. PICK from : Resume(from, result.outputs, 0)
    BY <1>6 DEF AssistActs
  <2>3. Counted(spent)' /\ spent' = spent
    BY <2>1, <2>2, ResumeForgets DEF Resume
  <2>4. spent \in 0 .. MaxRecoveryTotal
    <3>1. spent \in 0 .. 0 + MaxRecoveryTotal
      BY <2>1 DEF Counted
    <3> QED
      BY <3>1, ReplayAssumption
  <2>5. AssistedCounted'
    BY <2>1, <2>3, <2>4 DEF AssistedCounted
  <2> QED
    BY <1>6, <2>5, AssistCorrects
<1>7. CASE AssistDeclined \/ UNCHANGED assistedVars
  <2>1. UNCHANGED <<executor, corrected>> /\ attempted' \in {TRUE, attempted}
    BY <1>7 DEF AssistDeclined, assistedVars
  <2>2. Counted(base)' /\ (Stacked /\ Returned /\ Covering(by))'
    BY <1>1, <1>2, <1>3, <2>1, StandingStill, NothingMoves DEF Corrected
  <2>3. Corrected'
    BY <1>3, <2>1, <2>2 DEF executor, Active, Corrected
  <2> QED
    BY <1>1, <2>1, <2>2, <2>3 DEF AssistedCounted
<1> QED
  BY <1>4, <1>5, <1>6, <1>7 DEF AssistedNext

LEMMA AssistedStarts == AssistedInit => AssistedInv
<1> SUFFICES ASSUME AssistedInit PROVE AssistedInv
  OBVIOUS
<1>1. Counted(0) /\ attempted = FALSE /\ corrected = 0 /\ Idle
  BY ReplayAssumption DEF AssistedInit, Idle, Counted, Active
<1>2. PICK by : by = {corrected} \ {0}
  OBVIOUS
<1>3. Stacked /\ Returned /\ Covering(by)
  BY <1>1, IdleStarts
<1>4. AssistedCounted
  <2>1. 0 \in 0 .. MaxRecoveryTotal
    BY ReplayAssumption
  <2> QED
    BY <1>1, <2>1 DEF AssistedCounted
<1>5. Corrected
  BY <1>1, <1>2, <1>3, ReplayAssumption DEF Corrected
<1> QED
  BY <1>3, <1>4, <1>5 DEF AssistedInv

(* Asking the model refreshes the bounded recoveries once: an assisted     *)
(* replay attempts at most twice max_recovery_attempts_total (recovery.py  *)
(* resumes without prior_recovery_attempts).                               *)
THEOREM AssistedRecoveriesBounded == AssistedSpec => []RecoveriesBounded
<1>1. AssistedInv => RecoveriesBounded
  BY ReplayAssumption DEF AssistedInv, AssistedCounted, Counted, RecoveriesBounded
<1> QED
  BY <1>1, AssistedStarts, AssistedKeeps, PTL DEF AssistedSpec, AssistedSafety

(* An assisted replay that reports success has done every step, but for    *)
(* the one the model did in its place.                                     *)
THEOREM AssistedSuccessIsWhole == AssistedSpec => []AssistedSuccessCoversPlan
<1>1. AssistedInv => AssistedSuccessCoversPlan
  <2> SUFFICES ASSUME AssistedInv, result.status = "success"
               PROVE  (covered \cup {corrected}) \ {0} = 1 .. Len(Plan)
    BY DEF AssistedSuccessCoversPlan
  <2>1. /\ covered \subseteq 1 .. Len(Plan) /\ corrected \in 0 .. Len(Plan)
        /\ 1 .. Len(Plan) \subseteq covered \cup ({corrected} \ {0})
    BY DEF AssistedInv, Corrected, Covering
  <2>2. Len(Plan) \in Nat /\ 0 \notin 1 .. Len(Plan)
    BY ReplayAssumption
  <2>3. corrected # 0 => corrected \in 1 .. Len(Plan)
    BY <2>1, <2>2
  <2> QED
    BY <2>1, <2>2, <2>3
<1> QED
  BY <1>1, AssistedStarts, AssistedKeeps, PTL DEF AssistedSpec, AssistedSafety

(* The step the model performed is behind replay for good: it is not       *)
(* submitted twice (recovery.py resumes at the step after it).             *)
THEOREM CorrectionIsNotRepeated == AssistedSpec => CorrectedStepIsNotRepeated
<1> DEFINE Repeats == Dispatched /\ ~Nested => Top.index # corrected
<1>1. AssistedInv /\ [AssistedNext]_assistedVars => [Repeats]_assistedVars
  <2> SUFFICES ASSUME AssistedInv, Dispatched, ~Nested
               PROVE  Top.index # corrected
    OBVIOUS
  <2>1. Active /\ Top = frames[1] /\ frames[1].index \in 1 .. Len(Plan) + 1
    BY TopPlaced DEF Dispatched, AtDispatch, AssistedInv, Placed, PlanOf
  <2>2. corrected \in Nat /\ frames[1].index \in Nat
    BY <2>1 DEF AssistedInv, Corrected
  <2> QED
    BY <2>1, <2>2 DEF AssistedInv, Corrected
<1> QED
  BY <1>1, AssistedStarts, AssistedKeeps, PTL
  DEF AssistedSpec, AssistedSafety, CorrectedStepIsNotRepeated

-----------------------------------------------------------------------------
(* A supervised run.  Its broker is a session broker, so what is proved    *)
(* of those holds here, and what a run does to it is what a run may ask.   *)
Session == INSTANCE SessionBrokerProofs

LEMMA SessionAssumed == Session!SessionAssumption /\ Session!BrokerAssumption
BY SupervisedAssumption
DEF Session!SessionAssumption, Session!BrokerAssumption, Session!HandoffRecord,
    Broker!HandoffRecord, Session!Deltas, Broker!Deltas

LEMMA SessionKeeps == Session!IInv /\ [Session!Next]_session => Session!IInv'
<1> HIDE DEF Session!Next, Session!IInv
<1>1. [Session!Next]_session => [Session!Next]_(Session!vars)
  BY DEF Session!vars, session
<1> QED
  BY <1>1, SessionAssumed, Session!StepIInv DEF Session!StepIInv

LEMMA SessionStarts == Broker!Init => Session!IInv
<1>1. Broker!Init => Session!Init
  BY DEF Broker!Init, Session!Init, Broker!LeaseInit, Session!LeaseInit,
     Broker!QueueInit, Session!QueueInit, Broker!NewLease, Session!NewLease
<1> QED
  BY <1>1, SessionAssumed, Session!InitIInv DEF Session!InitIInv

(* The lease that lets automation begin is that of a running session.      *)
LEMMA LeaseTells ==
  ASSUME Session!IInv
  PROVE  /\ lease.state \in Session!ControlStates
         /\ lease.state = "running" <=> lease.holder = "automation"
         /\ lease.state = "human_control" <=> lease.expires # "none"
BY DEF Session!IInv, Session!TypeOK, Session!LeaseRecord, Session!LeaseCoherent

(* Asking for a human pauses a session that runs, or does nothing.         *)
LEMMA AskingPauses ==
  ASSUME NEW forHuman, Asks(forHuman)
  PROVE  /\ [Session!Next]_session
         /\ UNCHANGED session \/ (forHuman /\ lease.state = "running")
<1>1. ASSUME NEW i \in Ids, NEW snapshot \in {screen, NoSnapshot}, Broker!Escalate(i, snapshot)
      PROVE  Session!Next /\ lease.state = "running"
  <2>1. Session!Escalate(i, snapshot) /\ lease.state = "running"
    BY <1>1 DEF Broker!Escalate, Session!Escalate, Broker!LeaseEscalate, Session!LeaseEscalate,
       Broker!Transition, Session!Transition, Broker!Vacated, Session!Vacated,
       Broker!QueueOpen, Session!QueueOpen
  <2> QED
    BY <2>1 DEF Session!Next
<1> HIDE DEF Session!Next
<1>2. CASE forHuman
  BY <1>1, <1>2 DEF Asks
<1>3. CASE ~forHuman
  BY <1>3 DEF Asks
<1> QED
  BY <1>2, <1>3

(* The operator's calls are calls of the broker, and none of them takes    *)
(* the session from a run.                                                 *)
LEMMA OperatorCalls ==
  ASSUME Session!IInv, OperatorSteps
  PROVE  Session!Next /\ lease.state # "running"
<1> USE DEF Session!Next
<1>1. ASSUME NEW i \in Ids, NEW operator \in Operators, Broker!Claim(i, operator, "ahead")
      PROVE  Session!Next /\ lease.state # "running"
  <2>1. Session!Claim(i, operator, "ahead") /\ lease.state = "paused"
    BY <1>1 DEF Broker!Claim, Session!Claim, Broker!QueueClaim, Session!QueueClaim,
       Broker!Claimable, Session!Claimable, Broker!LeaseClaim, Session!LeaseClaim,
       Broker!Transition, Session!Transition
  <2> QED
    BY <2>1
<1>2. ASSUME NEW after \in {screen, NoSnapshot}, Broker!Release(after)
      PROVE  Session!Next /\ lease.state # "running"
  <2>1. Session!Release(after) /\ lease.state = "human_control"
    BY <1>2 DEF Broker!Release, Session!Release, Broker!LeaseRelease, Session!LeaseRelease,
       Broker!Transition, Session!Transition, Broker!QueueRelease, Session!QueueRelease,
       Broker!Diff, Session!Diff
  <2> QED
    BY <2>1
<1>3. CASE Broker!Resume
  <2>1. Session!Resume /\ lease.state = "resuming"
    BY <1>3 DEF Broker!Resume, Session!Resume, Broker!LeaseResume, Session!LeaseResume,
       Broker!Transition, Session!Transition, Broker!QueueResolve, Session!QueueResolve
  <2> QED
    BY <2>1
<1>4. CASE Broker!HoldLapses
  <2>1. Session!HoldLapses /\ lease.expires = "ahead"
    BY <1>4 DEF Broker!HoldLapses, Session!HoldLapses, Broker!Lapse, Session!Lapse
  <2> QED
    BY <2>1, LeaseTells
<1>5. CASE Broker!Sweep
  <2>1. Session!Sweep /\ lease.expires = "passed"
    BY <1>5 DEF Broker!Sweep, Session!Sweep, Broker!LeaseReclaimExpired,
       Session!LeaseReclaimExpired, Broker!Expired, Session!Expired, Broker!Transition,
       Session!Transition, Broker!Vacated, Session!Vacated, Broker!QueueAbandon,
       Session!QueueAbandon
  <2> QED
    BY <2>1, LeaseTells
<1> QED
  BY <1>1, <1>2, <1>3, <1>4, <1>5 DEF OperatorSteps

-----------------------------------------------------------------------------
(* While the session is not automation's, a run has not begun.             *)
Entitled == lease.state # "running" /\ Active => Top.at = "admission"

SupervisedInv ==
  /\ Session!IInv
  /\ Stacked
  /\ Returned
  /\ Covering({})
  /\ Entitled

(* What has to be observed or dispatched has been admitted.                *)
LEMMA AdmittedFirst ==
  ASSUME Dispatching \/ DispatchingStale \/ Deciding, Active
  PROVE  Top.at # "admission"
BY DEF Dispatching, DispatchingStale, Deciding, Navigated, RemedyActs, Dispatched, Extracted,
   NotReached, RemedyRefused, DispatchFails, Overrun, ObserveOutcome, ObserveRecoverable,
   ObserveUnexpected, ObserveExpected, RemedyDone, CapabilityRefused, CapabilityRuns,
   BindingFails, ConditionHolds, ConditionFails, Settled, NeverSettles, EffectMissing,
   CheckpointOutcome, CheckpointFails, CheckpointHolds, AtStep, AtRemedy, AtDispatch, AtCheckpoint

(* A run under a broker does what any run does, or ends for want of the    *)
(* lease.                                                                  *)
LEMMA ExecutorIsShaped ==
  ASSUME Stacked, ExecutorSteps
  PROVE  Stacked' /\ Shaped
<1>1. CASE BeginningUnentitled \/ DispatchingStale
  <2>1. "lease_lost" \in Codes
    BY DEF Codes, DispatchCodes, RefusalCodes
  <2> QED
    BY <1>1, <2>1, EndingsEndShort DEF BeginningUnentitled, DispatchingStale, Shaped
<1>2. CASE Beginning \/ Dispatching \/ Deciding
  BY <1>2, StepsAreShaped DEF Step
<1> QED
  BY <1>1, <1>2 DEF ExecutorSteps

(* A resume begins at a step of the plan, with nothing undone before it.   *)
LEMMA ResumesWhereItStopped ==
  ASSUME Returned, Covering({})
  PROVE  /\ ResumeIndex \in 1 .. Len(Plan) + 1
         /\ Before(ResumeIndex) \subseteq covered
         /\ Before(ResumeIndex) = Before(result.index)
         /\ result.outputs \in SUBSET Nat /\ result.recovery \in Nat
         /\ covered \subseteq 1 .. Len(Plan)
BY ReplayAssumption DEF ResumeIndex, Covering, Before, Returned

(* What a call of the caller leaves: a run that has not begun, or none.    *)
LEMMA CallerLeaves ==
  ASSUME Stacked, Returned, Covering({}), (\E fresh \in BOOLEAN : CallerRuns(fresh)) \/ CallerResumes
  PROVE  /\ (Stacked /\ Returned /\ Covering({}))'
         /\ Active' => Top'.at = "admission"
         /\ UNCHANGED session \/ ~Active'
         /\ [Session!Next]_session
<1> HIDE DEF Session!Next
<1>1. CASE \E fresh \in BOOLEAN : CallerRuns(fresh)
  <2>1. Run /\ UNCHANGED session
    BY <1>1 DEF CallerRuns
  <2>2. Len(frames') = 1 /\ frames'[1].at = "admission"
    BY <2>1 DEF Run, NewFrame
  <2> QED
    BY <2>1, <2>2, RunStarts DEF Top
<1>2. CASE CallerResumes
  <2>1. PICK from \in 1 .. Len(Plan) + 1 : from = ResumeIndex
    BY ResumesWhereItStopped
  <2>2. PICK outputs \in SUBSET Nat : outputs = result.outputs
    BY ResumesWhereItStopped
  <2>3. PICK recovery \in Nat : recovery = result.recovery
    BY ResumesWhereItStopped
  <2>4. covered \subseteq 1 .. Len(Plan) /\ Before(from) \subseteq covered \cup {}
    BY <2>1, ResumesWhereItStopped
  <2>5. ASSUME NEW n \in 1 .. Len(Plan) + 1, ReanchoredAt(n, from, outputs, recovery),
               UNCHANGED session
        PROVE  /\ (Stacked /\ Returned /\ Covering({}))'
               /\ Len(frames') = 1 /\ frames'[1].at = "admission"
    BY <2>4, <2>5, ReanchoredCovers
  <2>6. ASSUME NotReanchored(from), Asks("unexpected_state" \in Triggers)
        PROVE  /\ (Stacked /\ Returned /\ Covering({}))' /\ ~Active'
               /\ [Session!Next]_session
    <3>1. ~Active
      BY <1>2 DEF CallerResumes
    <3> QED
      BY <2>4, <2>6, <3>1, ReanchoringFails, AskingPauses
  <2>7. \/ (\E n \in 1 .. Len(Plan) + 1 : ReanchoredAt(n, from, outputs, recovery)) /\ UNCHANGED session
        \/ NotReanchored(from) /\ Asks("unexpected_state" \in Triggers)
    BY <1>2, <2>1, <2>2, <2>3 DEF CallerResumes
  <2> QED
    BY <2>5, <2>6, <2>7 DEF Top
<1> QED
  BY <1>1, <1>2

(* Every step of a supervised run keeps the invariant.                     *)
LEMMA SupervisedCalls ==
  ASSUME SupervisedInv, [Next]_vars
  PROVE  [Session!Next]_session /\ SupervisedInv'
<1> USE DEF SupervisedInv
<1> HIDE DEF Session!Next, Session!IInv
<1>1. CASE (\E fresh \in BOOLEAN : CallerRuns(fresh)) \/ CallerResumes
  <2>1. /\ (Stacked /\ Returned /\ Covering({}))' /\ [Session!Next]_session
        /\ Active' => Top'.at = "admission"
    BY <1>1, CallerLeaves
  <2> QED
    BY <2>1, SessionKeeps DEF Entitled
<1>2. CASE ExecutorSteps
  <2>1. Stacked' /\ Shaped
    BY <1>2, ExecutorIsShaped
  <2>2. Returned' /\ Covering({})'
    BY <2>1, StepsReturn, StepsCover
  <2>3. PICK forHuman \in BOOLEAN : /\ forHuman <=> result'.status = "needs_human"
                                  /\ Asks(forHuman)
    BY <1>2 DEF ExecutorSteps
  <2>4. [Session!Next]_session /\ (UNCHANGED session \/ (forHuman /\ lease.state = "running"))
    BY <2>3, AskingPauses
  <2>5. Session!IInv'
    BY <2>4, SessionKeeps
  <2>6. ASSUME UNCHANGED session, lease.state # "running", Active'
        PROVE  FALSE
    <3>1. Active /\ Top.at = "admission"
      BY <2>1, <2>6 DEF Shaped, EndsShort, Succeeds, GoesOn, Active, Entitled
    <3>2. ~LeaseAvailable
      BY <2>6, LeaseTells DEF LeaseAvailable
    <3>3. BeginningUnentitled
      BY <1>2, <3>1, <3>2, AdmittedFirst DEF ExecutorSteps
    <3>4. frames' = <<>>
      BY <3>3 DEF BeginningUnentitled, Refused, Fails
    <3> QED
      BY <2>6, <3>4 DEF Active
  <2>7. ASSUME forHuman
        PROVE  Entitled'
    <3>1. ~Active'
      BY <2>1, <2>3, <2>7 DEF Shaped, EndsShort, Succeeds, GoesOn, Active, Stacked, NoResult
    <3> QED
      BY <3>1 DEF Entitled
  <2>8. ASSUME ~forHuman
        PROVE  Entitled'
    <3>1. UNCHANGED session /\ UNCHANGED lease
      BY <2>4, <2>8 DEF session
    <3> QED
      BY <2>6, <3>1 DEF Entitled
  <2> QED
    BY <2>1, <2>2, <2>4, <2>5, <2>7, <2>8
<1>3. CASE OperatorSteps
  <2>1. Session!Next /\ lease.state # "running" /\ UNCHANGED executor
    BY <1>3, OperatorCalls DEF OperatorSteps
  <2>2. (Stacked /\ Returned /\ Covering({}))' /\ Session!IInv'
    BY <2>1, NothingMoves, SessionKeeps
  <2>3. Entitled'
    BY <2>1 DEF Entitled, executor, Active, Top
  <2> QED
    BY <2>1, <2>2, <2>3
<1>4. CASE UNCHANGED vars
  <2>1. UNCHANGED executor /\ UNCHANGED session
    BY <1>4 DEF vars
  <2>2. (Stacked /\ Returned /\ Covering({}))' /\ Session!IInv'
    BY <2>1, NothingMoves, SessionKeeps
  <2>3. Entitled'
    BY <2>1 DEF Entitled, executor, session, Active, Top
  <2> QED
    BY <2>1, <2>2, <2>3
<1> QED
  BY <1>1, <1>2, <1>3, <1>4 DEF Next

LEMMA SupervisedStarts == Init => SupervisedInv
BY IdleStarts, SessionStarts DEF Init, SupervisedInv, Entitled, Idle, Active

(* What the run and the operator do to the session, they do by the         *)
(* broker's calls: a supervised run is a session broker's, and all that    *)
(* is proved of one holds here.                                            *)
THEOREM SupervisionIsByTheBroker == Spec => Session!Spec
<1>1. Init => Session!Init
  BY DEF Init, Broker!Init, Session!Init, Broker!LeaseInit, Session!LeaseInit,
     Broker!QueueInit, Session!QueueInit, Broker!NewLease, Session!NewLease
<1>2. SupervisedInv /\ [Next]_vars => SupervisedInv' /\ [Session!Next]_(Session!vars)
  <2> HIDE DEF Session!Next, SupervisedInv
  <2> QED
    BY SupervisedCalls DEF Session!vars, session
<1> QED
  BY <1>1, <1>2, SupervisedStarts, PTL DEF Spec, Session!Spec

(* Success covers the plan, however often the run handed its session over  *)
(* and was resumed.                                                        *)
THEOREM SupervisedSuccessIsWhole == Spec => []SuccessCoversPlan
<1>1. SupervisedInv => SuccessCoversPlan
  BY DEF SupervisedInv, Covering, SuccessCoversPlan
<1> QED
  BY <1>1, SupervisedStarts, SupervisedCalls, PTL DEF Spec

(* A run that asked for a human left one request and went no further.      *)
THEOREM OneRequestIsLeft == Spec => []AskingLeavesOneRequest
<1>1. SupervisedInv => AskingLeavesOneRequest
  <2> SUFFICES ASSUME SupervisedInv, lease.state # "running"
               PROVE  /\ Cardinality(Broker!InState(Broker!Unresolved)) = 1
                      /\ Active => Top.at = "admission"
    BY DEF AskingLeavesOneRequest
  <2>1. Broker!InState(Broker!Unresolved) = Session!InState(Session!Unresolved)
    BY DEF Broker!InState, Session!InState, Broker!Unresolved, Session!Unresolved
  <2>2. PICK i : Session!InState(Session!Unresolved) = {i}
    BY LeaseTells
    DEF SupervisedInv, Session!IInv, Session!OneStory, Session!ControlStates,
        Session!PausedCanBeClaimed, Session!HeldByTheClaimant, Session!ReturnedIsReleased
  <2>3. Cardinality({i}) = 1
    BY FS_Singleton
  <2> QED
    BY <2>1, <2>2, <2>3 DEF SupervisedInv, Entitled
<1> QED
  BY <1>1, SupervisedStarts, SupervisedCalls, PTL DEF Spec

(* Automation acts in the application only while it holds the session.     *)
THEOREM OnlyTheEntitledAct == Spec => AutomationActsWhenEntitled
<1> DEFINE Acts == Navigated \/ RemedyActs \/ Dispatched
<1>1. SupervisedInv /\ [Next]_vars => [Acts => lease.holder = "automation"]_vars
  <2> SUFFICES ASSUME SupervisedInv, Acts
               PROVE  lease.holder = "automation"
    OBVIOUS
  <2>1. Active /\ Top.at # "admission"
    BY DEF Navigated, RemedyActs, AtRemedy, Dispatched, AtDispatch
  <2> QED
    BY <2>1, LeaseTells DEF SupervisedInv, Entitled
<1> QED
  BY <1>1, SupervisedStarts, SupervisedCalls, PTL DEF Spec, AutomationActsWhenEntitled

-----------------------------------------------------------------------------
(* A resume that skips what its postcondition shows done does not skip a   *)
(* reading, and one that fails to re-anchor does not ask again with        *)
(* nothing read.  Either is enough, and capabilities that are compiled     *)
(* from a recording declare no postcondition for what they extract.        *)
ReadingsAreRedone ==
  \/ \A k \in 1 .. Len(Plan) : Plan[k].does = "extract" => ~Plan[k].post
  \/ "unexpected_state" \notin Triggers

(* What was read before the handoff is there after it.                     *)
LEMMA ResumeKeeps ==
  ASSUME ReadingsAreRedone, Returned, Covering({}), Keeping, CallerResumes
  PROVE  Keeping'
<1>1. result.status = "needs_human" /\ UNCHANGED read
  BY DEF CallerResumes
<1>2. Kept(result.outputs, ResumeIndex) /\ read \subseteq Extracts
  BY <1>1, ResumesWhereItStopped DEF Keeping, Kept
<1>3. Len(Plan) \in Nat /\ ResumeIndex \in 1 .. Len(Plan) + 1
  BY ReplayAssumption, ResumesWhereItStopped
<1>4. ASSUME NEW n \in 1 .. Len(Plan) + 1,
             ReanchoredAt(n, ResumeIndex, result.outputs, result.recovery)
      PROVE  Keeping'
  <2>1. PICK f : frames' = <<f>> /\ f.index = n /\ f.outputs = result.outputs
                 /\ f.at = "admission"
    BY <1>4 DEF ReanchoredAt, NewFrame
  <2>2. frames'[1] = f /\ result'.status = "none"
    BY <1>4, <2>1 DEF ReanchoredAt, NoResult
  <2>3. Kept(result.outputs, n)
    <3>1. CASE "unexpected_state" \notin Triggers
      BY <1>2, <3>1 DEF Kept
    <3>2. CASE \A k \in 1 .. Len(Plan) : Plan[k].does = "extract" => ~Plan[k].post
      <4>1. n \in ResumePoints(ResumeIndex)
        BY <1>4 DEF ReanchoredAt
      <4>2. ASSUME NEW k \in read, k \in Before(n)
            PROVE  k \in Before(ResumeIndex)
        BY <1>2, <1>3, <3>2, <4>1, <4>2 DEF Before, Extracts, ResumePoints
      <4>3. read \cap Before(n) \subseteq Before(ResumeIndex)
        BY <4>2
      <4> QED
        BY <1>2, <4>3 DEF Kept
    <3> QED
      BY <3>1, <3>2 DEF ReadingsAreRedone
  <2>4. Kept(f.outputs, f.index)'
    BY <1>1, <2>1, <2>3 DEF Kept, Before
  <2> QED
    BY <1>1, <1>2, <2>1, <2>2, <2>4 DEF Keeping, Kept, Before, Extracts
<1>5. CASE NotReanchored(ResumeIndex)
  <2>1. /\ frames' = <<>> /\ result'.outputs = {} /\ result'.index = 0
        /\ result'.status = "needs_human" <=> "unexpected_state" \in Triggers
        /\ result'.status # "success"
    BY <1>5 DEF NotReanchored, Failure, NewFrame, CallerResumes, Active
  <2>2. Before(0) = {}
    BY <1>3 DEF Before
  <2> QED
    BY <1>1, <1>2, <2>1, <2>2 DEF Keeping, Kept, Active, Before, Extracts
<1> QED
  BY <1>4, <1>5 DEF CallerResumes

(* A run that succeeds returns everything that was read for its task,      *)
(* before a handoff or after it ("a resumed run returns everything it      *)
(* read", ReplayExecutor.resume), for every capability whose readings are  *)
(* redone.                                                                 *)
THEOREM ResumedRunsReturnAllTheyRead ==
  ASSUME ReadingsAreRedone
  PROVE  Spec => []SuccessReturnsAllRead
<1> DEFINE Inv == SupervisedInv /\ Keeping
<1>1. Init => Inv
  BY SupervisedStarts, IdleStarts DEF Init
<1>2. Inv /\ [Next]_vars => Inv'
  <2> SUFFICES ASSUME SupervisedInv, Keeping, [Next]_vars
               PROVE  Keeping'
    BY SupervisedCalls
  <2>1. CASE \E fresh \in BOOLEAN : CallerRuns(fresh)
    BY <2>1, RunStarts DEF CallerRuns
  <2>2. CASE CallerResumes
    BY <2>2, ResumeKeeps DEF SupervisedInv
  <2>3. CASE ExecutorSteps
    BY <2>3, ExecutorIsShaped, StepsKeep DEF SupervisedInv
  <2>4. CASE OperatorSteps \/ UNCHANGED vars
    <3>1. UNCHANGED executor
      BY <2>4 DEF OperatorSteps, vars
    <3> QED
      BY <3>1, NothingIsLost
  <2> QED
    BY <2>1, <2>2, <2>3, <2>4 DEF Next
<1>3. Inv => SuccessReturnsAllRead
  BY DEF Keeping, SuccessReturnsAllRead
<1> QED
  BY <1>1, <1>2, <1>3, PTL DEF Spec
=============================================================================
