--------------------------- MODULE ReplayExecutor ---------------------------
(***************************************************************************)
(* Replay of one capability (src/src/cua/replay/executor.py): observe,     *)
(* classify, recover or dispatch, settle, one step after another, then the *)
(* checkpoint.  A recovery remedy may be another capability, which runs    *)
(* through the same loop: frames is the run's state and, while a remedy    *)
(* runs, the remedy's above it.                                            *)
(*                                                                         *)
(* The screen is left out: whatever a predicate, a resolution, a policy    *)
(* decision or the surface can answer, some step answers.  Indices count   *)
(* from 1, and 0 is None.                                                  *)
(***************************************************************************)
EXTENDS Naturals, Sequences, FiniteSets

CONSTANTS Plan,              \* the steps: what each does, which assertions it declares
          RemedyPlan,        \* those of the capability a remedy may run
          Rules,             \* the capability's recovery rules
          RemedyRules,       \* those of the remedy's capability
          MaxAttempts,       \* rule.max_attempts
          Remedies,          \* rule.remedy: actions and capability runs
          MaxRecoveryTotal,  \* max_recovery_attempts_total
          Triggers,          \* the codes on which a human is asked for
          HasEntrypoint      \* the entrypoint is a URL to load

StepRecord == [does : {"act", "extract", "assert", "wait"}, pre : BOOLEAN, post : BOOLEAN]

RefusalCodes  == {"policy_denied", "navigation_blocked", "lease_lost"}
DispatchCodes == RefusalCodes \cup {"target_not_found", "target_ambiguous", "action_failed"}
Codes == DispatchCodes \cup
  {"input_validation_failed", "precondition_failed", "checkpoint_failed", "timeout",
   "surface_unavailable", "recovery_exhausted", "unexpected_state"}

ASSUME ReplayAssumption ==
  /\ Plan \in Seq(StepRecord) /\ Plan # <<>>
  /\ RemedyPlan \in Seq(StepRecord)
  /\ RemedyRules \subseteq Rules
  /\ MaxAttempts \in [Rules -> Nat \ {0}]
  /\ Remedies \in [Rules -> Seq({"action", "capability"})]
  /\ MaxRecoveryTotal \in Nat
  /\ Triggers \subseteq Codes
  /\ HasEntrypoint \in BOOLEAN

VARIABLES frames,   \* <<>>, <<the run>> or <<the run, its remedy>>
          result,   \* the RunResult last returned
          spent,    \* recoveries attempted for this task, however it was resumed
          covered,  \* the steps done for this task: performed, or found done
          read      \* the steps whose output this task has read

executor == <<frames, result, spent, covered, read>>

(* step is error.step_id, index is intervention.step_index.                *)
NoResult ==
  [status |-> "none", code |-> "none", step |-> 0, index |-> 0,
   outputs |-> {}, recovery |-> 0]

(* A _State.  index is the step the loop is at, last is step_index.        *)
NewFrame(plan, mode, from, outputs, recovery) ==
  [plan |-> plan, mode |-> mode, at |-> "admission", index |-> from, last |-> 0,
   attempts |-> 0, recovery |-> recovery, outputs |-> outputs, left |-> <<>>]

-----------------------------------------------------------------------------
Top      == frames[Len(frames)]
Nested   == Len(frames) = 2
Active   == frames # <<>>
PlanOf(f)  == IF f.plan = "remedy" THEN RemedyPlan ELSE Plan
RulesOf(f) == IF f.plan = "remedy" THEN RemedyRules ELSE Rules
StepOf(f)  == PlanOf(f)[f.index]

Becomes(f) == frames' = [frames EXCEPT ![Len(frames)] = f]

(* Slip: the remedy's recoveries are not written back.                     *)
AnsweringAfresh(f) == IF Nested THEN frames[1] ELSE f

(* The run a frame's ending is reported to, with the recoveries it shares. *)
Answering(f) == IF Nested THEN [frames[1] EXCEPT !.recovery = f.recovery] ELSE f

(* _fail: the run asks for a human if the code is a trigger.  Only an      *)
(* escalation carries what was read so far.                                *)
Failure(f, code, step) ==
  LET escalates == code \in Triggers
  IN  [status   |-> IF escalates THEN "needs_human" ELSE "failed",
       code     |-> code,
       step     |-> step,
       index    |-> IF escalates THEN f.last ELSE 0,
       outputs  |-> IF escalates THEN f.outputs ELSE {},
       recovery |-> f.recovery]

(* Slip: a failing remedy asks for a human itself, and the run carries on. *)
FailsAlone(f, code, named) ==
  /\ frames' = IF Nested THEN <<Answering(f)>> ELSE <<>>
  /\ result' = Failure(f, code, IF named THEN f.index ELSE 0)

(* A failing remedy fails the run it serves, under its own code but        *)
(* without naming a step.                                                  *)
Fails(f, code, named) ==
  /\ frames' = <<>>
  /\ result' = Failure(Answering(f), code, IF named /\ ~Nested THEN f.index ELSE 0)

(* A declared business outcome is the run's answer, but no remedy.         *)
Answers(f) ==
  IF Nested
    THEN Fails(f, "recovery_exhausted", FALSE)
    ELSE /\ frames' = <<>>
         /\ result' = [NoResult EXCEPT !.status = "business_outcome"]

Advance(f) ==
  [f EXCEPT !.index = @ + 1, !.attempts = 0,
            !.at = IF f.index = Len(PlanOf(f)) THEN "checkpoint" ELSE "observe"]

Entered(f) ==
  [f EXCEPT !.at = IF f.index > Len(PlanOf(f)) THEN "checkpoint" ELSE "observe"]

-----------------------------------------------------------------------------
Idle ==
  /\ frames = <<>>
  /\ result = NoResult
  /\ spent = 0
  /\ covered = {}
  /\ read = {}

Run ==
  /\ ~Active
  /\ frames' = <<NewFrame("run", "run", 1, {}, 0)>>
  /\ result' = NoResult
  /\ spent' = 0
  /\ covered' = {}
  /\ read' = {}

(* reconcile: skip the steps whose postcondition shows, and stop at the    *)
(* first that can be acted from.                                           *)
ResumePoints(from) ==
  {n \in from .. Len(Plan) + 1 : \A k \in from .. n - 1 : Plan[k].post}

CannotReanchor(from) ==
  \E n \in ResumePoints(from) : n <= Len(Plan) /\ Plan[n].pre

(* Slip: what was read before the handoff is dropped.                      *)
ReanchoredEmpty(n, from, outputs, recovery) ==
  /\ n \in ResumePoints(from)
  /\ frames' = <<NewFrame("run", "resume", n, {}, recovery)>>
  /\ result' = NoResult
  /\ covered' = covered \cup from .. n - 1

ReanchoredAt(n, from, outputs, recovery) ==
  /\ n \in ResumePoints(from)
  /\ frames' = <<NewFrame("run", "resume", n, outputs, recovery)>>
  /\ result' = NoResult
  /\ covered' = covered \cup from .. n - 1

(* The _State that fails is a fresh one.                                   *)
NotReanchored(from) ==
  /\ CannotReanchor(from)
  /\ result' = Failure(NewFrame("run", "resume", from, {}, 0), "unexpected_state", 0)
  /\ UNCHANGED <<frames, covered>>

Resume(from, outputs, recovery) ==
  /\ ~Active
  /\ \/ \E n \in 1 .. Len(Plan) + 1 : ReanchoredAt(n, from, outputs, recovery)
     \/ NotReanchored(from)
  /\ UNCHANGED <<spent, read>>

(* _execute before its first step: lease, step budget, inputs and approval *)
(* are checked; only the lease can have changed by the time of a resume.   *)
Refused(code) ==
  /\ Active /\ Top.at = "admission"
  /\ \/ code = "lease_lost"
     \/ Top.mode = "run" /\ code \in {"policy_denied", "input_validation_failed"}
  /\ Fails(Top, code, FALSE)
  /\ UNCHANGED <<spent, covered, read>>

Admitted ==
  /\ Active /\ Top.at = "admission"
  /\ IF Top.index = 1 /\ HasEntrypoint
       THEN Becomes([Top EXCEPT !.at = "navigation"])
       ELSE Becomes(Entered(Top))
  /\ UNCHANGED <<result, spent, covered, read>>

(* The entrypoint is loaded.                                               *)
Navigated ==
  /\ Active /\ Top.at = "navigation"
  /\ Becomes(Entered(Top))
  /\ UNCHANGED <<result, spent, covered, read>>

NotReached(code) ==
  /\ Active /\ Top.at = "navigation"
  /\ code \in RefusalCodes \cup {"action_failed", "surface_unavailable"}
  /\ Fails(Top, code, FALSE)
  /\ UNCHANGED <<spent, covered, read>>

-----------------------------------------------------------------------------
(* One turn of _run_step's loop.                                           *)
AtStep == Active /\ Top.at = "observe"

Here == [Top EXCEPT !.last = Top.index]

Overrun ==
  /\ AtStep
  /\ Fails(Here, "timeout", TRUE)
  /\ UNCHANGED <<spent, covered, read>>

ObserveOutcome ==
  /\ AtStep
  /\ Answers(Here)
  /\ UNCHANGED <<spent, covered, read>>

(* _recover: the run's budget is checked before the rule's.                *)
Exhausted(f, rule) ==
  \/ f.recovery > MaxRecoveryTotal
  \/ f.attempts > MaxAttempts[rule]

ObserveRecoverable(rule) ==
  /\ AtStep
  /\ rule \in RulesOf(Top)
  /\ LET f == [Here EXCEPT !.attempts = @ + 1, !.recovery = @ + 1]
     IN  IF Exhausted(f, rule)
           THEN Fails(f, "recovery_exhausted", FALSE) /\ UNCHANGED spent
           ELSE /\ Becomes([f EXCEPT !.at = "remedy", !.left = Remedies[rule]])
                /\ spent' = spent + 1
                /\ UNCHANGED result
  /\ UNCHANGED <<covered, read>>

ObserveUnexpected ==
  /\ AtStep
  /\ StepOf(Top).pre
  /\ Fails(Here, "unexpected_state", TRUE)
  /\ UNCHANGED <<spent, covered, read>>

ObserveExpected ==
  /\ AtStep
  /\ Becomes([Here EXCEPT !.at = "dispatch"])
  /\ UNCHANGED <<result, spent, covered, read>>

-----------------------------------------------------------------------------
(* The remedies of a rule, one after another.                              *)
AtRemedy == Active /\ Top.at = "remedy"

RemedyDone ==
  /\ AtRemedy
  /\ Top.left = <<>>
  /\ Becomes([Top EXCEPT !.at = "observe"])
  /\ UNCHANGED <<result, spent, covered, read>>

RemedyActs ==
  /\ AtRemedy
  /\ Top.left # <<>> /\ Head(Top.left) = "action"
  /\ Becomes([Top EXCEPT !.left = Tail(@)])
  /\ UNCHANGED <<result, spent, covered, read>>

RemedyRefused(code) ==
  /\ AtRemedy
  /\ Top.left # <<>> /\ Head(Top.left) = "action"
  /\ code \in DispatchCodes
  /\ Fails(Top, code, FALSE)
  /\ UNCHANGED <<spent, covered, read>>

(* Unknown, tampered with, over budget, given bad inputs, or unapproved;   *)
(* and remedies do not nest.                                               *)
CapabilityRefused(code) ==
  /\ AtRemedy
  /\ Top.left # <<>> /\ Head(Top.left) = "capability"
  /\ code \in IF Nested THEN {"recovery_exhausted"} ELSE {"recovery_exhausted", "policy_denied"}
  /\ Fails(Top, code, FALSE)
  /\ UNCHANGED <<spent, covered, read>>

(* Slip: the remedy is not ticked off when its capability starts.          *)
CapabilityRunsAgain ==
  /\ AtRemedy
  /\ Top.left # <<>> /\ Head(Top.left) = "capability"
  /\ ~Nested
  /\ frames' = <<Top, Entered(NewFrame("remedy", "run", 1, {}, Top.recovery))>>
  /\ UNCHANGED <<result, spent, covered, read>>

(* It starts on the screen the condition was found on.                     *)
CapabilityRuns ==
  /\ AtRemedy
  /\ Top.left # <<>> /\ Head(Top.left) = "capability"
  /\ ~Nested
  /\ frames' = <<[Top EXCEPT !.left = Tail(@)],
                 Entered(NewFrame("remedy", "run", 1, {}, Top.recovery))>>
  /\ UNCHANGED <<result, spent, covered, read>>

-----------------------------------------------------------------------------
(* _dispatch_step.                                                         *)
AtDispatch(kinds) == Active /\ Top.at = "dispatch" /\ StepOf(Top).does \in kinds

Done(f) == covered' = IF Nested THEN covered ELSE covered \cup {f.index}

(* An unbound reference.                                                   *)
BindingFails ==
  /\ AtDispatch({"act", "extract", "assert", "wait"})
  /\ Fails(Top, "input_validation_failed", TRUE)
  /\ UNCHANGED <<spent, covered, read>>

(* Assertions and waits are answered from snapshots, without a dispatch.   *)
ConditionHolds ==
  /\ AtDispatch({"assert", "wait"})
  /\ Becomes(Advance(Top))
  /\ Done(Top)
  /\ UNCHANGED <<result, spent, read>>

ConditionFails ==
  /\ AtDispatch({"assert", "wait"})
  /\ Fails(Top, IF StepOf(Top).does = "assert" THEN "precondition_failed" ELSE "timeout", TRUE)
  /\ UNCHANGED <<spent, covered, read>>

Dispatched ==
  /\ AtDispatch({"act"})
  /\ Becomes([Top EXCEPT !.at = "settle"])
  /\ Done(Top)
  /\ UNCHANGED <<result, spent, read>>

(* An extraction reads the snapshot: once its target is resolved, what     *)
(* policy and driver say of the dispatch is ignored.                       *)
DispatchFails(code) ==
  /\ AtDispatch({"act", "extract"})
  /\ code \in IF StepOf(Top).does = "act"
                THEN DispatchCodes
                ELSE DispatchCodes \ {"policy_denied", "navigation_blocked"}
  /\ Fails(Top, code, TRUE)
  /\ UNCHANGED <<spent, covered, read>>

Extracted ==
  /\ AtDispatch({"extract"})
  /\ Becomes([Top EXCEPT !.at = "settle", !.outputs = @ \cup {Top.index}])
  /\ Done(Top)
  /\ read' = IF Nested THEN read ELSE read \cup {Top.index}
  /\ UNCHANGED <<result, spent>>

(* The step's wait and its postcondition.                                  *)
Settled ==
  /\ Active /\ Top.at = "settle"
  /\ Becomes(Advance(Top))
  /\ UNCHANGED <<result, spent, covered, read>>

NeverSettles ==
  /\ Active /\ Top.at = "settle"
  /\ Fails(Top, "timeout", TRUE)
  /\ UNCHANGED <<spent, covered, read>>

EffectMissing ==
  /\ Active /\ Top.at = "settle"
  /\ StepOf(Top).post
  /\ Fails(Top, "precondition_failed", TRUE)
  /\ UNCHANGED <<spent, covered, read>>

-----------------------------------------------------------------------------
(* _verify_checkpoint.  A recoverable condition is no longer recovered.    *)
AtCheckpoint == Active /\ Top.at = "checkpoint"

CheckpointOutcome ==
  /\ AtCheckpoint
  /\ Answers(Top)
  /\ UNCHANGED <<spent, covered, read>>

CheckpointFails ==
  /\ AtCheckpoint
  /\ Fails(Top, "checkpoint_failed", FALSE)
  /\ UNCHANGED <<spent, covered, read>>

CheckpointHolds ==
  /\ AtCheckpoint
  /\ IF Nested
       THEN frames' = <<Answering(Top)>> /\ UNCHANGED result
       ELSE /\ frames' = <<>>
            /\ result' = [NoResult EXCEPT !.status = "success", !.outputs = Top.outputs,
                                          !.recovery = Top.recovery]
  /\ UNCHANGED <<spent, covered, read>>

-----------------------------------------------------------------------------
(* What depends on the lease: whether automation may begin, and whether a  *)
(* dispatch finds the epoch it holds stale.  A run without a broker always *)
(* may, and never does.                                                    *)
Beginning ==
  \/ Admitted
  \/ \E code \in Codes \ {"lease_lost"} : Refused(code)

BeginningUnentitled == Refused("lease_lost")

Dispatching ==
  \/ Navigated
  \/ RemedyActs
  \/ Dispatched
  \/ Extracted
  \/ \E code \in Codes \ {"lease_lost"} :
       NotReached(code) \/ RemedyRefused(code) \/ DispatchFails(code)

DispatchingStale ==
  NotReached("lease_lost") \/ RemedyRefused("lease_lost") \/ DispatchFails("lease_lost")

Deciding ==
  \/ Overrun
  \/ ObserveOutcome
  \/ \E rule \in Rules : ObserveRecoverable(rule)
  \/ ObserveUnexpected
  \/ ObserveExpected
  \/ RemedyDone
  \/ \E code \in Codes : CapabilityRefused(code)
  \/ CapabilityRuns
  \/ BindingFails
  \/ ConditionHolds
  \/ ConditionFails
  \/ Settled
  \/ NeverSettles
  \/ EffectMissing
  \/ CheckpointOutcome
  \/ CheckpointFails
  \/ CheckpointHolds

Step == Beginning \/ Dispatching \/ Deciding

ReplayNext == Run \/ Step

ReplaySafety == Idle /\ [][ReplayNext]_executor

-----------------------------------------------------------------------------
(* A run never attempts more recoveries than its total, those its remedies *)
(* attempt included (_recover, and the write-back after a remedy).         *)
RecoveriesWithinTotal == spent <= MaxRecoveryTotal

(* Success is not reported over a step that was neither performed nor seen *)
(* to be done already, whatever was recovered, resumed or skipped.         *)
SuccessCoversPlan == result.status = "success" => covered = 1 .. Len(Plan)

(* A run that succeeds returns everything it read ("a resumed run returns  *)
(* everything it read", ReplayExecutor.resume).                            *)
SuccessReturnsAllRead == result.status = "success" => read = result.outputs

(* Every run ends, although remedies run capabilities that recover in turn *)
(* ("terminates rather than recursing", _run_capability).                  *)
EveryRunEnds == Active ~> ~Active
=============================================================================
