----------------------------- MODULE FaultMatrix -----------------------------
(***************************************************************************)
(* Replay of the reference capabilities (tests/fixtures/capabilities)      *)
(* against the back office, screen by screen: what replay/executor.py does *)
(* with what it sees there, with a fault armed before the run or while it  *)
(* goes on, and pages that take as long as they take.                      *)
(*                                                                         *)
(* ReplayExecutor has the loop with every answer a screen could give.      *)
(* Here the screens give the answers.                                      *)
(***************************************************************************)
EXTENDS ReferenceCapabilities

CONSTANT MaxRecoveryTotal  \* max_recovery_attempts_total

ASSUME RecoveryAssumption == MaxRecoveryTotal \in Nat

VARIABLES task,      \* the capability, its inputs, whether the secrets are right,
                     \* and what was armed when the run began
          stack,     \* <<the run>> or <<the run, the capability its remedy runs>>
          at,        \* what the top of the stack is doing
          held,      \* the screen it looked at last
          seen,      \* the screen the wait looked at in its last turn
          outputs, recovery, result,
          midway,    \* a fault was armed during the run
          hurried    \* a deadline was over before the application had answered

run  == <<task, stack, at, held, seen, outputs, recovery, result, midway, hurried>>
vars == <<run, bank>>

Top        == stack[Len(stack)]
Nested     == Len(stack) = 2
Capability == IF Nested THEN SignOn ELSE Capabilities[task.capability]
Step       == Capability.steps[Top.index]
Inputs     == IF Nested THEN [s \in {} |-> s] ELSE task.inputs

Frame == [index |-> 1, attempts |-> 0]

Turns(frame) == stack' = [stack EXCEPT ![Len(stack)] = frame]

NoResult == [status |-> "none", code |-> "none", outputs |-> {}]

(* The run ends.                                                           *)
Ends(status, code, returned) ==
  /\ result' = [status |-> status, code |-> code, outputs |-> returned]
  /\ at' = "over"
  /\ stack' = <<Frame>>
  /\ held' = NoScreen /\ seen' = NoScreen
  /\ outputs' = {}

(* _fail; what a remedy's capability fails with, the run fails with.       *)
Fails(code) ==
  IF code \in Triggered THEN Ends("needs_human", code, outputs) ELSE Ends("failed", code, {})

Looking == UNCHANGED <<task, recovery, midway, hurried>>

(* The account type and the deposit are the documents' examples.           *)
InputsFor(capability, member) ==
  IF capability = "open_subaccount"
    THEN [member_id |-> member, account_type |-> "savings", initial_deposit |-> "500.00"]
    ELSE [member_id |-> member]

-----------------------------------------------------------------------------
Init ==
  /\ session \in BOOLEAN
  /\ armed \in [Faults -> Counts \cup {0}]
  /\ request = NoRequest
  /\ content = Blank
  /\ failing = {}
  /\ opened = 0
  /\ task = [capability |-> "savings_balance", inputs |-> InputsFor("savings_balance", Nobody),
             valid |-> TRUE, session |-> session, armed |-> armed]
  /\ stack = <<Frame>>
  /\ at = "over"
  /\ held = NoScreen
  /\ seen = NoScreen
  /\ outputs = {}
  /\ recovery = 0
  /\ result = NoResult
  /\ midway = FALSE
  /\ hurried = FALSE

Starts(capability, member, valid) ==
  /\ at = "over"
  /\ task' = [capability |-> capability, inputs |-> InputsFor(capability, member),
              valid |-> valid, session |-> session, armed |-> armed]
  /\ stack' = <<Frame>>
  /\ recovery' = 0
  /\ result' = NoResult
  /\ midway' = FALSE /\ hurried' = FALSE
  /\ opened' = 0
  /\ UNCHANGED <<held, seen, outputs, session, armed>>

(* _execute: the entrypoint is loaded first, which is the shell.           *)
Begin(capability, member, valid) ==
  /\ Starts(capability, member, valid)
  /\ at' = "load"
  /\ ShowsShell

(* goto and reload return when everything has loaded.                      *)
Loaded ==
  /\ at = "load" /\ request = NoRequest
  /\ at' = "look"
  /\ Looking
  /\ UNCHANGED <<stack, held, seen, outputs, result, bank>>

-----------------------------------------------------------------------------
(* _run_step, or _verify_checkpoint after the last step.                   *)
AtStep       == at = "look" /\ Top.index <= Len(Capability.steps)
AtCheckpoint == at = "look" /\ Top.index > Len(Capability.steps)

Verdict ==
  Classify(Screen, Capability, Inputs,
           IF AtStep THEN Step.precondition ELSE Capability.checkpoint)

(* An answer, but no remedy.                                               *)
SeesOutcome ==
  /\ at = "look" /\ Verdict = "business_outcome"
  /\ IF Nested THEN Fails("recovery_exhausted")
     ELSE Ends("business_outcome",
               Capability.outcomes[First(Fires(Capability.outcomes, Screen, Inputs))].code, {})
  /\ Looking /\ UNCHANGED bank

(* _recover: one count of attempts for all rules of the step, and one for  *)
(* the run.  A reload is authorised like any action of the capability; the *)
(* steps of the capability another remedy runs are that one's own.         *)
SeesRecoverable ==
  /\ AtStep /\ Verdict = "recoverable"
  /\ recovery' = recovery + 1
  /\ LET rule == Capability.recovery[First(Fires(Capability.recovery, Screen, Inputs))]
     IN  IF recovery + 1 > MaxRecoveryTotal \/ Top.attempts + 1 > rule.max_attempts
           THEN Fails("recovery_exhausted") /\ UNCHANGED bank
         ELSE IF rule.remedy = "reload" /\ ~Permits(Capability, "reload")
           THEN Fails("policy_denied") /\ UNCHANGED bank
           ELSE /\ LET retried == [Top EXCEPT !.attempts = @ + 1]
                   IN  IF rule.remedy = "reload"
                         THEN Turns(retried) /\ at' = "load" /\ LoadShell
                         ELSE stack' = <<retried, Frame>> /\ UNCHANGED <<at, bank>>
                /\ UNCHANGED <<held, seen, outputs, result>>
  /\ UNCHANGED <<task, midway, hurried>>

SeesUnexpected ==
  /\ AtStep /\ Verdict = "unexpected_state"
  /\ Fails("unexpected_state")
  /\ Looking /\ UNCHANGED bank

SeesExpected ==
  /\ AtStep /\ Verdict = "expected"
  /\ at' = "act"
  /\ held' = Screen
  /\ Looking /\ UNCHANGED <<stack, seen, outputs, result, bank>>

CheckpointFails ==
  /\ AtCheckpoint /\ Verdict \notin {"expected", "business_outcome"}
  /\ Fails("checkpoint_failed")
  /\ Looking /\ UNCHANGED bank

CheckpointHolds ==
  /\ AtCheckpoint /\ Verdict = "expected"
  /\ IF Nested
       THEN /\ stack' = <<stack[1]>>
            /\ UNCHANGED <<at, held, seen, outputs, result>>
       ELSE Ends("success", "none", outputs)
  /\ Looking /\ UNCHANGED bank

-----------------------------------------------------------------------------
(* _dispatch_step, on the screen that was looked at.  None of the          *)
(* capabilities acts while a request is in flight, so the page is still    *)
(* the one that was looked at.                                             *)
Found == {node \in held.nodes : node.role = Step.target.role
                                /\ node[Step.target.by] = Step.target.is}

Control == CHOOSE node \in Found : TRUE

Settles ==
  /\ at' = "wait"
  /\ seen' = NoScreen
  /\ Looking /\ UNCHANGED <<stack, held, result>>

NotResolved ==
  /\ at = "act"
  /\ Cardinality(Found) # 1
  /\ Fails(IF Found = {} THEN "target_not_found" ELSE "target_ambiguous")
  /\ Looking /\ UNCHANGED bank

Types ==
  /\ at = "act" /\ Step.does \in {"type", "select"}
  /\ Cardinality(Found) = 1
  /\ Fill(Control.beside,
          IF Step.value.is = "input" THEN Inputs[Step.value.name]
          ELSE IF task.valid THEN "valid" ELSE "invalid")
  /\ Settles /\ UNCHANGED outputs

Clicks ==
  /\ at = "act" /\ Step.does = "click"
  /\ Cardinality(Found) = 1
  /\ Press(Control.name)
  /\ Settles /\ UNCHANGED outputs

(* What is found but reads as nothing is not a value.                      *)
ReadsNothing ==
  /\ at = "act" /\ Step.does = "extract"
  /\ Cardinality(Found) = 1 /\ Control.name = NoText
  /\ Fails("action_failed")
  /\ Looking /\ UNCHANGED bank

(* Slip: a value read takes the place of those read before it.             *)
ExtractsAlone ==
  /\ at = "act" /\ Step.does = "extract"
  /\ Cardinality(Found) = 1 /\ Control.name # NoText
  /\ outputs' = {Control.name}
  /\ Settles /\ UNCHANGED bank

Extracts ==
  /\ at = "act" /\ Step.does = "extract"
  /\ Cardinality(Found) = 1 /\ Control.name # NoText
  /\ outputs' = outputs \cup {Control.name}
  /\ Settles /\ UNCHANGED bank

-----------------------------------------------------------------------------
(* wait_for, then the postcondition on the screen that ended it.           *)
Awaited == IsAwaited(Step.wait, Screen, held, seen, Inputs)

WaitEnds ==
  /\ at = "wait" /\ Awaited
  /\ IF Evaluate(Step.postcondition, Screen, Inputs)
       THEN /\ Turns([index |-> Top.index + 1, attempts |-> 0])
            /\ at' = "look"
            /\ UNCHANGED <<held, seen, outputs, result>>
       ELSE Fails("precondition_failed")
  /\ Looking /\ UNCHANGED bank

WaitGoesOn ==
  /\ at = "wait" /\ ~Awaited
  /\ seen' = Screen
  /\ Looking /\ UNCHANGED <<stack, at, held, outputs, result, bank>>

TimesOut ==
  /\ at = "wait" /\ ~Awaited
  /\ Fails("timeout")
  /\ hurried' = (hurried \/ request # NoRequest \/ seen # Screen)
  /\ UNCHANGED <<task, recovery, midway, bank>>

-----------------------------------------------------------------------------
Answers ==
  /\ Serve
  /\ UNCHANGED <<task, stack, at, held, seen, outputs, recovery, result, midway, hurried>>

(* /_control/arm, once during a run.                                       *)
Arms(fault, count) ==
  /\ ~midway
  /\ Arm(fault, count)
  /\ midway' = (at # "over")
  /\ UNCHANGED <<task, stack, at, held, seen, outputs, recovery, result, hurried>>

Executes ==
  \/ Loaded
  \/ SeesOutcome \/ SeesRecoverable \/ SeesUnexpected \/ SeesExpected
  \/ CheckpointFails \/ CheckpointHolds
  \/ NotResolved \/ Types \/ Clicks \/ ReadsNothing \/ Extracts
  \/ WaitEnds \/ WaitGoesOn \/ TimesOut

Next ==
  \/ \E capability \in DOMAIN Capabilities, member \in Members, valid \in BOOLEAN :
       Begin(capability, member, valid)
  \/ Executes
  \/ Answers
  \/ \E fault \in Faults, count \in Counts : Arms(fault, count)

Spec == Init /\ [][Next]_vars

-----------------------------------------------------------------------------
On == task.inputs.member_id

Full == IF task.capability = "open_subaccount" THEN {Printed[On].reference}
        ELSE {Printed[On].balance, Printed[On].status, AsOf}

Negative ==
  CASE Account[On] = "not_on_file"   -> "member_not_found"
    [] Account[On] = "restricted"    -> "permission_denied"
    [] Account[On] = "checking_only" -> "no_savings_account"
    [] Account[On] = "savings"       -> "none"

(* Whatever fails and however long pages take, a run tells its caller the  *)
(* truth about the member it was asked about, or that it does not know:    *)
(* the outputs are all there and are that member's, a negative answer is   *)
(* the one the records give, and a request is recorded at most once, and   *)
(* exactly when a run says it was (classify: "no records found" must not   *)
(* be told from a page that did not load by guessing).                      *)
TheTruthOrNothing ==
  /\ opened <= 1
  /\ result.status = "success" =>
       /\ Account[On] = "savings"
       /\ result.outputs = Full
       /\ opened = IF task.capability = "open_subaccount" THEN 1 ELSE 0
  /\ result.status = "business_outcome" =>
       /\ result.code \in {Negative, "validation_rejected"}
       /\ result.code = "validation_rejected" => task.capability = "open_subaccount"
       /\ opened = 0

(* What the records call for.  A record that leaves a value blank calls    *)
(* for no answer, and for no person either.                                *)
IsAnswer ==
  IF Account[On] # "savings"
    THEN result.status = "business_outcome" /\ result.code = Negative
  ELSE IF NoText \in {Printed[On].balance, Printed[On].status}
    THEN result.status = "failed" /\ result.code = "action_failed"
  ELSE result.status = "success"

Only(fault) == \A other \in Faults \ {fault} : task.armed[other] = 0

(* The fault matrix of docs/design/error-taxonomy.md, for every member a   *)
(* capability knows about, and however slowly pages come, unless a         *)
(* deadline is over before the application has answered.                   *)
AsTheMatrixSays ==
  result.status # "none" /\ ~hurried /\ ~midway /\ task.session
  /\ task.capability \in {"savings_balance", "attentive_balance"} =>
    LET times(fault) == IF Only(fault) THEN task.armed[fault] ELSE 0
    IN  /\ (\A fault \in Faults : task.armed[fault] = 0) => IsAnswer
        /\ times("transient_load") = 1 => IsAnswer
        /\ times("transient_load") = -1 =>
             result.status = "needs_human" /\ result.code = "recovery_exhausted"
        /\ times("session_timeout") = 1 /\ task.valid => IsAnswer
        /\ times("session_timeout") = 1 /\ ~task.valid =>
             result.status = "needs_human" /\ result.code = "recovery_exhausted"
        /\ times("undeclared_dialog") # 0 =>
             result.status = "needs_human" /\ result.code = "unexpected_state"
             /\ result.outputs = {}
=============================================================================
