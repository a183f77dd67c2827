--------------------------- MODULE SupervisedRun ---------------------------
(***************************************************************************)
(* A replay under a session broker: the executor asks for a human through  *)
(* the broker, the operator takes the session and gives it back, and the   *)
(* caller resumes the run from what the result says                        *)
(* (src/src/cua/cli/demo.py, Demo.escalation).  The caller may also run an *)
(* executor it used before the handoff, or run while an operator holds the *)
(* session: the lease is there to refuse both.                             *)
(***************************************************************************)
EXTENDS ReplayExecutor

CONSTANTS Operators, NoOperator, Screens, NoSnapshot, NotCaptured, Ids,
          NoHandoff, MaxEpoch, MaxActions,
          MaxRuns      \* bound: runs and resumes asked for

VARIABLES lease, requests, handoff, pendingBefore, screen,
          held,        \* executor.lease_epoch, 0 for None
          runs         \* runs and resumes asked for so far

Broker == INSTANCE SessionBroker

session == <<lease, requests, handoff, pendingBefore, screen>>
vars    == <<executor, session, held, runs>>

(* A broker refuses to escalate a session that is not running, and _fail   *)
(* does not catch it: no capability may ask for a human over a lost lease. *)
ASSUME SupervisedAssumption ==
  /\ NoOperator \notin Operators
  /\ NoSnapshot \notin Screens
  /\ NotCaptured \notin Screens \X Screens
  /\ NoHandoff \notin Broker!HandoffRecord
  /\ MaxEpoch \in Nat /\ MaxActions \in Nat
  /\ "lease_lost" \notin Triggers
  /\ MaxRuns \in Nat

-----------------------------------------------------------------------------
Init ==
  /\ Idle
  /\ Broker!Init
  /\ held = 0
  /\ runs = 0

(* Slip: the epoch alone is taken to show who holds the session.           *)
LeaseNotExpired == ~Broker!Expired(lease)

(* _lease_available and _epochs, read afresh each time.                    *)
LeaseAvailable == lease.holder = "automation" /\ ~Broker!Expired(lease)
Stale          == held # lease.epoch

(* _fail opens the intervention as it returns NEEDS_HUMAN.                 *)
Asks(forHuman) ==
  IF forHuman
    THEN \E i \in Ids, snapshot \in {screen, NoSnapshot} : Broker!Escalate(i, snapshot)
    ELSE UNCHANGED session

Asked == /\ runs < MaxRuns
         /\ runs' = runs + 1

(* run: only an executor that has no epoch yet adopts the lease's.         *)
CallerRuns(fresh) ==
  /\ Asked
  /\ Run
  /\ held' = IF fresh \/ held = 0 THEN lease.epoch ELSE held
  /\ UNCHANGED session

(* Slip: steps_executed, which counts a step that failed, is the index.    *)
ResumeAfter == IF result.index = 0 THEN 1 ELSE result.index + 1

(* resume adopts whatever epoch the lease is at.                           *)
ResumeIndex == IF result.index = 0 THEN 1 ELSE result.index

CallerResumes ==
  /\ Asked
  /\ result.status = "needs_human"
  /\ held' = lease.epoch
  /\ \/ /\ \E n \in 1 .. Len(Plan) + 1 :
             ReanchoredAt(n, ResumeIndex, result.outputs, result.recovery)
        /\ UNCHANGED session
     \/ /\ NotReanchored(ResumeIndex)
        /\ Asks("unexpected_state" \in Triggers)
  /\ ~Active
  /\ UNCHANGED <<spent, read>>

ExecutorSteps ==
  /\ \/ IF LeaseAvailable THEN Beginning ELSE BeginningUnentitled
     \/ IF Stale THEN DispatchingStale ELSE Dispatching
     \/ Deciding
  /\ Asks(result'.status = "needs_human")
  /\ UNCHANGED <<held, runs>>

OperatorSteps ==
  /\ \/ \E i \in Ids, operator \in Operators : Broker!Claim(i, operator, "ahead")
     \/ \E after \in {screen, NoSnapshot} : Broker!Release(after)
     \/ Broker!Resume
     \/ Broker!HoldLapses
     \/ Broker!Sweep
  /\ UNCHANGED <<executor, held, runs>>

Next ==
  \/ \E fresh \in BOOLEAN : CallerRuns(fresh)
  \/ CallerResumes
  \/ ExecutorSteps
  \/ OperatorSteps

Spec == Init /\ [][Next]_vars

-----------------------------------------------------------------------------
(* Automation reaches the application only while it holds the session,     *)
(* although a run may begin, or be resumed under the epoch of the moment,  *)
(* while an operator works in it (_lease_available says why the epoch      *)
(* alone does not show that).                                              *)
AutomationActsWhenEntitled ==
  [][Navigated \/ RemedyActs \/ Dispatched => lease.holder = "automation"]_vars

(* A failure that asks for a human opens one intervention, whichever frame *)
(* it arose in, and the run is over by then: nobody acts beside the        *)
(* operator (_fail).                                                       *)
AskingLeavesOneRequest ==
  lease.state # "running" =>
    /\ Cardinality(Broker!InState(Broker!Unresolved)) = 1
    /\ Active => Top.at = "admission"
=============================================================================
