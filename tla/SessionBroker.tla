--------------------------- MODULE SessionBroker ---------------------------
(***************************************************************************)
(* The broker of one session (src/src/cua/hitl/broker.py): a lease, a      *)
(* queue of intervention requests and the record of the current handoff,   *)
(* kept in step by its calls.  Here each call runs alone, as it does when  *)
(* one thread owns the session; module Console interleaves them.           *)
(*                                                                         *)
(* A call that raises before it has changed anything is not a step.        *)
(***************************************************************************)
EXTENDS Lease, InterventionQueue

CONSTANTS NoHandoff,   \* broker.handoff is None
          MaxEpoch,    \* bound: no claim at this epoch or later
          MaxActions   \* bound: gestures counted in one handoff

HandoffRecord ==
  [ intervention : Ids,
    operator     : Operators,
    actions      : Nat,
    before       : Screens \cup {NoSnapshot},
    delta        : Deltas ]

ASSUME BrokerAssumption ==
  /\ NoHandoff \notin HandoffRecord
  /\ MaxEpoch \in Nat
  /\ MaxActions \in Nat

VARIABLES handoff,
          pendingBefore,   \* _pending_before: the snapshot of the escalation
          screen           \* what the application shows

vars == <<lease, requests, handoff, pendingBefore, screen>>

-----------------------------------------------------------------------------
Init ==
  /\ LeaseInit
  /\ QueueInit
  /\ handoff = NoHandoff
  /\ pendingBefore = NoSnapshot
  /\ screen \in Screens

(* What the run does while it holds the session. *)
AutomationActs(after) ==
  /\ lease.state = "running"
  /\ screen' = after
  /\ UNCHANGED <<lease, requests, handoff, pendingBefore>>

Escalate(i, snapshot) ==
  /\ LeaseEscalate
  /\ QueueOpen(i)
  /\ pendingBefore' = snapshot
  /\ UNCHANGED <<handoff, screen>>

Claim(i, operator, deadline) ==
  /\ lease.epoch < MaxEpoch
  /\ QueueClaim(i, operator)
  /\ LeaseClaim(operator, deadline)
  /\ handoff' = [intervention |-> i, operator |-> operator, actions |-> 0,
                 before |-> pendingBefore, delta |-> NotCaptured]
  /\ UNCHANGED <<pendingBefore, screen>>

(* Slip: the operator is put back, the state is not.                       *)
RestoredByHalf(claimed, i, prior) ==
  [claimed EXCEPT ![i].operator = prior.operator]

(* The hold overflows the clock: the lease refuses after the queue was     *)
(* changed, and the broker puts the request back as it found it.           *)
Restored(claimed, i, prior) ==
  [claimed EXCEPT ![i].state = prior.state, ![i].operator = prior.operator]

ClaimOverflows(i, operator) ==
  /\ requests[i].state \in Claimable
  /\ lease.state = "paused"
  /\ LET claimed == [requests EXCEPT ![i].state = "claimed", ![i].operator = operator]
     IN  requests' = Restored(claimed, i, requests[i])
  /\ UNCHANGED <<lease, handoff, pendingBefore, screen>>

(* An operator's gesture, performed or refused by policy: counted either   *)
(* way.  confirm_action differs only in what it lets policy permit.        *)
OperatorActs(after) ==
  /\ MayAct(lease, "human", lease.epoch)
  /\ IF handoff = NoHandoff
       THEN UNCHANGED handoff
       ELSE /\ handoff.actions < MaxActions
            /\ handoff' = [handoff EXCEPT !.actions = @ + 1]
  /\ screen' = after
  /\ UNCHANGED <<lease, requests, pendingBefore>>

HumanAction(after)   == lease.state = "human_control" /\ OperatorActs(after)
ConfirmAction(after) == OperatorActs(after)

Release(after) ==
  /\ handoff # NoHandoff
  /\ LeaseRelease
  /\ LET delta == Diff(handoff.before, after)
     IN  /\ handoff' = [handoff EXCEPT !.delta =
                          IF delta = NotCaptured THEN @ ELSE delta]
         /\ QueueRelease(handoff.intervention, handoff.actions, delta)
  /\ UNCHANGED <<pendingBefore, screen>>

Sweep ==
  /\ LeaseReclaimExpired
  /\ IF handoff = NoHandoff
       THEN UNCHANGED <<requests, handoff>>
       ELSE QueueAbandon(handoff.intervention) /\ handoff' = NoHandoff
  /\ UNCHANGED <<pendingBefore, screen>>

Resume ==
  /\ LeaseResume
  /\ IF handoff = NoHandoff
       THEN UNCHANGED requests
       ELSE QueueResolve(handoff.intervention)
  /\ UNCHANGED <<handoff, pendingBefore, screen>>

HoldLapses == Lapse /\ UNCHANGED <<requests, handoff, pendingBefore, screen>>

Next ==
  \/ \E after \in Screens : AutomationActs(after)
  \/ \E i \in Ids, snapshot \in {screen, NoSnapshot} : Escalate(i, snapshot)
  \/ \E i \in Ids, operator \in Operators, deadline \in {"ahead", "passed"} :
       Claim(i, operator, deadline)
  \/ \E i \in Ids, operator \in Operators : ClaimOverflows(i, operator)
  \/ \E after \in Screens : HumanAction(after)
  \/ \E after \in Screens : ConfirmAction(after)
  \/ \E after \in {screen, NoSnapshot} : Release(after)
  \/ Sweep
  \/ Resume
  \/ HoldLapses

Spec == Init /\ [][Next]_vars

(* Time passes, and an open console polls /api/state, which sweeps; the    *)
(* release endpoint calls resume itself.  No person is obliged to act.     *)
Fairness == WF_vars(HoldLapses) /\ WF_vars(Sweep) /\ WF_vars(Resume)

FairSpec == Spec /\ Fairness

-----------------------------------------------------------------------------
(* The shape of the broker's state; actions never pass their bounds.       *)
TypeOK ==
  /\ lease \in LeaseRecord
  /\ requests \in [Ids -> RequestRecord]
  /\ handoff \in HandoffRecord \cup {NoHandoff}
  /\ pendingBefore \in Screens \cup {NoSnapshot}
  /\ screen \in Screens

(* The fields of a lease agree: control_state names the holder, only a     *)
(* hold has a deadline, and nobody is named as operator of a session that  *)
(* waits for one or runs by itself (lease.py, every transition).           *)
LeaseCoherent ==
  /\ lease.state = "running" <=> lease.holder = "automation"
  /\ lease.state = "human_control" <=> lease.holder = "human"
  /\ lease.state = "human_control" <=> lease.expires # "none"
  /\ lease.state \in {"running", "paused"} <=> lease.operator = NoOperator

(* The lease, the queue and the handoff record are three objects written   *)
(* by separate calls, and they tell one story: a running session has       *)
(* nothing unsettled; a paused one has exactly one request and it can be   *)
(* claimed, so no lapse, overflow or refusal strands it; a held one has    *)
(* exactly one, claimed by the operator the lease and the handoff name; a  *)
(* returned one has exactly one, released.                                 *)
SettledWhileRunning ==
  lease.state = "running" => InState(Unresolved) = {}

PausedCanBeClaimed ==
  lease.state = "paused" =>
    \E i \in Ids : InState(Unresolved) = {i} /\ requests[i].state \in Claimable

HeldByTheClaimant ==
  lease.state = "human_control" =>
    /\ handoff # NoHandoff
    /\ InState(Unresolved) = {handoff.intervention}
    /\ requests[handoff.intervention].state = "claimed"
    /\ requests[handoff.intervention].operator = lease.operator
    /\ handoff.operator = lease.operator

ReturnedIsReleased ==
  lease.state = "resuming" =>
    /\ handoff # NoHandoff
    /\ InState(Unresolved) = {handoff.intervention}
    /\ requests[handoff.intervention].state = "released"

OneStory ==
  /\ SettledWhileRunning
  /\ PausedCanBeClaimed
  /\ HeldByTheClaimant
  /\ ReturnedIsReleased

(* What a released request says of the operator's work is final: later     *)
(* handoffs, sweeps and resumes neither rewrite nor reopen it              *)
(* (queue.resolve and queue.abandon check nothing themselves).             *)
AuditRecordIsFinal ==
  [][\A i \in Ids : requests[i].state \in {"released", "resolved"} =>
        /\ requests'[i].state \in {"released", "resolved"}
        /\ requests'[i] = [requests[i] EXCEPT !.state = requests'[i].state]]_vars

(* An operator who walks away does not keep the session: every hold ends,  *)
(* by a release or by a sweep after it lapses (broker.sweep).              *)
EveryHoldEnds ==
  lease.state = "human_control" ~> lease.state # "human_control"

(* The broker implements the promise: what an observer of the queue sees   *)
(* is SupervisedSession, one lease epoch per step.                         *)
Phase ==
  IF InState(Claimable) # {}         THEN "waiting"
  ELSE IF InState({"claimed"}) # {}  THEN "held"
  ELSE IF InState({"released"}) # {} THEN "returned"
  ELSE "automated"

Asking == InState(Unresolved)
Who    == {requests[i].operator : i \in InState({"claimed"})}

Promise ==
  INSTANCE SupervisedSession WITH
    phase <- Phase, asking <- Asking, who <- Who, generation <- lease.epoch

ImplementsPromise == Promise!Spec
=============================================================================
