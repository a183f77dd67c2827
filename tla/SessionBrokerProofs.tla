------------------------ MODULE SessionBrokerProofs ------------------------
(***************************************************************************)
(* The broker's invariants hold for any operators, interventions, screens  *)
(* and bounds.  OneStory is not inductive alone: a claim keeps the queue   *)
(* and the lease together only because the lease's own fields agree, so    *)
(* the invariant carried is TypeOK, LeaseCoherent and OneStory together.   *)
(***************************************************************************)
EXTENDS SessionBroker, TLAPS

IInv == TypeOK /\ LeaseCoherent /\ OneStory

-----------------------------------------------------------------------------
(* The pure lease operations stay within the lease's type, whatever the    *)
(* lease they are applied to.                                              *)
LEMMA TransitionType ==
  ASSUME NEW l \in LeaseRecord, NEW holder \in Actors, NEW state \in ControlStates
  PROVE  /\ Transition(l, holder, state) \in LeaseRecord
         /\ Transition(l, holder, state).holder = holder
         /\ Transition(l, holder, state).state = state
         /\ Transition(l, holder, state).epoch = l.epoch + 1
         /\ Transition(l, holder, state).operator = l.operator
         /\ Transition(l, holder, state).expires = l.expires
  <1>1. l.epoch + 1 \in Nat \ {0}
    BY DEF LeaseRecord
  <1>2. QED
    BY <1>1 DEF Transition, LeaseRecord

(* So does clearing the operator and the deadline.                         *)
LEMMA VacatedType ==
  ASSUME NEW l \in LeaseRecord
  PROVE  /\ Vacated(l) \in LeaseRecord
         /\ Vacated(l).operator = NoOperator
         /\ Vacated(l).expires = "none"
         /\ Vacated(l).epoch = l.epoch
  BY DEF Vacated, LeaseRecord, Deadlines

(* The broker starts typed, coherent and with nothing unsettled.           *)
LEMMA InitIInv == Init => IInv
  <1> SUFFICES ASSUME Init PROVE IInv
    OBVIOUS
  <1>1. TypeOK
    BY SessionAssumption DEF Init, TypeOK, LeaseInit, NewLease, QueueInit,
       LeaseRecord, ControlStates, Deadlines, Actors, RequestRecord, RequestStates,
       Deltas
  <1>2. LeaseCoherent
    BY DEF Init, LeaseInit, NewLease, LeaseCoherent
  <1>3. OneStory
    BY DEF Init, LeaseInit, NewLease, QueueInit, OneStory, SettledWhileRunning,
       PausedCanBeClaimed, HeldByTheClaimant, ReturnedIsReleased, InState, Unresolved
  <1>4. QED
    BY <1>1, <1>2, <1>3 DEF IInv

-----------------------------------------------------------------------------
(* Each lease operation, from a typed and coherent lease, gives one.       *)
LEMMA LeaseSteps ==
  ASSUME lease \in LeaseRecord, LeaseCoherent,
         \/ LeaseEscalate
         \/ \E op \in Operators, d \in {"ahead", "passed"} : LeaseClaim(op, d)
         \/ LeaseRelease
         \/ LeaseResume
         \/ LeaseReclaimExpired
         \/ Lapse
         \/ UNCHANGED lease
  PROVE  lease' \in LeaseRecord /\ LeaseCoherent'
  <1> USE DEF LeaseCoherent
  <1>1. CASE LeaseEscalate
    BY <1>1, VacatedType, TransitionType, Vacated(lease) \in LeaseRecord
    DEF LeaseEscalate, Actors, ControlStates
  <1>2. CASE \E op \in Operators, d \in {"ahead", "passed"} : LeaseClaim(op, d)
    <2>1. PICK op \in Operators, d \in {"ahead", "passed"} : LeaseClaim(op, d)
      BY <1>2
    <2> DEFINE l == [lease EXCEPT !.operator = op, !.expires = d]
    <2>2. l \in LeaseRecord /\ l.operator = op /\ l.expires = d
      BY DEF LeaseRecord, Deadlines
    <2>3. lease' = Transition(l, "human", "human_control")
      BY <2>1 DEF LeaseClaim
    <2> HIDE DEF l
    <2>4. QED
      BY <2>2, <2>3, TransitionType, SessionAssumption DEF Actors, ControlStates
  <1>3. CASE LeaseRelease
    <2> DEFINE l == [lease EXCEPT !.expires = "none"]
    <2>1. l \in LeaseRecord /\ l.operator = lease.operator /\ l.expires = "none"
      BY DEF LeaseRecord, Deadlines
    <2>2. lease' = Transition(l, "system", "resuming")
      BY <1>3 DEF LeaseRelease
    <2> HIDE DEF l
    <2>3. QED
      BY <1>3, <2>1, <2>2, TransitionType DEF LeaseRelease, Actors, ControlStates
  <1>4. CASE LeaseResume
    <2> DEFINE l == [lease EXCEPT !.operator = NoOperator]
    <2>1. l \in LeaseRecord /\ l.operator = NoOperator /\ l.expires = lease.expires
      BY DEF LeaseRecord
    <2>2. lease' = Transition(l, "automation", "running")
      BY <1>4 DEF LeaseResume
    <2> HIDE DEF l
    <2>3. QED
      BY <1>4, <2>1, <2>2, TransitionType DEF LeaseResume, Actors, ControlStates
  <1>5. CASE LeaseReclaimExpired
    BY <1>5, VacatedType, TransitionType, Vacated(lease) \in LeaseRecord
    DEF LeaseReclaimExpired, Actors, ControlStates
  <1>6. CASE Lapse
    <2>1. /\ lease' \in LeaseRecord
          /\ lease'.holder = lease.holder /\ lease'.state = lease.state
          /\ lease'.operator = lease.operator /\ lease'.expires = "passed"
      BY <1>6 DEF Lapse, LeaseRecord, Deadlines
    <2>2. QED
      BY <1>6, <2>1 DEF Lapse
  <1>7. CASE UNCHANGED lease
    BY <1>7
  <1>8. QED
    BY <1>1, <1>2, <1>3, <1>4, <1>5, <1>6, <1>7

-----------------------------------------------------------------------------
(* A claim that overflows puts the request back exactly as it was.         *)
LEMMA OverflowRestores ==
  ASSUME requests \in [Ids -> RequestRecord], NEW i \in Ids, NEW op \in Operators,
         ClaimOverflows(i, op)
  PROVE  requests' = requests
  BY DEF ClaimOverflows, Restored, RequestRecord

(* What each queue operation does to the requests: it changes the one it   *)
(* names, to the state it is named for, and no other.                      *)
Moves(i, state) ==
  /\ requests' \in [Ids -> RequestRecord]
  /\ requests'[i].state = state
  /\ \A j \in Ids \ {i} : requests'[j] = requests[j]

LEMMA QueueSteps ==
  ASSUME requests \in [Ids -> RequestRecord], NEW i \in Ids
  PROVE  /\ QueueOpen(i)    => Moves(i, "open")
         /\ \A op \in Operators :
              QueueClaim(i, op) => Moves(i, "claimed") /\ requests'[i].operator = op
         /\ \A n \in Nat, d \in Deltas :
              QueueRelease(i, n, d) =>
                /\ Moves(i, "released")
                /\ requests'[i].operator = requests[i].operator
         /\ QueueResolve(i) => Moves(i, "resolved")
         /\ QueueAbandon(i) => Moves(i, "abandoned")
  <1> USE DEF Moves, RequestRecord, RequestStates
  <1>1. QueueOpen(i) => Moves(i, "open")
    BY DEF QueueOpen
  <1>2. ASSUME NEW op \in Operators, QueueClaim(i, op)
        PROVE  Moves(i, "claimed") /\ requests'[i].operator = op
    BY <1>2 DEF QueueClaim
  <1>3. ASSUME NEW n \in Nat, NEW d \in Deltas, QueueRelease(i, n, d)
        PROVE  Moves(i, "released") /\ requests'[i].operator = requests[i].operator
    BY <1>3, ZenonT(60) DEF QueueRelease
  <1>4. QueueResolve(i) => Moves(i, "resolved")
    BY DEF QueueResolve
  <1>5. QueueAbandon(i) => Moves(i, "abandoned")
    BY DEF QueueAbandon
  <1>6. QED
    BY <1>1, <1>2, <1>3, <1>4, <1>5

(* The unsettled requests after one of them moved.                         *)
LEMMA UnresolvedAfter ==
  ASSUME NEW i \in Ids, NEW state, Moves(i, state)
  PROVE  /\ state \in Unresolved => InState(Unresolved)' = InState(Unresolved) \cup {i}
         /\ state \notin Unresolved => InState(Unresolved)' = InState(Unresolved) \ {i}
  BY DEF Moves, InState

(* A difference of two observed screens is a delta, and so is a missing    *)
(* one.                                                                    *)
LEMMA DiffType ==
  ASSUME NEW before \in Screens \cup {NoSnapshot}, NEW after \in Screens \cup {NoSnapshot}
  PROVE  Diff(before, after) \in Deltas
  BY DEF Diff, Deltas

-----------------------------------------------------------------------------
(* Every call of the broker preserves the invariant.                       *)
LEMMA StepIInv == IInv /\ [Next]_vars => IInv'
  <1> SUFFICES ASSUME IInv, [Next]_vars PROVE IInv'
    OBVIOUS
  <1> USE DEF IInv, TypeOK, OneStory
  <1>lease. LeaseCoherent' /\ (lease \in LeaseRecord)'
    <2>1. \/ LeaseEscalate
          \/ \E op \in Operators, d \in {"ahead", "passed"} : LeaseClaim(op, d)
          \/ LeaseRelease
          \/ LeaseResume
          \/ LeaseReclaimExpired
          \/ Lapse
          \/ UNCHANGED lease
      BY DEF Next, vars, AutomationActs, Escalate, Claim, ClaimOverflows,
             HumanAction, ConfirmAction, OperatorActs, Release, Sweep, Resume, HoldLapses
    <2>2. QED
      BY <2>1, LeaseSteps
  <1>same. CASE UNCHANGED <<lease, requests, handoff>> /\ TypeOK'
    BY <1>same, <1>lease DEF SettledWhileRunning, PausedCanBeClaimed,
       HeldByTheClaimant, ReturnedIsReleased, InState
  <1>1. ASSUME NEW after \in Screens, AutomationActs(after)
        PROVE  IInv'
    <2>1. UNCHANGED <<lease, requests, handoff>> /\ TypeOK'
      BY <1>1 DEF AutomationActs
    <2>2. QED
      BY <2>1, <1>same
  <1>2. ASSUME NEW i \in Ids, NEW snapshot \in {screen, NoSnapshot}, Escalate(i, snapshot)
        PROVE  IInv'
    <2>1. Moves(i, "open")
      BY <1>2, QueueSteps DEF Escalate
    <2>2. TypeOK'
      BY <1>2, <1>lease, <2>1 DEF Escalate, Moves
    <2>3. lease.state = "running" /\ lease'.state = "paused"
      BY <1>2, VacatedType, TransitionType, Vacated(lease) \in LeaseRecord
      DEF Escalate, LeaseEscalate, Actors, ControlStates
    <2>4. InState(Unresolved)' = {i}
      BY <2>1, <2>3, UnresolvedAfter DEF SettledWhileRunning, Unresolved
    <2>5. PausedCanBeClaimed'
      BY <2>1, <2>4 DEF PausedCanBeClaimed, Moves, Claimable
    <2>6. QED
      BY <1>lease, <2>2, <2>3, <2>5
      DEF SettledWhileRunning, HeldByTheClaimant, ReturnedIsReleased
  <1>3. ASSUME NEW i \in Ids, NEW op \in Operators, NEW d \in {"ahead", "passed"},
               Claim(i, op, d)
        PROVE  IInv'
    <2>1. Moves(i, "claimed") /\ requests'[i].operator = op
      BY <1>3, QueueSteps DEF Claim
    <2>2. /\ handoff' \in HandoffRecord /\ handoff' # NoHandoff
          /\ handoff'.intervention = i /\ handoff'.operator = op
      <3>1. handoff' \in HandoffRecord
        BY <1>3 DEF Claim, HandoffRecord, Deltas
      <3>2. QED
        BY <1>3, <3>1, BrokerAssumption DEF Claim
    <2>3. TypeOK'
      BY <1>3, <1>lease, <2>1, <2>2 DEF Claim, Moves
    <2>4. lease.state = "paused" /\ lease'.state = "human_control" /\ lease'.operator = op
      <3> DEFINE l == [lease EXCEPT !.operator = op, !.expires = d]
      <3>1. l \in LeaseRecord /\ l.operator = op
        BY DEF LeaseRecord, Deadlines
      <3>2. lease.state = "paused" /\ lease' = Transition(l, "human", "human_control")
        BY <1>3 DEF Claim, LeaseClaim
      <3> HIDE DEF l
      <3>3. QED
        BY <3>1, <3>2, TransitionType DEF Actors, ControlStates
    <2>5. InState(Unresolved)' = {i}
      <3>1. i \in InState(Unresolved)
        BY <1>3 DEF Claim, QueueClaim, InState, Unresolved, Claimable
      <3>2. InState(Unresolved) = {i}
        BY <3>1, <2>4 DEF PausedCanBeClaimed
      <3>3. QED
        BY <2>1, <3>2, UnresolvedAfter DEF Unresolved
    <2>6. HeldByTheClaimant'
      BY <2>1, <2>2, <2>4, <2>5 DEF HeldByTheClaimant, Moves
    <2>7. QED
      BY <1>lease, <2>3, <2>4, <2>6
      DEF SettledWhileRunning, PausedCanBeClaimed, ReturnedIsReleased
  <1>4. ASSUME NEW i \in Ids, NEW op \in Operators, ClaimOverflows(i, op)
        PROVE  IInv'
    <2>1. requests' = requests
      BY <1>4, OverflowRestores
    <2>2. UNCHANGED <<lease, requests, handoff>> /\ TypeOK'
      BY <1>4, <2>1 DEF ClaimOverflows
    <2>3. QED
      BY <2>2, <1>same
  <1>5. ASSUME NEW after \in Screens, OperatorActs(after)
        PROVE  IInv'
    <2>1. lease.state = "human_control"
      BY <1>5 DEF OperatorActs, MayAct, LeaseCoherent
    <2>2. /\ handoff \in HandoffRecord /\ handoff # NoHandoff
          /\ handoff' = [handoff EXCEPT !.actions = @ + 1]
      BY <1>5, <2>1, BrokerAssumption DEF OperatorActs, HeldByTheClaimant
    <2>3. /\ handoff' \in HandoffRecord
          /\ handoff'.intervention = handoff.intervention
          /\ handoff'.operator = handoff.operator
      <3>1. handoff.actions + 1 \in Nat
        BY <2>2 DEF HandoffRecord
      <3>2. QED
        BY <2>2, <3>1 DEF HandoffRecord
    <2>4. TypeOK' /\ UNCHANGED <<lease, requests>>
      BY <1>5, <2>3 DEF OperatorActs
    <2>5. HeldByTheClaimant'
      BY <2>1, <2>3, <2>4, BrokerAssumption DEF HeldByTheClaimant, InState
    <2>6. QED
      BY <1>lease, <2>1, <2>4, <2>5
      DEF SettledWhileRunning, PausedCanBeClaimed, ReturnedIsReleased
  <1>6. ASSUME NEW after \in {screen, NoSnapshot}, Release(after)
        PROVE  IInv'
    <2> DEFINE h == handoff.intervention
               delta == Diff(handoff.before, after)
    <2>1. lease.state = "human_control" /\ lease'.state = "resuming"
      <3> DEFINE l == [lease EXCEPT !.expires = "none"]
      <3>1. l \in LeaseRecord
        BY DEF LeaseRecord, Deadlines
      <3>2. lease.state = "human_control" /\ lease' = Transition(l, "system", "resuming")
        BY <1>6 DEF Release, LeaseRelease
      <3> HIDE DEF l
      <3>3. QED
        BY <3>1, <3>2, TransitionType DEF Actors, ControlStates
    <2>2. handoff \in HandoffRecord /\ handoff # NoHandoff
      BY <2>1 DEF HeldByTheClaimant
    <2>3. h \in Ids /\ handoff.actions \in Nat /\ delta \in Deltas /\ after \in Screens \cup {NoSnapshot}
      BY <2>2, DiffType DEF HandoffRecord
    <2>4. Moves(h, "released")
      BY <1>6, <2>3, QueueSteps DEF Release
    <2>5. handoff' \in HandoffRecord /\ handoff'.intervention = h
      BY <1>6, <2>2, <2>3 DEF Release, HandoffRecord
    <2>6. TypeOK'
      BY <1>6, <1>lease, <2>4, <2>5 DEF Release, Moves
    <2>7. InState(Unresolved)' = {h}
      BY <2>1, <2>3, <2>4, UnresolvedAfter DEF HeldByTheClaimant, Unresolved
    <2>8. ReturnedIsReleased'
      BY <2>4, <2>5, <2>7, BrokerAssumption DEF ReturnedIsReleased, Moves
    <2>9. QED
      BY <1>lease, <2>1, <2>6, <2>8
      DEF SettledWhileRunning, PausedCanBeClaimed, HeldByTheClaimant
  <1>7. CASE Sweep
    <2> DEFINE h == handoff.intervention
    <2>1. lease.state = "human_control"
      BY <1>7 DEF Sweep, LeaseReclaimExpired, Expired, LeaseCoherent
    <2>2. lease'.state = "paused"
      BY <1>7, VacatedType, TransitionType, Vacated(lease) \in LeaseRecord
      DEF Sweep, LeaseReclaimExpired, Actors, ControlStates
    <2>3. handoff \in HandoffRecord /\ handoff # NoHandoff /\ h \in Ids
      BY <2>1 DEF HeldByTheClaimant, HandoffRecord
    <2>4. Moves(h, "abandoned") /\ handoff' = NoHandoff
      BY <1>7, <2>3, QueueSteps DEF Sweep
    <2>5. TypeOK'
      BY <1>7, <1>lease, <2>4 DEF Sweep, Moves
    <2>6. InState(Unresolved)' = {h}
      BY <2>1, <2>3, <2>4, UnresolvedAfter DEF HeldByTheClaimant, Unresolved
    <2>7. PausedCanBeClaimed'
      BY <2>3, <2>4, <2>6 DEF PausedCanBeClaimed, Moves, Claimable
    <2>8. QED
      BY <1>lease, <2>2, <2>5, <2>7
      DEF SettledWhileRunning, HeldByTheClaimant, ReturnedIsReleased
  <1>8. CASE Resume
    <2> DEFINE h == handoff.intervention
    <2>1. lease.state = "resuming" /\ lease'.state = "running"
      <3> DEFINE l == [lease EXCEPT !.operator = NoOperator]
      <3>1. l \in LeaseRecord
        BY DEF LeaseRecord
      <3>2. lease.state = "resuming" /\ lease' = Transition(l, "automation", "running")
        BY <1>8 DEF Resume, LeaseResume
      <3> HIDE DEF l
      <3>3. QED
        BY <3>1, <3>2, TransitionType DEF Actors, ControlStates
    <2>2. handoff \in HandoffRecord /\ handoff # NoHandoff /\ h \in Ids
      BY <2>1 DEF ReturnedIsReleased, HandoffRecord
    <2>3. Moves(h, "resolved") /\ UNCHANGED handoff
      BY <1>8, <2>2, QueueSteps DEF Resume
    <2>4. TypeOK'
      BY <1>8, <1>lease, <2>3 DEF Resume, Moves
    <2>5. SettledWhileRunning'
      <3>1. InState(Unresolved)' = InState(Unresolved) \ {h}
        BY <2>2, <2>3, UnresolvedAfter DEF Unresolved
      <3>2. QED
        BY <2>1, <3>1 DEF ReturnedIsReleased, SettledWhileRunning
    <2>6. QED
      BY <1>lease, <2>1, <2>4, <2>5
      DEF PausedCanBeClaimed, HeldByTheClaimant, ReturnedIsReleased
  <1>9. CASE HoldLapses
    <2>1. lease'.state = lease.state /\ lease'.operator = lease.operator
      BY <1>9 DEF HoldLapses, Lapse, LeaseRecord
    <2>2. UNCHANGED <<requests, handoff, pendingBefore, screen>>
      BY <1>9 DEF HoldLapses
    <2>3. QED
      BY <1>lease, <2>1, <2>2 DEF SettledWhileRunning, PausedCanBeClaimed,
         HeldByTheClaimant, ReturnedIsReleased, InState
  <1>10. CASE UNCHANGED vars
    BY <1>10, <1>same DEF vars
  <1>11. QED
    BY <1>1, <1>2, <1>3, <1>4, <1>5, <1>6, <1>7, <1>8, <1>9, <1>10
    DEF Next, HumanAction, ConfirmAction

(* Type correctness of the broker, for every instance.                     *)
THEOREM BrokerTypeCorrect == Spec => []TypeOK
  <1>1. Spec => []IInv
    BY InitIInv, StepIInv, PTL DEF Spec
  <1>2. IInv => TypeOK
    BY DEF IInv
  <1>3. QED
    BY <1>1, <1>2, PTL

(* A lease whose fields contradict each other is never reached.            *)
THEOREM LeaseIsCoherent == Spec => []LeaseCoherent
  <1>1. Spec => []IInv
    BY InitIInv, StepIInv, PTL DEF Spec
  <1>2. IInv => LeaseCoherent
    BY DEF IInv
  <1>3. QED
    BY <1>1, <1>2, PTL

(* Lease, queue and handoff record tell one story, for every number of     *)
(* operators and interventions and however often holds lapse: a paused     *)
(* session can be claimed, a held one is held by the operator its request  *)
(* names, a running one has nothing unsettled.                             *)
THEOREM BrokerTellsOneStory == Spec => []OneStory
  <1>1. Spec => []IInv
    BY InitIInv, StepIInv, PTL DEF Spec
  <1>2. IInv => OneStory
    BY DEF IInv
  <1>3. QED
    BY <1>1, <1>2, PTL

-----------------------------------------------------------------------------
(* What an observer of the queue sees in each state of the lease.          *)
Observed(phase, asking, who) == Phase = phase /\ Asking = asking /\ Who = who

ObservedState ==
  /\ lease.state = "running" => Observed("automated", {}, {})
  /\ lease.state = "paused" =>
       \E i \in Ids : InState(Unresolved) = {i} /\ Observed("waiting", {i}, {})
  /\ lease.state = "human_control" =>
       /\ handoff.intervention \in Ids
       /\ lease.operator \in Operators
       /\ Observed("held", {handoff.intervention}, {lease.operator})
  /\ lease.state = "resuming" => Observed("returned", {handoff.intervention}, {})

LEMMA ObservedFromTheQueue == IInv => ObservedState
  <1> SUFFICES ASSUME IInv PROVE ObservedState
    OBVIOUS
  <1> USE DEF IInv, TypeOK, OneStory, ObservedState, Observed, Phase, Asking, Who,
              InState, Unresolved, Claimable
  <1>1. CASE lease.state = "running"
    BY <1>1 DEF SettledWhileRunning
  <1>2. CASE lease.state = "paused"
    BY <1>2 DEF PausedCanBeClaimed
  <1>3. CASE lease.state = "human_control"
    <2>1. lease.operator \in Operators /\ handoff.intervention \in Ids
      BY <1>3 DEF LeaseRecord, LeaseCoherent, HeldByTheClaimant, HandoffRecord
    <2>2. QED
      BY <1>3, <2>1 DEF HeldByTheClaimant
  <1>4. CASE lease.state = "resuming"
    BY <1>4 DEF ReturnedIsReleased, HandoffRecord
  <1>5. QED
    BY <1>1, <1>2, <1>3, <1>4 DEF LeaseRecord, ControlStates

(* Where each call takes the lease, and that it opens one epoch.           *)
LeaseMoves(from, to) ==
  lease.state = from /\ lease'.state = to /\ lease'.epoch = lease.epoch + 1

LEMMA LeaseStates ==
  ASSUME lease \in LeaseRecord
  PROVE  /\ LeaseEscalate => LeaseMoves("running", "paused")
         /\ \A op \in Operators, d \in {"ahead", "passed"} :
              LeaseClaim(op, d) =>
                LeaseMoves("paused", "human_control") /\ lease'.operator = op
         /\ LeaseRelease => LeaseMoves("human_control", "resuming")
         /\ LeaseResume => LeaseMoves("resuming", "running")
         /\ LeaseReclaimExpired => lease'.state = "paused" /\ lease'.epoch = lease.epoch + 1
  <1> USE DEF LeaseMoves, Transition, Vacated, LeaseRecord
  <1>1. LeaseEscalate => LeaseMoves("running", "paused")
    BY DEF LeaseEscalate
  <1>2. ASSUME NEW op \in Operators, NEW d \in {"ahead", "passed"}, LeaseClaim(op, d)
        PROVE  LeaseMoves("paused", "human_control") /\ lease'.operator = op
    BY <1>2 DEF LeaseClaim
  <1>3. LeaseRelease => LeaseMoves("human_control", "resuming")
    BY DEF LeaseRelease
  <1>4. LeaseResume => LeaseMoves("resuming", "running")
    BY DEF LeaseResume
  <1>5. LeaseReclaimExpired => lease'.state = "paused" /\ lease'.epoch = lease.epoch + 1
    BY DEF LeaseReclaimExpired
  <1>6. QED
    BY <1>1, <1>2, <1>3, <1>4, <1>5

(* Every call is a step of the promise, or changes nothing an observer     *)
(* sees.                                                                   *)
LEMMA StepImplements ==
  IInv /\ IInv' /\ [Next]_vars => [Promise!Next]_(Promise!vars)
  <1> SUFFICES ASSUME IInv, IInv', [Next]_vars PROVE [Promise!Next]_(Promise!vars)
    OBVIOUS
  <1> USE DEF Promise!Next, Promise!vars, Promise!Step,
              ObservedState, Observed, LeaseMoves
  <1>typed. lease \in LeaseRecord /\ requests \in [Ids -> RequestRecord]
    BY DEF IInv, TypeOK
  <1>before. ObservedState
    BY ObservedFromTheQueue
  <1>after. ObservedState'
    BY ObservedFromTheQueue, PTL
  <1>same. ASSUME UNCHANGED requests, lease'.epoch = lease.epoch
           PROVE  UNCHANGED Promise!vars
    BY <1>same DEF Phase, Asking, Who, InState
  <1>1. ASSUME NEW i \in Ids, NEW snapshot \in {screen, NoSnapshot}, Escalate(i, snapshot)
        PROVE  Promise!Next
    <2>1. LeaseMoves("running", "paused")
      BY <1>1, <1>typed, LeaseStates DEF Escalate
    <2>2. InState(Unresolved)' = {i}
      <3>1. Moves(i, "open")
        BY <1>1, <1>typed, QueueSteps DEF Escalate
      <3>2. InState(Unresolved) = {}
        BY <2>1 DEF IInv, OneStory, SettledWhileRunning
      <3>3. QED
        BY <3>1, <3>2, UnresolvedAfter DEF Unresolved
    <2>3. Promise!Ask(i)
      BY <2>1, <2>2, <1>before, <1>after DEF Promise!Ask
    <2>4. QED
      BY <2>3
  <1>2. ASSUME NEW i \in Ids, NEW op \in Operators, NEW d \in {"ahead", "passed"},
               Claim(i, op, d)
        PROVE  Promise!Next
    <2>1. LeaseMoves("paused", "human_control") /\ lease'.operator = op
      BY <1>2, <1>typed, LeaseStates DEF Claim
    <2>2. handoff'.intervention = i
      BY <1>2 DEF Claim
    <2>3. i \in InState(Unresolved)
      BY <1>2 DEF Claim, QueueClaim, InState, Unresolved, Claimable
    <2>4. Promise!Take(op)
      BY <2>1, <2>2, <2>3, <1>before, <1>after DEF Promise!Take
    <2>5. QED
      BY <2>4
  <1>3. ASSUME NEW after \in {screen, NoSnapshot}, Release(after)
        PROVE  Promise!Next
    <2>1. LeaseMoves("human_control", "resuming")
      BY <1>3, <1>typed, LeaseStates DEF Release
    <2>2. handoff'.intervention = handoff.intervention
      BY <1>3, <2>1, BrokerAssumption
      DEF Release, IInv, TypeOK, OneStory, HeldByTheClaimant, HandoffRecord
    <2>3. Promise!GiveBack
      BY <2>1, <2>2, <1>before, <1>after DEF Promise!GiveBack
    <2>4. QED
      BY <2>3
  <1>4. ASSUME Sweep
        PROVE  Promise!Next
    <2>1. lease.state = "human_control" /\ lease'.state = "paused" /\ lease'.epoch = lease.epoch + 1
      BY <1>4, <1>typed, LeaseStates
      DEF Sweep, LeaseReclaimExpired, Expired, IInv, LeaseCoherent
    <2>2. InState(Unresolved)' = {handoff.intervention}
      <3>1. handoff # NoHandoff /\ InState(Unresolved) = {handoff.intervention}
        BY <2>1 DEF IInv, OneStory, HeldByTheClaimant
      <3>2. Moves(handoff.intervention, "abandoned")
        BY <1>4, <1>before, <2>1, <3>1, <1>typed, QueueSteps DEF Sweep
      <3>3. QED
        BY <1>before, <2>1, <3>1, <3>2, UnresolvedAfter DEF Unresolved
    <2>3. Promise!HoldLapses
      BY <2>1, <2>2, <1>before, <1>after DEF Promise!HoldLapses
    <2>4. QED
      BY <2>3
  <1>5. ASSUME Resume
        PROVE  Promise!Next
    <2>1. LeaseMoves("resuming", "running")
      BY <1>5, <1>typed, LeaseStates DEF Resume
    <2>2. Promise!CarryOn
      BY <2>1, <1>before, <1>after DEF Promise!CarryOn
    <2>3. QED
      BY <2>2
  <1>6. ASSUME \/ \E after \in Screens : AutomationActs(after) \/ OperatorActs(after)
               \/ \E i \in Ids, op \in Operators : ClaimOverflows(i, op)
               \/ HoldLapses
               \/ UNCHANGED vars
        PROVE  UNCHANGED Promise!vars
    <2>1. requests' = requests
      BY <1>6, <1>typed, OverflowRestores DEF AutomationActs, OperatorActs, HoldLapses, vars
    <2>2. lease'.epoch = lease.epoch
      BY <1>6, <1>typed DEF AutomationActs, OperatorActs, ClaimOverflows, HoldLapses,
         Lapse, LeaseRecord, vars
    <2>3. QED
      BY <2>1, <2>2, <1>same
  <1>7. QED
    BY <1>1, <1>2, <1>3, <1>4, <1>5, <1>6 DEF Next, HumanAction, ConfirmAction

(* The broker implements SupervisedSession: whatever the operators,        *)
(* interventions, lapses and refusals, the queue an observer sees moves    *)
(* exactly as promised and each move opens one lease epoch.                *)
THEOREM BrokerImplementsPromise == Spec => ImplementsPromise
  <1>1. Init => Promise!Init
    BY DEF Init, LeaseInit, NewLease, QueueInit, Promise!Init, Phase, Asking, Who,
           InState, Unresolved, Claimable
  <1>2. QED
    BY <1>1, InitIInv, StepIInv, StepImplements, PTL
    DEF Spec, ImplementsPromise, Promise!Spec

(* A settled request is kept by every call: only Resume reaches one, to    *)
(* mark it resolved.                                                       *)
LEMMA StepKeepsSettled ==
  ASSUME IInv, [Next]_vars, NEW i \in Ids, requests[i].state \in {"released", "resolved"}
  PROVE  \/ requests'[i] = requests[i]
         \/ requests'[i] = [requests[i] EXCEPT !.state = "resolved"]
  <1> DEFINE Same == requests'[i] = requests[i]
  <1>typed. requests \in [Ids -> RequestRecord]
    BY DEF IInv, TypeOK
  <1>1. ASSUME NEW j \in Ids, NEW snapshot \in {screen, NoSnapshot}, Escalate(j, snapshot)
        PROVE  Same
    BY <1>1, <1>typed DEF Escalate, QueueOpen
  <1>2. ASSUME NEW j \in Ids, NEW op \in Operators, NEW d \in {"ahead", "passed"},
               Claim(j, op, d)
        PROVE  Same
    BY <1>2, <1>typed DEF Claim, QueueClaim, Claimable
  <1>3. ASSUME NEW after \in {screen, NoSnapshot}, Release(after)
        PROVE  Same
    BY <1>3, <1>typed DEF Release, QueueRelease
  <1>4. CASE Sweep
    <2>1. handoff # NoHandoff /\ requests[handoff.intervention].state = "claimed"
      BY <1>4 DEF Sweep, LeaseReclaimExpired, Expired, IInv, LeaseCoherent, OneStory,
         HeldByTheClaimant
    <2>2. QED
      BY <1>4, <1>typed, <2>1 DEF Sweep, QueueAbandon
  <1>5. CASE Resume
    <2>1. requests' = [requests EXCEPT ![handoff.intervention].state = "resolved"]
      BY <1>5 DEF Resume, LeaseResume, IInv, OneStory, ReturnedIsReleased, QueueResolve
    <2>2. QED
      BY <1>typed, <2>1
  <1>6. ASSUME NEW j \in Ids, NEW op \in Operators, ClaimOverflows(j, op)
        PROVE  Same
    BY <1>6, <1>typed, OverflowRestores
  <1>7. ASSUME \/ \E after \in Screens : AutomationActs(after) \/ OperatorActs(after)
               \/ HoldLapses
               \/ UNCHANGED vars
        PROVE  Same
    BY <1>7 DEF AutomationActs, OperatorActs, HoldLapses, vars
  <1>8. QED
    BY <1>1, <1>2, <1>3, <1>4, <1>5, <1>6, <1>7 DEF Next, HumanAction, ConfirmAction

(* A settled request is never rewritten or reopened.                       *)
THEOREM SettledRequestsAreFinal == Spec => AuditRecordIsFinal
  <1>1. ASSUME IInv, [Next]_vars, NEW i \in Ids,
               requests[i].state \in {"released", "resolved"}
        PROVE  /\ requests'[i].state \in {"released", "resolved"}
               /\ requests'[i] = [requests[i] EXCEPT !.state = requests'[i].state]
    <2>1. requests[i] \in RequestRecord
      BY <1>1 DEF IInv, TypeOK
    <2>2. QED
      BY <1>1, <2>1, StepKeepsSettled DEF RequestRecord
  <1>2. IInv /\ [Next]_vars =>
          [\A i \in Ids : requests[i].state \in {"released", "resolved"} =>
             /\ requests'[i].state \in {"released", "resolved"}
             /\ requests'[i] = [requests[i] EXCEPT !.state = requests'[i].state]]_vars
    BY <1>1
  <1>3. QED
    BY <1>2, InitIInv, StepIInv, PTL DEF Spec, AuditRecordIsFinal
=============================================================================
