------------------------------- MODULE Lease -------------------------------
(***************************************************************************)
(* The lease on one live session (src/src/cua/hitl/lease.py): who may act, *)
(* what is expected next, and the epoch that names each hold.              *)
(*                                                                         *)
(* A wall-clock deadline is kept only as what the code ever asks of it:    *)
(* there is none ("none"), it has not come ("ahead"), it has ("passed").   *)
(* Lapse is the clock reaching it.                                         *)
(***************************************************************************)
EXTENDS SessionTypes

VARIABLE lease

ControlStates == {"running", "paused", "human_control", "resuming"}
Deadlines     == {"none", "ahead", "passed"}

LeaseRecord ==
  [ holder   : Actors,
    state    : ControlStates,
    epoch    : Nat \ {0},
    operator : Operators \cup {NoOperator},
    expires  : Deadlines ]

NewLease ==
  [ holder |-> "automation", state |-> "running", epoch |-> 1,
    operator |-> NoOperator, expires |-> "none" ]

-----------------------------------------------------------------------------
Expired(l) == l.expires = "passed"

(* held_by, and the three refusals of assert_held taken together. *)
MayAct(l, actor, epoch) ==
  /\ ~Expired(l)
  /\ l.holder = actor
  /\ l.epoch = epoch

(* _transition: every change of control opens a new epoch. *)
Transition(l, holder, state) ==
  [l EXCEPT !.holder = holder, !.state = state, !.epoch = @ + 1]

(* Slip: the deadline outlives the hold.                                   *)
VacatedKeepsDeadline(l) == [l EXCEPT !.operator = NoOperator]

Vacated(l) == [l EXCEPT !.operator = NoOperator, !.expires = "none"]

-----------------------------------------------------------------------------
LeaseInit == lease = NewLease

LeaseEscalate ==
  /\ lease.state = "running"
  /\ lease' = Transition(Vacated(lease), "system", "paused")

(* Slip: a hold that never lapses.                                         *)
LeaseClaimForever(operator, deadline) ==
  /\ lease.state = "paused"
  /\ lease' = Transition([lease EXCEPT !.operator = operator], "human", "human_control")

(* hold_for may be zero or negative, so a hold can be born lapsed. *)
LeaseClaim(operator, deadline) ==
  /\ lease.state = "paused"
  /\ lease' = Transition([lease EXCEPT !.operator = operator, !.expires = deadline],
                         "human", "human_control")

(* A lapsed hold that nobody swept may still be released. *)
LeaseRelease ==
  /\ lease.state = "human_control"
  /\ lease' = Transition([lease EXCEPT !.expires = "none"], "system", "resuming")

LeaseResume ==
  /\ lease.state = "resuming"
  /\ lease' = Transition([lease EXCEPT !.operator = NoOperator],
                         "automation", "running")

(* Slip: the lapsed operator's epoch stays good.                           *)
LeaseReclaimKeepsEpoch ==
  /\ Expired(lease)
  /\ lease' = [Vacated(lease) EXCEPT !.holder = "system", !.state = "paused"]

(* Slip: automation carries on by itself.                                  *)
LeaseReclaimRuns ==
  /\ Expired(lease)
  /\ lease' = Transition(Vacated(lease), "automation", "running")

LeaseReclaimExpired ==
  /\ Expired(lease)
  /\ lease' = Transition(Vacated(lease), "system", "paused")

(* The clock reaches the deadline. *)
Lapse ==
  /\ lease.expires = "ahead"
  /\ lease' = [lease EXCEPT !.expires = "passed"]
=============================================================================
