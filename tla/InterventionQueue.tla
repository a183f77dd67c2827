------------------------- MODULE InterventionQueue -------------------------
(***************************************************************************)
(* The queue of intervention requests (src/src/cua/hitl/intervention.py).  *)
(* The dictionary is a function over the ids that may ever be issued; an   *)
(* id not yet in it is "unopened".  The context card an operator reads is  *)
(* left out; what is kept is what the broker writes and later relies on.   *)
(***************************************************************************)
EXTENDS SessionTypes

VARIABLE requests

RequestStates == {"unopened", "open", "claimed", "released", "resolved", "abandoned"}

RequestRecord ==
  [ state    : RequestStates,
    operator : Operators \cup {NoOperator},
    actions  : Nat,
    delta    : Deltas ]

Claimable  == {"open", "abandoned"}
Unresolved == {"open", "claimed", "released", "abandoned"}

InState(S) == {i \in Ids : requests[i].state \in S}

-----------------------------------------------------------------------------
QueueInit ==
  requests = [i \in Ids |-> [state |-> "unopened", operator |-> NoOperator,
                             actions |-> 0, delta |-> NotCaptured]]

(* new_id never issues an id twice. *)
QueueOpen(i) ==
  /\ requests[i].state = "unopened"
  /\ requests' = [requests EXCEPT ![i].state = "open"]

(* Slip: only a claimed request is refused.                                *)
QueueClaimUnlessClaimed(i, operator) ==
  /\ requests[i].state \notin {"unopened", "claimed"}
  /\ requests' = [requests EXCEPT ![i].state = "claimed", ![i].operator = operator]

QueueClaim(i, operator) ==
  /\ requests[i].state \in Claimable
  /\ requests' = [requests EXCEPT ![i].state = "claimed", ![i].operator = operator]

QueueRelease(i, actions, delta) ==
  /\ requests[i].state = "claimed"
  /\ requests' = [requests EXCEPT ![i].state = "released",
                                  ![i].actions = actions, ![i].delta = delta]

(* Neither of these looks at the state it overwrites. *)
QueueResolve(i) ==
  /\ requests[i].state # "unopened"
  /\ requests' = [requests EXCEPT ![i].state = "resolved"]

QueueAbandon(i) ==
  /\ requests[i].state # "unopened"
  /\ requests' = [requests EXCEPT ![i].state = "abandoned"]
=============================================================================
