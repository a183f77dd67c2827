--------------------------- MODULE ConsoleProofs ---------------------------
(***************************************************************************)
(* What the console's threads know of one another, for any pool, any       *)
(* operators and any bounds.  None of the run's properties is inductive: a *)
(* thread acts on what another part of the code wrote some steps ago, so   *)
(* the invariant says, place by place, what each thread may still rely on  *)
(* when it gets there, and which thread a half-finished change is left to. *)
(***************************************************************************)
EXTENDS Console, TLAPS

ClaimStages  == {"checking", "marking", "asking lease", "taking", "recording", "undoing"}
ReturnStages == {"resuming", "resolving"}
Sweeping     == {"sweep", "abandoning", "forgetting"}
Releasing    == {"release", "filing"}
Gesturing    == {"gesture", "gesturing"}

CallerRecord ==
  [ at       : {"idle", "waiting"} \cup ClaimStages \cup ReturnStages,
    call     : Requests \cup {"none", "gesture"},
    id       : Ids,
    operator : Operators \cup {NoOperator},
    prior    : RequestStates,
    before   : Operators \cup {NoOperator} ]

HandoffRecord == [intervention : Ids, operator : Operators, actions : Nat]

Work == {"sweep", "release", "gesture"}
Item == [for : Callers \cup {Nobody}, work : Work]

SessionRecord ==
  [ at   : {"rest"} \cup Sweeping \cup Releasing \cup Gesturing,
    for  : Callers \cup {Nobody},
    work : Work ]

Typed ==
  /\ Ids # {}
  /\ lease \in LeaseRecord
  /\ requests \in [Ids -> RequestRecord]
  /\ handoff \in HandoffRecord \cup {NoHandoff}
  /\ caller \in [Callers -> CallerRecord]
  /\ inbox \in Seq(Item)
  /\ session \in SessionRecord
  /\ timeouts \in Nat
  /\ overlapped \in BOOLEAN

(* Where a thread is says what it is there for.                            *)
OnCall ==
  /\ \A c \in Callers :
       /\ caller[c].at = "idle" <=> caller[c].call = "none"
       /\ caller[c].at \in ClaimStages <=> caller[c].call = "claim"
       /\ caller[c].at \in ReturnStages => caller[c].call = "release"
       /\ caller[c].call = "claim" => caller[c].operator \in Operators
  /\ caller[Loop].call \in {"none", "gesture"}

(* Work is left for the one caller that waits for it, or for nobody.       *)
Waits(c, work) ==
  /\ caller[c].at = "waiting"
  /\ caller[c].call = IF work = "sweep" THEN "poll" ELSE work

Served ==
  /\ \A n \in DOMAIN inbox :
       inbox[n].for # Nobody =>
         /\ Waits(inbox[n].for, inbox[n].work)
         /\ \A m \in DOMAIN inbox : inbox[m].for = inbox[n].for => m = n
         /\ inbox[n].for # session.for
  /\ session.for # Nobody => Waits(session.for, session.work)

(* What the session thread has read or written in its present work.        *)
InHand ==
  /\ session.at = "rest" => session.for = Nobody
  /\ session.at \in Sweeping => session.work = "sweep"
  /\ session.at \in Releasing => session.work = "release"
  /\ session.at \in Gesturing => session.work = "gesture"
  /\ session.at \in {"abandoning", "filing"} => handoff # NoHandoff
  /\ session.at = "gesturing" => lease.state = "human_control"

LeaseCoherent ==
  /\ lease.state = "human_control" <=> lease.holder = "human"
  /\ lease.state = "human_control" <=> lease.expires # "none"

Shape == Typed /\ OnCall /\ Served /\ InHand /\ LeaseCoherent

-----------------------------------------------------------------------------
(* An orderly console: nothing was given up, a claim is alone, ...         *)
Attended ==
  /\ \A n \in DOMAIN inbox : inbox[n].for # Nobody
  /\ session.at # "rest" => session.for # Nobody

Alone ==
  \A c, d \in Callers : caller[c].call = "claim" /\ c # d => caller[d].call \notin Requests

(* ... there is one request, and every step finds it and the lease as the  *)
(* thread that takes the step left them or last saw them ...               *)
Only(i) == \A j \in Ids : requests[j].state = "unopened" <=> j # i

Relies(c, i) ==
  /\ caller[c].call = "claim" => caller[c].id = i
  /\ caller[c].at = "marking" =>
       lease.state = "paused" /\ requests[i].state \in Claimable
  /\ caller[c].at \in {"asking lease", "taking"} =>
       /\ lease.state = "paused"
       /\ requests[i].state = "claimed"
       /\ requests[i].operator = caller[c].operator
  /\ caller[c].at = "recording" => lease.state = "human_control" /\ lease.expires = "ahead"
  /\ caller[c].at # "undoing"
  /\ caller[c].at = "resuming" =>
       lease.state = "resuming" /\ requests[i].state = "released"
  /\ caller[c].at = "resolving" => lease.state = "running" /\ handoff # NoHandoff
  /\ caller[c].at \in ReturnStages =>
       \A d \in Callers : caller[d].at \in ReturnStages => d = c

SessionRelies(i) ==
  /\ session.at = "abandoning" => lease.state = "paused" /\ requests[i].state = "claimed"
  /\ session.at = "forgetting" => lease.state = "paused"
  /\ session.at = "filing" => lease.state = "resuming" /\ requests[i].state = "claimed"

(* ... and where the two disagree, a thread is on its way to settle it.    *)
Someone(places) == \E c \in Callers : caller[c].at \in places

Settling(i) ==
  /\ handoff # NoHandoff => handoff.intervention = i
  /\ lease.state = "paused" =>
       \/ requests[i].state \in Claimable
       \/ Someone({"asking lease", "taking"})
       \/ session.at = "abandoning"
  /\ lease.state = "human_control" =>
       /\ requests[i].state = "claimed"
       /\ requests[i].operator = lease.operator
       /\ (handoff # NoHandoff \/ Someone({"recording"}))
  /\ lease.state = "resuming" =>
       /\ handoff # NoHandoff
       /\ (session.at = "filing" \/ Someone({"resuming"}))
  /\ lease.state = "running" =>
       \/ requests[i].state = "resolved"
       \/ requests[i].state = "released" /\ Someone({"resolving"})

Told(i) ==
  /\ Only(i)
  /\ \A c \in Callers : Relies(c, i)
  /\ SessionRelies(i)
  /\ Settling(i)

Story == Orderly => Attended /\ Alone /\ \E i \in Ids : Told(i)

IInv == Shape /\ Story

-----------------------------------------------------------------------------
(* The session starts paused with one request open and nobody calling.     *)
LEMMA InitIInv == Init => IInv
  <1> SUFFICES ASSUME Init PROVE IInv
    OBVIOUS
  <1> USE DEF Init
  <1>1. Ids # {} /\ Idle.id \in Ids
    BY DEF Idle
  <1>2. Idle \in CallerRecord /\ Idle.at = "idle" /\ Idle.call = "none"
    BY <1>1 DEF Idle, CallerRecord, Requests, RequestStates
  <1>3. \A c \in Callers : caller[c] = Idle
    OBVIOUS
  <1>4. lease \in LeaseRecord /\ lease.state = "paused"
    <2>1. lease = [holder |-> "system", state |-> "paused", epoch |-> 2,
                   operator |-> NoOperator, expires |-> "none"]
      BY DEF NewLease
    <2>2. QED
      BY <2>1 DEF LeaseRecord, Actors, ControlStates, Deadlines
  <1>5. requests \in [Ids -> RequestRecord]
    BY DEF RequestRecord, RequestStates, Deltas
  <1>6. Typed
    <2>1. inbox \in Seq(Item) /\ Rest.for = Nobody
      BY DEF Rest
    <2>2. caller \in [Callers -> CallerRecord]
      BY <1>2
    <2>3. session \in SessionRecord
      BY DEF Rest, Work, SessionRecord
    <2>4. QED
      BY <1>1, <1>4, <1>5, <2>1, <2>2, <2>3 DEF Typed
  <1>7. OnCall
    BY <1>2, <1>3 DEF OnCall, ClaimStages, ReturnStages, Callers
  <1>8. Served /\ InHand /\ LeaseCoherent
    <2>1. inbox = <<>> /\ session.at = "rest" /\ session.for = Nobody
      BY DEF Rest
    <2>2. lease.holder = "system" /\ lease.expires = "none"
      BY DEF NewLease
    <2>3. Served /\ InHand
      BY <2>1 DEF Served, InHand, Sweeping, Releasing, Gesturing
    <2>4. QED
      BY <1>4, <2>2, <2>3 DEF LeaseCoherent
  <1>9. Attended /\ Alone
    BY <1>2, <1>3 DEF Attended, Alone, Rest
  <1>10. PICK i \in Ids : requests = [j \in Ids |->
           [state |-> IF j = i THEN "open" ELSE "unopened", operator |-> NoOperator,
            actions |-> 0, delta |-> NotCaptured]]
    OBVIOUS
  <1>11. Told(i)
    <2>1. Only(i) /\ requests[i].state = "open"
      BY <1>10 DEF Only
    <2>2. \A c \in Callers : Relies(c, i)
      BY <1>2, <1>3 DEF Relies, ReturnStages
    <2>3. SessionRelies(i)
      BY DEF SessionRelies, Rest
    <2>4. Settling(i)
      BY <1>4, <2>1 DEF Settling, Claimable
    <2>5. QED
      BY <2>1, <2>2, <2>3, <2>4 DEF Told
  <1>12. QED
    BY <1>6, <1>7, <1>8, <1>9, <1>11 DEF IInv, Shape, Story

-----------------------------------------------------------------------------
(* What each lease operation leaves, from any lease of the right type.     *)
LeaseIs(l, holder, state, operator, expires, epoch) ==
  /\ l.holder = holder /\ l.state = state /\ l.operator = operator
  /\ l.expires = expires /\ l.epoch = epoch

LEMMA LeaseMoves ==
  ASSUME lease \in LeaseRecord
  PROVE  /\ \A op \in Operators :
              lease' = Transition([lease EXCEPT !.operator = op, !.expires = "ahead"],
                                  "human", "human_control") =>
                /\ lease' \in LeaseRecord
                /\ LeaseIs(lease', "human", "human_control", op, "ahead", lease.epoch + 1)
         /\ LeaseRelease =>
              /\ lease' \in LeaseRecord
              /\ LeaseIs(lease', "system", "resuming", lease.operator, "none", lease.epoch + 1)
         /\ LeaseResume =>
              /\ lease' \in LeaseRecord
              /\ LeaseIs(lease', "automation", "running", NoOperator, lease.expires,
                         lease.epoch + 1)
         /\ LeaseReclaimExpired =>
              /\ lease' \in LeaseRecord
              /\ LeaseIs(lease', "system", "paused", NoOperator, "none", lease.epoch + 1)
         /\ Lapse =>
              /\ lease' \in LeaseRecord
              /\ LeaseIs(lease', lease.holder, lease.state, lease.operator, "passed",
                         lease.epoch)
  <1> USE DEF LeaseIs, LeaseRecord, Actors, ControlStates, Deadlines, Transition, Vacated
  <1>1. lease.epoch + 1 \in Nat \ {0}
    OBVIOUS
  <1>2. ASSUME NEW op \in Operators,
               lease' = Transition([lease EXCEPT !.operator = op, !.expires = "ahead"],
                                   "human", "human_control")
        PROVE  /\ lease' \in LeaseRecord
               /\ LeaseIs(lease', "human", "human_control", op, "ahead", lease.epoch + 1)
    BY <1>1, <1>2
  <1>3. LeaseRelease =>
          /\ lease' \in LeaseRecord
          /\ LeaseIs(lease', "system", "resuming", lease.operator, "none", lease.epoch + 1)
    BY <1>1 DEF LeaseRelease
  <1>4. LeaseResume =>
          /\ lease' \in LeaseRecord
          /\ LeaseIs(lease', "automation", "running", NoOperator, lease.expires,
                     lease.epoch + 1)
    BY <1>1 DEF LeaseResume
  <1>5. LeaseReclaimExpired =>
          /\ lease' \in LeaseRecord
          /\ LeaseIs(lease', "system", "paused", NoOperator, "none", lease.epoch + 1)
    BY <1>1 DEF LeaseReclaimExpired
  <1>6. Lapse =>
          /\ lease' \in LeaseRecord
          /\ LeaseIs(lease', lease.holder, lease.state, lease.operator, "passed", lease.epoch)
    BY DEF Lapse
  <1>7. QED
    BY <1>2, <1>3, <1>4, <1>5, <1>6

(* One request changes; the others stay as they are.                       *)
RequestMoved(i, state, operator) ==
  /\ requests' \in [Ids -> RequestRecord]
  /\ requests'[i].state = state
  /\ requests'[i].operator = operator
  /\ \A j \in Ids \ {i} : requests'[j] = requests[j]

LEMMA RequestMoves ==
  ASSUME requests \in [Ids -> RequestRecord], NEW i \in Ids, NEW state \in RequestStates,
         NEW operator \in Operators \cup {NoOperator}, NEW actions \in Nat
  PROVE  /\ requests' = [requests EXCEPT ![i].state = state] =>
              RequestMoved(i, state, requests[i].operator)
         /\ requests' = [requests EXCEPT ![i].state = state, ![i].operator = operator] =>
              RequestMoved(i, state, operator)
         /\ requests' = [requests EXCEPT ![i].state = state, ![i].actions = actions,
                                         ![i].delta = NotCaptured] =>
              RequestMoved(i, state, requests[i].operator)
  <1>1. requests[i] \in RequestRecord
    OBVIOUS
  <1>2. PICK r : r = requests[i]
    OBVIOUS
  <1>3. ASSUME NEW s \in RequestRecord, requests' = [requests EXCEPT ![i] = s]
        PROVE  RequestMoved(i, s.state, s.operator)
    BY <1>3 DEF RequestMoved
  <1>4. ASSUME requests' = [requests EXCEPT ![i].state = state]
        PROVE  RequestMoved(i, state, requests[i].operator)
    <2>1. requests' = [requests EXCEPT ![i] = [r EXCEPT !.state = state]]
      BY <1>2, <1>4
    <2>2. /\ [r EXCEPT !.state = state] \in RequestRecord
          /\ [r EXCEPT !.state = state].state = state
          /\ [r EXCEPT !.state = state].operator = r.operator
      BY <1>1, <1>2 DEF RequestRecord
    <2>3. RequestMoved(i, [r EXCEPT !.state = state].state, [r EXCEPT !.state = state].operator)
      BY <1>3, <2>1, <2>2
    <2>4. QED
      BY <1>2, <2>2, <2>3
  <1>5. ASSUME requests' = [requests EXCEPT ![i].state = state, ![i].operator = operator]
        PROVE  RequestMoved(i, state, operator)
    <2>1. requests' = [requests EXCEPT ![i] = [r EXCEPT !.state = state, !.operator = operator]]
      BY <1>2, <1>5
    <2>2. /\ [r EXCEPT !.state = state, !.operator = operator] \in RequestRecord
          /\ [r EXCEPT !.state = state, !.operator = operator].state = state
          /\ [r EXCEPT !.state = state, !.operator = operator].operator = operator
      BY <1>1, <1>2 DEF RequestRecord
    <2>3. RequestMoved(i, [r EXCEPT !.state = state, !.operator = operator].state,
                          [r EXCEPT !.state = state, !.operator = operator].operator)
      BY <1>3, <2>1, <2>2
    <2>4. QED
      BY <1>2, <2>2, <2>3
  <1>6. ASSUME requests' = [requests EXCEPT ![i].state = state, ![i].actions = actions,
                                            ![i].delta = NotCaptured]
        PROVE  RequestMoved(i, state, requests[i].operator)
    <2> DEFINE s == [r EXCEPT !.state = state, !.actions = actions, !.delta = NotCaptured]
    <2>1. requests' = [requests EXCEPT ![i] = s]
      BY <1>2, <1>6
    <2>2. s \in RequestRecord /\ s.state = state /\ s.operator = r.operator
      BY <1>1, <1>2 DEF RequestRecord, Deltas
    <2> HIDE DEF s
    <2>3. RequestMoved(i, s.state, s.operator)
      BY <1>3, <2>1, <2>2
    <2>4. QED
      BY <1>2, <2>2, <2>3
  <1>7. QED
    BY <1>4, <1>5, <1>6

(* One caller moves on; the others stay where they are.                    *)
Moved(c, at, call) ==
  /\ caller'[c].at = at
  /\ caller'[c].call = call
  /\ \A d \in Callers \ {c} : caller'[d] = caller[d]

LEMMA CallerMoves ==
  ASSUME NEW c \in Callers, Typed
  PROVE  /\ Returns(c) =>
              Moved(c, "idle", "none") /\ caller' \in [Callers -> CallerRecord]
         /\ \A at \in {"waiting"} \cup ClaimStages \cup ReturnStages :
              Goes(c, at) =>
                /\ Moved(c, at, caller[c].call)
                /\ caller' \in [Callers -> CallerRecord]
                /\ caller'[c].id = caller[c].id
                /\ caller'[c].operator = caller[c].operator
  <1>1. Idle \in CallerRecord /\ Idle.at = "idle" /\ Idle.call = "none"
    BY DEF Idle, CallerRecord, Requests, RequestStates, Typed
  <1>2. caller \in [Callers -> CallerRecord]
    BY DEF Typed
  <1>3. Returns(c) => Moved(c, "idle", "none") /\ caller' \in [Callers -> CallerRecord]
    BY <1>1, <1>2 DEF Returns, Moved
  <1>4. ASSUME NEW at \in {"waiting"} \cup ClaimStages \cup ReturnStages, Goes(c, at)
        PROVE  /\ Moved(c, at, caller[c].call)
               /\ caller' \in [Callers -> CallerRecord]
               /\ caller'[c].id = caller[c].id
               /\ caller'[c].operator = caller[c].operator
    <2>1. caller' = [caller EXCEPT ![c] = [caller[c] EXCEPT !.at = at]]
      BY <1>2, <1>4 DEF Goes
    <2>2. [caller[c] EXCEPT !.at = at] \in CallerRecord
      BY <1>2 DEF CallerRecord
    <2>3. /\ [caller[c] EXCEPT !.at = at].at = at
          /\ [caller[c] EXCEPT !.at = at].call = caller[c].call
          /\ [caller[c] EXCEPT !.at = at].id = caller[c].id
          /\ [caller[c] EXCEPT !.at = at].operator = caller[c].operator
      BY <1>2 DEF CallerRecord
    <2>4. QED
      BY <1>2, <2>1, <2>2, <2>3 DEF Moved
  <1>5. QED
    BY <1>3, <1>4

LEMMA OnCallMoves ==
  ASSUME OnCall, NEW c \in Callers, NEW at, NEW call, Moved(c, at, call),
         at = "idle" <=> call = "none",
         at \in ClaimStages <=> call = "claim",
         at \in ReturnStages => call = "release",
         call = "claim" => caller'[c].operator \in Operators,
         c = Loop => call \in {"none", "gesture"}
  PROVE  OnCall'
  BY DEF OnCall, Moved, Callers

LEMMA HandlerMoves ==
  ASSUME Typed, OnCall, NEW c \in Callers,
         \/ Returns(c)
         \/ caller[c].call = "claim" /\ \E at \in ClaimStages : Goes(c, at)
         \/ caller[c].call = "release" /\ \E at \in ReturnStages : Goes(c, at)
  PROVE  /\ OnCall'
         /\ caller' \in [Callers -> CallerRecord]
         /\ \A d \in Callers \ {c} : caller'[d] = caller[d]
  <1>1. CASE Returns(c)
    <2>1. Moved(c, "idle", "none") /\ caller' \in [Callers -> CallerRecord]
      BY <1>1, CallerMoves
    <2>2. OnCall'
      BY <2>1, OnCallMoves DEF ClaimStages, ReturnStages
    <2>3. QED
      BY <2>1, <2>2 DEF Moved
  <1>2. ASSUME caller[c].call = "claim", NEW at \in ClaimStages, Goes(c, at)
        PROVE  /\ OnCall'
               /\ caller' \in [Callers -> CallerRecord]
               /\ \A d \in Callers \ {c} : caller'[d] = caller[d]
    <2>1. /\ Moved(c, at, "claim") /\ caller' \in [Callers -> CallerRecord]
          /\ caller'[c].operator = caller[c].operator
      BY <1>2, CallerMoves
    <2>2. caller[c].operator \in Operators /\ c # Loop
      BY <1>2 DEF OnCall
    <2>3. at # "idle" /\ at \notin ReturnStages
      BY <1>2 DEF ClaimStages, ReturnStages
    <2>4. OnCall'
      BY <1>2, <2>1, <2>2, <2>3, OnCallMoves
    <2>5. QED
      BY <2>1, <2>4 DEF Moved
  <1>3. ASSUME caller[c].call = "release", NEW at \in ReturnStages, Goes(c, at)
        PROVE  /\ OnCall'
               /\ caller' \in [Callers -> CallerRecord]
               /\ \A d \in Callers \ {c} : caller'[d] = caller[d]
    <2>1. Moved(c, at, "release") /\ caller' \in [Callers -> CallerRecord]
      BY <1>3, CallerMoves
    <2>2. c # Loop
      BY <1>3 DEF OnCall
    <2>3. at # "idle" /\ at \notin ClaimStages
      BY <1>3 DEF ClaimStages, ReturnStages
    <2>4. OnCall'
      BY <1>3, <2>1, <2>2, <2>3, OnCallMoves
    <2>5. QED
      BY <2>1, <2>4 DEF Moved
  <1>4. QED
    BY <1>1, <1>2, <1>3

(* Whoever waits for nothing may move without the queue noticing.          *)
LEMMA ServedMoves ==
  ASSUME Typed, Served, NEW c \in Callers, caller[c].at # "waiting",
         \A d \in Callers \ {c} : caller'[d] = caller[d],
         UNCHANGED <<inbox, session>>
  PROVE  Served'
  <1>1. \A d \in Callers, work \in Work : Waits(d, work) => Waits(d, work)'
    BY DEF Waits
  <1>2. \A n \in DOMAIN inbox : inbox[n].for \in Callers \cup {Nobody} /\ inbox[n].work \in Work
    <2>1. \A n \in DOMAIN inbox : inbox[n] \in Item
      BY DEF Typed
    <2>2. QED
      BY <2>1 DEF Item
  <1>3. session.for \in Callers \cup {Nobody} /\ session.work \in Work
    BY DEF Typed, SessionRecord
  <1>4. QED
    BY <1>1, <1>2, <1>3 DEF Served

-----------------------------------------------------------------------------
(* A claim passes from thread to thread of the code within one caller; the *)
(* session thread and its queue are not touched.                           *)
LEMMA ClaimShape ==
  ASSUME Shape, NEW c \in Pool,
         \/ \E i \in Ids, operator \in Operators : ClaimArrives(c, i, operator)
         \/ ClaimHandler(c)
  PROVE  Shape'
  <1> USE DEF Shape
  <1>c. c \in Callers /\ c # Loop
    BY ConsoleAssumption DEF Callers
  <1>0. /\ UNCHANGED <<inbox, session, timeouts>> /\ overlapped' \in BOOLEAN
        /\ caller[c].at # "waiting"
    BY DEF ClaimArrives, ClaimHandler, ClaimChecks, ClaimMarks, LeaseChecks, LeaseTakes,
       HandoffOpens, ClaimUndone, Accepts, history, Typed
  <1> DEFINE Kept == /\ lease' \in LeaseRecord
                     /\ requests' \in [Ids -> RequestRecord]
                     /\ handoff' \in HandoffRecord \cup {NoHandoff}
                     /\ caller' \in [Callers -> CallerRecord]
                     /\ \A d \in Callers \ {c} : caller'[d] = caller[d]
                     /\ OnCall'
                     /\ LeaseCoherent'
                     /\ handoff # NoHandoff => handoff' # NoHandoff
                     /\ lease.state = "human_control" => lease'.state = "human_control"
  <1>1. ASSUME NEW i \in Ids, NEW operator \in Operators, ClaimArrives(c, i, operator)
        PROVE  Kept
    <2> DEFINE new == [at |-> "checking", call |-> "claim", id |-> i, operator |-> operator,
                       prior |-> requests[i].state, before |-> requests[i].operator]
    <2>1. new \in CallerRecord
      BY DEF CallerRecord, ClaimStages, Requests, Typed, RequestRecord
    <2>2. caller' = [caller EXCEPT ![c] = new]
      BY <1>1 DEF ClaimArrives
    <2>3. Moved(c, "checking", "claim") /\ caller' \in [Callers -> CallerRecord]
      BY <1>c, <2>1, <2>2 DEF Moved, Typed
    <2>4. caller'[c].operator \in Operators
      BY <1>c, <2>2 DEF Typed
    <2>5. OnCall'
      BY <1>c, <2>3, <2>4, OnCallMoves DEF ClaimStages, ReturnStages
    <2>6. QED
      BY <1>1, <2>3, <2>5 DEF ClaimArrives, Typed, Moved, LeaseCoherent
  <1>2. ASSUME ClaimChecks(c) PROVE Kept
    <2>1. OnCall' /\ caller' \in [Callers -> CallerRecord]
          /\ \A d \in Callers \ {c} : caller'[d] = caller[d]
      BY <1>c, <1>2, HandlerMoves DEF ClaimChecks, OnCall, ClaimStages
    <2>2. QED
      BY <1>2, <2>1 DEF ClaimChecks, Typed, LeaseCoherent
  <1>3. ASSUME ClaimMarks(c) PROVE Kept
    <2>1. OnCall' /\ caller' \in [Callers -> CallerRecord]
          /\ \A d \in Callers \ {c} : caller'[d] = caller[d]
      BY <1>c, <1>3, HandlerMoves DEF ClaimMarks, OnCall, ClaimStages
    <2>2. caller[c].operator \in Operators /\ caller[c].id \in Ids
      BY <1>c, <1>3, ZenonT(60) DEF ClaimMarks, OnCall, ClaimStages, Typed, CallerRecord
    <2>3. requests' \in [Ids -> RequestRecord]
      BY <1>3, <2>2, RequestMoves DEF ClaimMarks, Typed, RequestMoved, RequestStates
    <2>4. QED
      BY <1>3, <2>1, <2>3 DEF ClaimMarks, Typed, LeaseCoherent
  <1>4. ASSUME LeaseChecks(c) PROVE Kept
    <2>1. OnCall' /\ caller' \in [Callers -> CallerRecord]
          /\ \A d \in Callers \ {c} : caller'[d] = caller[d]
      BY <1>c, <1>4, HandlerMoves DEF LeaseChecks, OnCall, ClaimStages
    <2>2. QED
      BY <1>4, <2>1 DEF LeaseChecks, Typed, LeaseCoherent
  <1>5. ASSUME LeaseTakes(c) PROVE Kept
    <2>1. OnCall' /\ caller' \in [Callers -> CallerRecord]
          /\ \A d \in Callers \ {c} : caller'[d] = caller[d]
      BY <1>c, <1>5, HandlerMoves DEF LeaseTakes, OnCall, ClaimStages
    <2>2. caller[c].operator \in Operators
      BY <1>c, <1>5 DEF LeaseTakes, OnCall, ClaimStages
    <2>3. lease' \in LeaseRecord /\ LeaseCoherent' /\ lease'.state = "human_control"
      BY <1>5, <2>2, LeaseMoves DEF LeaseTakes, Typed, LeaseCoherent, LeaseIs
    <2>4. QED
      BY <1>5, <2>1, <2>3 DEF LeaseTakes, Typed
  <1>6. ASSUME HandoffOpens(c) PROVE Kept
    <2>1. OnCall' /\ caller' \in [Callers -> CallerRecord]
          /\ \A d \in Callers \ {c} : caller'[d] = caller[d]
      BY <1>c, <1>6, HandlerMoves DEF HandoffOpens, OnCall, ClaimStages
    <2>2. caller[c].operator \in Operators /\ caller[c].id \in Ids
      BY <1>c, <1>6 DEF HandoffOpens, OnCall, ClaimStages, Typed, CallerRecord
    <2>3. handoff' \in HandoffRecord
      BY <1>6, <2>2 DEF HandoffOpens, HandoffRecord
    <2>4. QED
      BY <1>6, <2>1, <2>3, ConsoleAssumption DEF HandoffOpens, HandoffRecord, Typed, LeaseCoherent
  <1>7. ASSUME ClaimUndone(c) PROVE Kept
    <2>1. OnCall' /\ caller' \in [Callers -> CallerRecord]
          /\ \A d \in Callers \ {c} : caller'[d] = caller[d]
      BY <1>c, <1>7, HandlerMoves, ZenonT(60) DEF ClaimUndone, OnCall, ClaimStages
    <2>2. requests' \in [Ids -> RequestRecord]
      <3>1. /\ caller[c].id \in Ids /\ caller[c].prior \in RequestStates
            /\ caller[c].before \in Operators \cup {NoOperator}
        BY <1>c DEF Typed, CallerRecord
      <3>2. QED
        BY <1>7, <3>1, RequestMoves DEF ClaimUndone, Typed, RequestMoved
    <2>3. QED
      BY <1>7, <2>1, <2>2 DEF ClaimUndone, Typed, LeaseCoherent
  <1>8. Kept
    BY <1>1, <1>2, <1>3, <1>4, <1>5, <1>6, <1>7 DEF ClaimHandler
  <1>9. Served'
    BY <1>0, <1>8, <1>c, ServedMoves
  <1>10. InHand'
    BY <1>0, <1>8 DEF InHand
  <1>11. QED
    BY <1>0, <1>8, <1>9, <1>10 DEF Typed

-----------------------------------------------------------------------------
(* What the queue holds is an item at each of its places.                  *)
LEMMA QueuedItems ==
  ASSUME Typed
  PROVE  /\ \A n \in DOMAIN inbox : inbox[n] \in Item
         /\ \A n \in DOMAIN inbox : inbox[n].for \in Callers \cup {Nobody} /\ inbox[n].work \in Work
         /\ DOMAIN inbox = 1 .. Len(inbox) /\ Len(inbox) \in Nat
         /\ session.for \in Callers \cup {Nobody} /\ session.work \in Work
  <1>1. inbox \in Seq(Item)
    BY DEF Typed
  <1>2. \A n \in DOMAIN inbox : inbox[n] \in Item
    BY <1>1
  <1>3. DOMAIN inbox = 1 .. Len(inbox) /\ Len(inbox) \in Nat
    BY <1>1
  <1>4. QED
    BY <1>2, <1>3 DEF Item, Typed, SessionRecord

(* A caller that was idle queues work and waits for it.                    *)
LEMMA SubmitShape ==
  ASSUME Shape, NEW c \in Callers, NEW call, NEW work \in Work, Submits(c, call, work),
         caller[c].at = "idle", call = IF work = "sweep" THEN "poll" ELSE work,
         c = Loop => work = "gesture",
         UNCHANGED <<broker, session, timeouts>>, overlapped' \in BOOLEAN
  PROVE  Shape'
  <1> USE DEF Shape
  <1>1. call \in {"poll", "release", "gesture"}
    BY DEF Work
  <1>2. /\ Moved(c, "waiting", call)
        /\ caller' \in [Callers -> CallerRecord]
    <2>1. caller' = [caller EXCEPT ![c] = [caller[c] EXCEPT !.at = "waiting", !.call = call]]
      BY DEF Submits, Typed
    <2>2. caller[c] \in CallerRecord
      BY DEF Typed
    <2>3. [caller[c] EXCEPT !.at = "waiting", !.call = call] \in CallerRecord
      BY <1>1, <2>2 DEF CallerRecord, Requests
    <2>4. /\ [caller[c] EXCEPT !.at = "waiting", !.call = call].at = "waiting"
          /\ [caller[c] EXCEPT !.at = "waiting", !.call = call].call = call
      BY <2>2 DEF CallerRecord
    <2>5. QED
      BY <2>1, <2>3, <2>4 DEF Moved, Typed
  <1>3. OnCall'
    BY <1>1, <1>2, OnCallMoves DEF ClaimStages, ReturnStages
  <1>4. PICK item \in Item : item = [for |-> c, work |-> work]
    BY DEF Item
  <1>5. inbox' = Append(inbox, item) /\ inbox \in Seq(Item)
    BY <1>4 DEF Submits, Typed
  <1>6. Typed'
    BY <1>2, <1>5 DEF Typed, broker
  <1>7. /\ DOMAIN inbox' = DOMAIN inbox \cup {Len(inbox) + 1}
        /\ \A n \in DOMAIN inbox : inbox'[n] = inbox[n]
        /\ inbox'[Len(inbox) + 1] = item
        /\ Len(inbox) + 1 \notin DOMAIN inbox
    BY <1>5
  <1>8. Waits(c, work)'
    BY <1>2 DEF Waits, Moved
  <1>9. \A d \in Callers, w \in Work : Waits(d, w) => d # c /\ Waits(d, w)'
    BY <1>2 DEF Waits, Moved
  <1>10. item.for = c /\ item.work = work
    BY <1>4
  <1>11. Served'
    BY <1>7, <1>8, <1>9, <1>10, QueuedItems DEF Served
  <1>12. InHand' /\ LeaseCoherent'
    BY DEF InHand, LeaseCoherent, broker
  <1>13. QED
    BY <1>3, <1>6, <1>11, <1>12

LEMMA ArrivalShape ==
  ASSUME Shape,
         \/ \E c \in Pool : PollArrives(c) \/ ReleaseArrives(c)
         \/ GestureArrives
  PROVE  Shape'
  <1>1. ASSUME NEW c \in Pool, PollArrives(c)
        PROVE  Shape'
    <2>1. c \in Callers /\ c # Loop
      BY ConsoleAssumption DEF Callers
    <2>2. overlapped' \in BOOLEAN
      BY <1>1 DEF PollArrives, Accepts, Shape, Typed
    <2>3. QED
      BY <1>1, <2>1, <2>2, SubmitShape DEF PollArrives, Accepts, Work
  <1>2. ASSUME NEW c \in Pool, ReleaseArrives(c)
        PROVE  Shape'
    <2>1. c \in Callers /\ c # Loop
      BY ConsoleAssumption DEF Callers
    <2>2. overlapped' \in BOOLEAN
      BY <1>2 DEF ReleaseArrives, Accepts, Shape, Typed
    <2>3. QED
      BY <1>2, <2>1, <2>2, SubmitShape DEF ReleaseArrives, Accepts, Work
  <1>3. CASE GestureArrives
    <2>1. overlapped' \in BOOLEAN /\ UNCHANGED timeouts
      BY <1>3 DEF GestureArrives, history, Shape, Typed
    <2>2. QED
      BY <1>3, <2>1, SubmitShape DEF GestureArrives, Work, Callers
  <1>4. QED
    BY <1>1, <1>2, <1>3

(* A caller that gives up leaves its work to nobody.                       *)
LEMMA TimeoutShape ==
  ASSUME Shape, NEW c \in Callers, TimesOut(c)
  PROVE  Shape'
  <1> USE DEF Shape
  <1>1. OnCall' /\ caller' \in [Callers -> CallerRecord]
        /\ \A d \in Callers \ {c} : caller'[d] = caller[d]
    BY HandlerMoves DEF TimesOut
  <1>2. /\ inbox' \in Seq(Item)
        /\ DOMAIN inbox' = DOMAIN inbox
        /\ \A n \in DOMAIN inbox :
             /\ inbox'[n].for = IF inbox[n].for = c THEN Nobody ELSE inbox[n].for
             /\ inbox'[n].work = inbox[n].work
    <2> DEFINE left(n) == IF inbox[n].for = c THEN [inbox[n] EXCEPT !.for = Nobody] ELSE inbox[n]
    <2>1. inbox' = [n \in DOMAIN inbox |-> left(n)]
      BY DEF TimesOut
    <2>2. \A n \in DOMAIN inbox :
            /\ left(n) \in Item
            /\ left(n).for = IF inbox[n].for = c THEN Nobody ELSE inbox[n].for
            /\ left(n).work = inbox[n].work
      BY QueuedItems DEF Item
    <2> HIDE DEF left
    <2>3. inbox' = [n \in 1 .. Len(inbox) |-> left(n)]
      BY <2>1, QueuedItems
    <2>4. inbox' \in Seq(Item)
      BY <2>2, <2>3, QueuedItems
    <2>5. QED
      BY <2>1, <2>2, <2>4
  <1>3. /\ session'.for = IF session.for = c THEN Nobody ELSE session.for
        /\ session'.at = session.at /\ session'.work = session.work
        /\ session' \in SessionRecord
    BY DEF TimesOut, Typed, SessionRecord
  <1>4. Typed'
    BY <1>1, <1>2, <1>3 DEF TimesOut, Typed, broker
  <1>5. \A d \in Callers \ {c}, w \in Work : Waits(d, w) => Waits(d, w)'
    BY <1>1 DEF Waits
  <1>6. Served'
    BY <1>2, <1>3, <1>5, QueuedItems DEF Served
  <1>7. InHand' /\ LeaseCoherent'
    BY <1>3 DEF InHand, LeaseCoherent, TimesOut, broker
  <1>8. QED
    BY <1>1, <1>4, <1>6, <1>7

LEMMA ReturnShape ==
  ASSUME Shape, NEW c \in Pool, ReleaseHandler(c)
  PROVE  Shape'
  <1> USE DEF Shape
  <1>1. c \in Callers /\ c # Loop
    BY ConsoleAssumption DEF Callers
  <1>2. /\ caller[c].call = "release" /\ caller[c].at # "waiting"
        /\ UNCHANGED <<inbox, session, timeouts, overlapped, handoff>>
    BY <1>1 DEF ReleaseHandler, LeaseResumes, RequestResolves, OnCall, ReturnStages, history
  <1>3. /\ OnCall' /\ caller' \in [Callers -> CallerRecord]
        /\ \A d \in Callers \ {c} : caller'[d] = caller[d]
    BY <1>1, <1>2, HandlerMoves DEF ReleaseHandler, LeaseResumes, RequestResolves, ReturnStages
  <1>4. Served'
    BY <1>1, <1>2, <1>3, ServedMoves
  <1>5. lease' = lease \/ LeaseResume
    BY DEF ReleaseHandler, LeaseResumes, RequestResolves
  <1>6. /\ lease' \in LeaseRecord /\ LeaseCoherent'
        /\ lease.state = "human_control" => lease'.state = "human_control"
    BY <1>5, LeaseMoves DEF LeaseIs, LeaseCoherent, LeaseResume, Typed
  <1>7. requests' \in [Ids -> RequestRecord]
    <2>1. CASE requests' = requests
      BY <2>1, SMTT(30) DEF Typed
    <2>2. CASE handoff # NoHandoff /\ QueueResolve(handoff.intervention)
      <3>1. handoff.intervention \in Ids
        BY <2>2 DEF Typed, HandoffRecord
      <3>2. QED
        BY <2>2, <3>1, RequestMoves DEF QueueResolve, Typed, RequestMoved, RequestStates
    <2>3. QED
      BY <2>1, <2>2 DEF ReleaseHandler, LeaseResumes, RequestResolves
  <1>8. InHand'
    BY <1>2, <1>6 DEF InHand
  <1>9. QED
    BY <1>2, <1>3, <1>4, <1>6, <1>7, <1>8 DEF Typed

-----------------------------------------------------------------------------
(* The session thread answers the caller it worked for, if anyone waits.   *)
LEMMA WorkEndsShape ==
  ASSUME Shape, NEW succeeded \in BOOLEAN, WorkEnds(succeeded), UNCHANGED inbox
  PROVE  /\ OnCall' /\ Served'
         /\ caller' \in [Callers -> CallerRecord]
         /\ session' \in SessionRecord
         /\ session'.at = "rest" /\ session'.for = Nobody
         /\ \A d \in Callers : d # session.for => caller'[d] = caller[d]
         /\ session.for # Nobody =>
              /\ ~(succeeded /\ session.work = "release") => Moved(session.for, "idle", "none")
              /\ succeeded /\ session.work = "release" => Moved(session.for, "resuming", "release")
  <1> USE DEF Shape
  <1>1. session' = Rest /\ Rest.at = "rest" /\ Rest.for = Nobody /\ Rest.work = "sweep"
    BY DEF WorkEnds, Rest
  <1>2. session' \in SessionRecord
    BY DEF WorkEnds, Rest, Work, SessionRecord
  <1>3. CASE session.for = Nobody
    <2>1. caller' = caller
      BY <1>3 DEF WorkEnds
    <2>2. Nobody \notin Callers
      BY ConsoleAssumption
    <2>3. Served'
      BY <1>1, <1>3, <2>1 DEF Served, Waits
    <2>4. QED
      BY <1>1, <1>2, <1>3, <2>1, <2>2, <2>3 DEF OnCall, Typed
  <1>4. CASE session.for # Nobody
    <2>1. session.for \in Callers /\ Waits(session.for, session.work)
      BY <1>4 DEF Typed, SessionRecord, Served
    <2>2. PICK c \in Callers : c = session.for
      BY <2>1
    <2>3. IF succeeded /\ session.work = "release" THEN Goes(c, "resuming") ELSE Returns(c)
      BY <1>4, <2>2 DEF WorkEnds
    <2>4. session.work = "release" => caller[c].call = "release"
      BY <2>1, <2>2 DEF Waits
    <2>5. /\ OnCall' /\ caller' \in [Callers -> CallerRecord]
          /\ \A d \in Callers \ {c} : caller'[d] = caller[d]
      BY <2>3, <2>4, HandlerMoves DEF ReturnStages
    <2>6. /\ ~(succeeded /\ session.work = "release") => Moved(c, "idle", "none")
          /\ succeeded /\ session.work = "release" => Moved(c, "resuming", "release")
      BY <2>3, <2>4, CallerMoves DEF ReturnStages
    <2>7. \A d \in Callers \ {c}, w \in Work : Waits(d, w) => Waits(d, w)'
      BY <2>5 DEF Waits
    <2>8. Served'
      BY <1>1, <2>2, <2>7, QueuedItems DEF Served
    <2>9. QED
      BY <1>1, <1>2, <2>2, <2>5, <2>6, <2>8
  <1>5. QED
    BY <1>3, <1>4

(* It takes the work it was given in order, ...                            *)
LEMMA ServeShape ==
  ASSUME Shape, Serve
  PROVE  /\ Shape'
         /\ \A n \in DOMAIN inbox' : \E m \in DOMAIN inbox : inbox'[n] = inbox[m]
         /\ \E m \in DOMAIN inbox : session'.for = inbox[m].for
         /\ session'.at \in Work
  <1> USE DEF Shape
  <1>1. inbox \in Seq(Item) /\ inbox # <<>>
    BY DEF Serve, Typed
  <1>2. 1 \in DOMAIN inbox /\ Head(inbox) = inbox[1]
    BY <1>1
  <1>3. /\ session'.at = inbox[1].work /\ session'.for = inbox[1].for
        /\ session'.work = inbox[1].work
        /\ inbox[1].work \in Work /\ inbox[1].for \in Callers \cup {Nobody}
    BY <1>2, QueuedItems DEF Serve
  <1>4. /\ inbox' \in Seq(Item)
        /\ \A n \in DOMAIN inbox' : /\ n + 1 \in DOMAIN inbox /\ n + 1 # 1
                                   /\ inbox'[n] = inbox[n + 1]
        /\ \A n, m \in DOMAIN inbox' : n + 1 = m + 1 => n = m
    <2>1. inbox' = Tail(inbox)
      BY DEF Serve
    <2>2. QED
      BY <1>1, <2>1
  <1>5. session' \in SessionRecord
    BY <1>2, <1>3 DEF Serve, Work, SessionRecord, Sweeping, Releasing, Gesturing
  <1>6. Typed'
    BY <1>4, <1>5 DEF Serve, Typed, broker, history
  <1>7. caller' = caller
    BY DEF Serve
  <1>8. Served'
    <2>1. \A d, w : Waits(d, w)' <=> Waits(d, w)
      BY <1>7 DEF Waits
    <2>2. \A n \in DOMAIN inbox' : inbox'[n].for # Nobody =>
            /\ Waits(inbox'[n].for, inbox'[n].work)
            /\ \A m \in DOMAIN inbox' : inbox'[m].for = inbox'[n].for => m = n
            /\ inbox'[n].for # session'.for
      BY <1>2, <1>3, <1>4 DEF Served
    <2>3. session'.for # Nobody => Waits(session'.for, session'.work)
      BY <1>2, <1>3 DEF Served
    <2>4. QED
      BY <2>1, <2>2, <2>3 DEF Served
  <1>9. InHand'
    BY <1>3 DEF InHand, Work, Sweeping, Releasing, Gesturing
  <1>10. OnCall' /\ LeaseCoherent'
    BY DEF Serve, OnCall, LeaseCoherent, broker
  <1>11. QED
    BY <1>2, <1>3, <1>4, <1>6, <1>8, <1>9, <1>10

(* ... goes on with it, ...                                                *)
LEMMA WorkGoesOnShape ==
  ASSUME Shape, NEW at \in Sweeping \cup Releasing \cup Gesturing, WorkGoesOn(at),
         UNCHANGED inbox
  PROVE  /\ OnCall' /\ Served'
         /\ caller' = caller
         /\ session' \in SessionRecord
         /\ session'.at = at /\ session'.for = session.for /\ session'.work = session.work
  <1> USE DEF Shape
  <1>1. /\ session' \in SessionRecord
        /\ session'.at = at /\ session'.for = session.for /\ session'.work = session.work
        /\ caller' = caller
    BY DEF WorkGoesOn, Typed, SessionRecord
  <1>2. QED
    BY <1>1 DEF OnCall, Served, Waits

(* ... and each of its steps leaves the shape of things as it was.         *)
LEMMA WorkShape ==
  ASSUME Shape,
         \/ SweepReclaims
         \/ SweepAbandons
         \/ SweepForgets
         \/ \E observed \in BOOLEAN : ReleaseFreesLease(observed)
         \/ ReleaseFiles
         \/ \E confirmed \in BOOLEAN : GestureAuthorized(confirmed)
         \/ GesturePerformed
  PROVE  Shape'
  <1> USE DEF Shape
  <1>0. UNCHANGED <<inbox, timeouts, overlapped>>
    BY DEF SweepReclaims, SweepAbandons, SweepForgets, ReleaseFreesLease, ReleaseFiles,
       GestureAuthorized, GesturePerformed, history
  <1>1. CASE SweepReclaims
    <2>1. \/ WorkEnds(TRUE)
          \/ handoff # NoHandoff /\ WorkGoesOn("abandoning") /\ session.work = "sweep"
      BY <1>1 DEF SweepReclaims, InHand, Sweeping
    <2>2. lease' \in LeaseRecord /\ LeaseCoherent'
      BY <1>1, LeaseMoves DEF SweepReclaims, LeaseIs, LeaseCoherent, Typed
    <2>3. InHand' /\ Served' /\ OnCall' /\ caller' \in [Callers -> CallerRecord]
          /\ session' \in SessionRecord
      <3>1. CASE WorkEnds(TRUE)
        BY <1>0, <3>1, WorkEndsShape DEF InHand, Sweeping, Releasing, Gesturing
      <3>2. CASE handoff # NoHandoff /\ WorkGoesOn("abandoning") /\ session.work = "sweep"
        BY <1>0, <1>1, <3>2, WorkGoesOnShape
        DEF InHand, Sweeping, Releasing, Gesturing, SweepReclaims, Typed
      <3>3. QED
        BY <2>1, <3>1, <3>2
    <2>4. QED
      BY <1>0, <1>1, <2>2, <2>3 DEF SweepReclaims, Typed
  <1>2. CASE SweepAbandons
    <2>1. handoff # NoHandoff /\ session.work = "sweep"
      BY <1>2 DEF SweepAbandons, InHand, Sweeping
    <2>2. handoff.intervention \in Ids
      BY <2>1, SMTT(30) DEF Typed, HandoffRecord
    <2>3. requests' \in [Ids -> RequestRecord]
      BY <1>2, <2>2, RequestMoves
      DEF SweepAbandons, QueueAbandon, Typed, RequestMoved, RequestStates
    <2>4. WorkGoesOn("forgetting") /\ UNCHANGED <<lease, handoff>>
      BY <1>2 DEF SweepAbandons
    <2>5. InHand' /\ Served' /\ OnCall' /\ caller' = caller
          /\ session' \in SessionRecord
      BY <1>0, <2>1, <2>4, WorkGoesOnShape DEF InHand, Sweeping, Releasing, Gesturing
    <2>6. QED
      BY <1>0, <2>3, <2>4, <2>5 DEF Typed, LeaseCoherent
  <1>3. CASE SweepForgets
    <2>1. WorkEnds(TRUE) /\ UNCHANGED <<lease, requests>> /\ handoff' = NoHandoff
      BY <1>3 DEF SweepForgets
    <2>2. InHand' /\ Served' /\ OnCall' /\ caller' \in [Callers -> CallerRecord]
          /\ session' \in SessionRecord
      BY <1>0, <2>1, WorkEndsShape DEF InHand, Sweeping, Releasing, Gesturing
    <2>3. QED
      BY <1>0, <2>1, <2>2 DEF Typed, LeaseCoherent
  <1>4. ASSUME NEW observed \in BOOLEAN, ReleaseFreesLease(observed)
        PROVE  Shape'
    <2>1. \/ WorkEnds(FALSE) /\ lease' = lease
          \/ /\ handoff # NoHandoff /\ LeaseRelease
             /\ WorkGoesOn("filing") /\ session.work = "release"
      BY <1>4 DEF ReleaseFreesLease, InHand, Releasing
    <2>2. UNCHANGED <<requests, handoff>>
      BY <1>4 DEF ReleaseFreesLease
    <2>3. CASE WorkEnds(FALSE) /\ lease' = lease
      <3>1. InHand' /\ Served' /\ OnCall' /\ caller' \in [Callers -> CallerRecord]
            /\ session' \in SessionRecord
        BY <1>0, <2>3, WorkEndsShape DEF InHand, Sweeping, Releasing, Gesturing
      <3>2. QED
        BY <1>0, <2>2, <2>3, <3>1 DEF Typed, LeaseCoherent
    <2>4. CASE /\ handoff # NoHandoff /\ LeaseRelease
               /\ WorkGoesOn("filing") /\ session.work = "release"
      <3>1. lease' \in LeaseRecord /\ LeaseCoherent'
        BY <2>4, LeaseMoves DEF LeaseIs, LeaseCoherent, Typed
      <3>2. InHand' /\ Served' /\ OnCall' /\ caller' = caller
            /\ session' \in SessionRecord
        BY <1>0, <2>2, <2>4, WorkGoesOnShape DEF InHand, Sweeping, Releasing, Gesturing
      <3>3. QED
        BY <1>0, <2>2, <3>1, <3>2 DEF Typed
    <2>5. QED
      BY <2>1, <2>3, <2>4
  <1>5. CASE ReleaseFiles
    <2>1. PICK claimed \in BOOLEAN : claimed <=> requests[handoff.intervention].state = "claimed"
      OBVIOUS
    <2>2. handoff \in HandoffRecord
      BY <1>5 DEF ReleaseFiles, InHand, Typed
    <2>3. WorkEnds(claimed) /\ UNCHANGED <<lease, handoff>>
      BY <1>5, <2>1 DEF ReleaseFiles
    <2>4. requests' \in [Ids -> RequestRecord]
      <3>1. requests' = requests \/ QueueRelease(handoff.intervention, handoff.actions, NotCaptured)
        BY <1>5 DEF ReleaseFiles
      <3>2. handoff.intervention \in Ids /\ handoff.actions \in Nat
        BY <2>2 DEF HandoffRecord
      <3>3. QED
        BY <3>1, <3>2, RequestMoves DEF QueueRelease, Typed, RequestMoved, RequestStates
    <2>5. InHand' /\ Served' /\ OnCall' /\ caller' \in [Callers -> CallerRecord]
          /\ session' \in SessionRecord
      BY <1>0, <2>3, WorkEndsShape DEF InHand, Sweeping, Releasing, Gesturing
    <2>6. QED
      BY <1>0, <2>3, <2>4, <2>5 DEF Typed, LeaseCoherent
  <1>6. ASSUME NEW confirmed \in BOOLEAN, GestureAuthorized(confirmed)
        PROVE  Shape'
    <2>1. \/ WorkEnds(FALSE)
          \/ /\ lease.state = "human_control"
             /\ WorkGoesOn("gesturing") /\ session.work = "gesture"
      BY <1>6 DEF GestureAuthorized, MayAct, LeaseCoherent, InHand, Gesturing
    <2>2. UNCHANGED broker
      BY <1>6 DEF GestureAuthorized
    <2>3. InHand' /\ Served' /\ OnCall' /\ caller' \in [Callers -> CallerRecord]
          /\ session' \in SessionRecord
      <3>1. CASE WorkEnds(FALSE)
        BY <1>0, <3>1, WorkEndsShape DEF InHand, Sweeping, Releasing, Gesturing
      <3>2. CASE /\ lease.state = "human_control"
                 /\ WorkGoesOn("gesturing") /\ session.work = "gesture"
        BY <1>0, <2>2, <3>2, WorkGoesOnShape
        DEF InHand, Sweeping, Releasing, Gesturing, Typed, broker
      <3>3. QED
        BY <2>1, <3>1, <3>2
    <2>4. QED
      BY <1>0, <2>2, <2>3 DEF Typed, LeaseCoherent, broker
  <1>7. CASE GesturePerformed
    <2>1. WorkEnds(TRUE) /\ UNCHANGED <<lease, requests>>
      BY <1>7 DEF GesturePerformed
    <2>2. handoff' \in HandoffRecord \cup {NoHandoff}
      <3>1. handoff' = handoff \/ (handoff # NoHandoff /\ handoff' = [handoff EXCEPT !.actions = @ + 1])
        BY <1>7 DEF GesturePerformed
      <3>2. QED
        BY <3>1 DEF Typed, HandoffRecord
    <2>3. InHand' /\ Served' /\ OnCall' /\ caller' \in [Callers -> CallerRecord]
          /\ session' \in SessionRecord
      BY <1>0, <2>1, WorkEndsShape DEF InHand, Sweeping, Releasing, Gesturing
    <2>4. QED
      BY <1>0, <2>1, <2>2, <2>3 DEF Typed, LeaseCoherent
  <1>8. QED
    BY <1>1, <1>2, <1>3, <1>4, <1>5, <1>6, <1>7

LEMMA StepShape == Shape /\ [Next]_vars => Shape'
  <1> SUFFICES ASSUME Shape, [Next]_vars PROVE Shape'
    OBVIOUS
  <1>1. CASE HoldLapses
    <2>1. lease' \in LeaseRecord /\ LeaseCoherent' /\ lease'.state = lease.state
      BY <1>1, LeaseMoves DEF HoldLapses, Lapse, LeaseIs, LeaseCoherent, Shape, Typed
    <2>2. QED
      BY <1>1, <2>1 DEF HoldLapses, Shape, Typed, OnCall, Served, Waits, InHand, history
  <1>2. CASE UNCHANGED vars
    BY <1>2 DEF vars, history, Shape, Typed, OnCall, Served, Waits, InHand, LeaseCoherent
  <1>3. CASE Session
    BY <1>3, ServeShape, WorkShape DEF Session
  <1>4. QED
    BY <1>1, <1>2, <1>3, ClaimShape, ArrivalShape, TimeoutShape, ReturnShape DEF Next

(* A gesture reaches the application while a person holds the session,     *)
(* however many threads claim, release, sweep or give up meanwhile.        *)
THEOREM GesturesAreHeld == Spec => GesturesLandWhileHeld
  <1>1. Init => Shape
    BY InitIInv DEF IInv
  <1>2. Shape /\ [Next]_vars =>
          [session.at = "gesturing" /\ session'.at # "gesturing" => lease.holder = "human"]_vars
    BY DEF Shape, InHand, LeaseCoherent
  <1>3. QED
    BY <1>1, <1>2, StepShape, PTL DEF Spec, GesturesLandWhileHeld

-----------------------------------------------------------------------------
(* While a claim is on its way no other request is, so the session thread  *)
(* has at most gestures to carry out; ...                                  *)
LEMMA ClaimIsAlone ==
  ASSUME Shape, Attended, Alone, NEW c \in Callers, caller[c].call = "claim"
  PROVE  /\ \A d \in Callers \ {c} : caller[d].at \notin ClaimStages \cup ReturnStages
         /\ session.at \notin Sweeping \cup Releasing
  <1> USE DEF Shape
  <1>1. \A d \in Callers \ {c} : caller[d].call \notin Requests
    BY DEF Alone
  <1>2. \A d \in Callers \ {c} : caller[d].at \notin ClaimStages \cup ReturnStages
    BY <1>1 DEF OnCall, Requests
  <1>3. ASSUME session.at \in Sweeping \cup Releasing
        PROVE  FALSE
    <2>1. session.for \in Callers /\ Waits(session.for, session.work)
      BY <1>3 DEF Attended, Served, Typed, SessionRecord, Sweeping, Releasing
    <2>2. session.work \in {"sweep", "release"}
      BY <1>3 DEF InHand
    <2>3. caller[session.for].call \in {"poll", "release"}
      BY <2>1, <2>2 DEF Waits
    <2>4. QED
      BY <1>1, <2>1, <2>3 DEF Requests
  <1>4. QED
    BY <1>2, <1>3

(* ... and while a sweep or a release is worked on no claim is.            *)
LEMMA WorkIsAlone ==
  ASSUME Shape, Attended, Alone, session.at # "rest"
  PROVE  /\ session.for \in Callers /\ Waits(session.for, session.work)
         /\ session.at \in Sweeping \cup Releasing =>
              \A d \in Callers : caller[d].call # "claim" /\ caller[d].at \notin ClaimStages
  <1>1. session.for \in Callers /\ Waits(session.for, session.work)
    BY SMTT(30) DEF Shape, Attended, Served, Typed, SessionRecord
  <1>2. QED
    BY <1>1, ClaimIsAlone DEF Shape, OnCall

(* Nothing undoes disorder.                                                *)
LEMMA OrderlyBefore ==
  ASSUME Shape, [Next]_vars, Orderly'
  PROVE  Orderly
  <1> USE DEF Shape, Typed, Orderly, history
  <1>1. CASE UNCHANGED <<timeouts, overlapped>>
    BY <1>1
  <1>2. CASE \E c \in Pool : \/ \E i \in Ids, op \in Operators : ClaimArrives(c, i, op)
                             \/ PollArrives(c)
                             \/ ReleaseArrives(c)
    BY <1>2 DEF ClaimArrives, PollArrives, ReleaseArrives, Accepts
  <1>3. CASE \E c \in Callers : TimesOut(c)
    BY <1>3 DEF TimesOut
  <1>4. QED
    BY <1>1, <1>2, <1>3
    DEF Next, ClaimHandler, ClaimChecks, ClaimMarks, LeaseChecks, LeaseTakes, HandoffOpens,
        ClaimUndone, ReleaseHandler, LeaseResumes, RequestResolves, Session, Serve,
        SweepReclaims, SweepAbandons, SweepForgets, ReleaseFreesLease, ReleaseFiles,
        GestureAuthorized, GesturePerformed, GestureArrives, HoldLapses, vars

-----------------------------------------------------------------------------
(* The claim, step by step.                                                *)
LEMMA AloneMoves ==
  ASSUME Alone, NEW c \in Callers, NEW call, NEW at, Moved(c, at, call),
         \/ call \notin Requests
         \/ call = caller[c].call
         \/ call = "claim" /\ \A d \in Callers : caller[d].call \notin Requests
         \/ call # "claim" /\ \A d \in Callers : caller[d].call # "claim"
  PROVE  Alone'
  BY DEF Alone, Moved, Requests

LEMMA ClaimStory ==
  ASSUME Shape, Shape', Attended, Alone, NEW i \in Ids, Told(i), NEW c \in Pool,
         ClaimHandler(c)
  PROVE  Attended' /\ Alone' /\ Told(i)'
  <1> USE DEF Shape
  <1>1. /\ c \in Callers /\ caller[c].call = "claim" /\ caller[c].id = i
        /\ UNCHANGED <<inbox, session>>
    BY DEF Callers, ClaimHandler, ClaimChecks, ClaimMarks, LeaseChecks, LeaseTakes,
       HandoffOpens, ClaimUndone, OnCall, ClaimStages, Told, Relies
  <1>2. /\ \A d \in Callers \ {c} : caller[d].at \notin ClaimStages \cup ReturnStages
        /\ session.at \notin Sweeping \cup Releasing
    BY <1>1, ClaimIsAlone
  <1>3. Attended'
    BY <1>1 DEF Attended
  <1> DEFINE Kept(at, call) == /\ Moved(c, at, call)
                               /\ Only(i)' /\ Relies(c, i)' /\ Settling(i)'
  <1>4. ASSUME NEW at, NEW call \in {"claim", "none"}, Kept(at, call)
        PROVE  Alone' /\ Told(i)'
    <2>1. Alone'
      BY <1>1, <1>4, AloneMoves DEF Requests
    <2>2. \A d \in Callers \ {c} : Relies(d, i)'
      <3>1. \A d \in Callers \ {c} : caller'[d].at \notin ClaimStages \cup ReturnStages
        BY <1>2, <1>4 DEF Moved
      <3>2. \A d \in Callers \ {c} : caller'[d].call # "claim"
        BY <1>1, <1>4 DEF Moved, Alone, Requests
      <3>3. QED
        BY <3>1, <3>2 DEF Relies, ClaimStages, ReturnStages
    <2>3. SessionRelies(i)'
      BY <1>1, <1>2 DEF SessionRelies, Sweeping, Releasing
    <2>4. QED
      BY <1>4, <2>1, <2>2, <2>3 DEF Told
  <1>5. /\ Returns(c) => Moved(c, "idle", "none")
        /\ \A at \in ClaimStages : Goes(c, at) => /\ Moved(c, at, "claim")
                                               /\ caller'[c].id = i
                                               /\ caller'[c].operator = caller[c].operator
    BY <1>1, CallerMoves
  <1>6. Only(i) /\ Relies(c, i) /\ Settling(i)
    BY <1>1 DEF Told
  <1>7. /\ ~Someone({"asking lease", "taking"}) \/ caller[c].at \in {"asking lease", "taking"}
        /\ ~Someone({"recording"}) \/ caller[c].at = "recording"
        /\ ~Someone(ReturnStages) /\ ~Someone({"resuming"}) /\ ~Someone({"resolving"})
    BY <1>1, <1>2 DEF Someone, ClaimStages, ReturnStages, OnCall
  <1>8. requests \in [Ids -> RequestRecord] /\ lease \in LeaseRecord
    BY DEF Typed
  <1>9. ASSUME ClaimChecks(c)
        PROVE  Alone' /\ Told(i)'
    <2>1. caller[c].at = "checking" /\ UNCHANGED <<lease, requests, handoff, session>>
      BY <1>9 DEF ClaimChecks
    <2>2. Only(i)' /\ Settling(i)'
      BY <1>6, <1>7, <2>1 DEF Only, Settling
    <2>3. CASE requests[i].state \in Claimable
      <3>1. lease.state = "paused"
        BY <1>2, <1>6, <1>7, <1>8, <2>3
        DEF Settling, Claimable, LeaseRecord, ControlStates, Releasing
      <3>2. Moved(c, "marking", "claim") /\ caller'[c].id = i
        BY <1>1, <1>5, <1>9, <2>3 DEF ClaimChecks, ClaimStages
      <3>3. Relies(c, i)'
        BY <2>1, <2>3, <3>1, <3>2 DEF Relies, Moved, ReturnStages
      <3>4. QED
        BY <1>4, <2>2, <3>2, <3>3
    <2>4. CASE requests[i].state \notin Claimable
      <3>1. Moved(c, "idle", "none")
        BY <1>1, <1>5, <1>9, <2>4 DEF ClaimChecks
      <3>2. Relies(c, i)'
        BY <3>1 DEF Relies, Moved, ReturnStages
      <3>3. QED
        BY <1>4, <2>2, <3>1, <3>2
    <2>5. QED
      BY <2>3, <2>4
  <1>10. ASSUME ClaimMarks(c)
         PROVE  Alone' /\ Told(i)'
    <2>1. caller[c].at = "marking" /\ UNCHANGED <<lease, handoff, session>>
      BY <1>10 DEF ClaimMarks
    <2>2. Moved(c, "asking lease", "claim") /\ caller'[c].id = i
          /\ caller'[c].operator = caller[c].operator
      BY <1>5, <1>10 DEF ClaimMarks, ClaimStages
    <2>3. RequestMoved(i, "claimed", caller[c].operator)
      <3>1. caller[c].operator \in Operators
        BY <1>1 DEF OnCall
      <3>2. QED
        BY <1>1, <1>8, <1>10, <3>1, RequestMoves DEF ClaimMarks, RequestStates
    <2>4. lease.state = "paused"
      BY <1>6, <2>1 DEF Relies
    <2>5. Only(i)'
      BY <1>6, <2>3 DEF Only, RequestMoved
    <2>6. Relies(c, i)'
      BY <2>1, <2>2, <2>3, <2>4 DEF Relies, Moved, RequestMoved, ReturnStages
    <2>7. Settling(i)'
      <3>1. Someone({"asking lease", "taking"})'
        BY <1>1, <2>2 DEF Someone, Moved
      <3>2. QED
        BY <1>6, <2>1, <2>4, <3>1 DEF Settling
    <2>8. QED
      BY <1>4, <2>2, <2>5, <2>6, <2>7
  <1>11. ASSUME LeaseChecks(c)
         PROVE  Alone' /\ Told(i)'
    <2>1. caller[c].at = "asking lease" /\ UNCHANGED <<lease, requests, handoff, session>>
      BY <1>11 DEF LeaseChecks
    <2>2. lease.state = "paused"
      BY <1>6, <2>1 DEF Relies
    <2>3. Moved(c, "taking", "claim") /\ caller'[c].id = i
          /\ caller'[c].operator = caller[c].operator
      BY <1>5, <1>11, <2>2 DEF LeaseChecks, ClaimStages
    <2>4. Only(i)'
      BY <1>6, <2>1 DEF Only
    <2>5. Relies(c, i)'
      BY <1>6, <2>1, <2>3 DEF Relies, Moved, ReturnStages
    <2>6. Settling(i)'
      <3>1. Someone({"asking lease", "taking"})'
        BY <1>1, <2>3 DEF Someone, Moved
      <3>2. QED
        BY <1>6, <2>1, <2>2, <3>1 DEF Settling
    <2>7. QED
      BY <1>4, <2>3, <2>4, <2>5, <2>6
  <1>12. ASSUME LeaseTakes(c)
         PROVE  Alone' /\ Told(i)'
    <2>1. caller[c].at = "taking" /\ UNCHANGED <<requests, handoff, session>>
      BY <1>12 DEF LeaseTakes
    <2>2. Moved(c, "recording", "claim") /\ caller'[c].id = i
      BY <1>5, <1>12 DEF LeaseTakes, ClaimStages
    <2>3. lease'.state = "human_control" /\ lease'.expires = "ahead"
          /\ lease'.operator = caller[c].operator
      <3>1. caller[c].operator \in Operators
        BY <1>1 DEF OnCall
      <3>2. QED
        BY <1>8, <1>12, <3>1, LeaseMoves DEF LeaseTakes, LeaseIs
    <2>4. Only(i)'
      BY <1>6, <2>1 DEF Only
    <2>5. Relies(c, i)'
      BY <2>2, <2>3 DEF Relies, Moved, ReturnStages
    <2>6. Settling(i)'
      <3>1. Someone({"recording"})'
        BY <1>1, <2>2 DEF Someone, Moved
      <3>2. requests[i].state = "claimed" /\ requests[i].operator = caller[c].operator
        BY <1>6, <2>1 DEF Relies
      <3>3. QED
        BY <1>6, <2>1, <2>3, <3>1, <3>2 DEF Settling
    <2>7. QED
      BY <1>4, <2>2, <2>4, <2>5, <2>6
  <1>13. ASSUME HandoffOpens(c)
         PROVE  Alone' /\ Told(i)'
    <2>1. caller[c].at = "recording" /\ UNCHANGED <<lease, requests, session>>
      BY <1>13 DEF HandoffOpens
    <2>2. Moved(c, "idle", "none")
      BY <1>5, <1>13 DEF HandoffOpens
    <2>3. handoff' # NoHandoff /\ handoff'.intervention = i
      <3>1. caller[c].operator \in Operators
        BY <1>1 DEF OnCall
      <3>2. handoff' \in HandoffRecord /\ handoff'.intervention = i
        BY <1>1, <1>13, <3>1 DEF HandoffOpens, HandoffRecord
      <3>3. QED
        BY <3>2, ConsoleAssumption DEF HandoffRecord
    <2>4. Only(i)'
      BY <1>6, <2>1 DEF Only
    <2>5. Relies(c, i)'
      BY <2>2 DEF Relies, Moved, ReturnStages
    <2>6. Settling(i)'
      <3>1. lease.state = "human_control"
        BY <1>6, <2>1 DEF Relies
      <3>2. QED
        BY <1>6, <2>1, <2>3, <3>1 DEF Settling
    <2>7. QED
      BY <1>4, <2>2, <2>4, <2>5, <2>6
  <1>14. ASSUME ClaimUndone(c)
         PROVE  Alone' /\ Told(i)'
    BY <1>6, <1>14 DEF ClaimUndone, Relies
  <1>15. QED
    BY <1>3, <1>9, <1>10, <1>11, <1>12, <1>13, <1>14 DEF ClaimHandler

-----------------------------------------------------------------------------
(* A step of somebody who relies on nothing yet, and changes nothing that  *)
(* others rely on, leaves all that is known as it is.                      *)
LEMMA BystanderTold ==
  ASSUME NEW i \in Ids, Told(i),
         \A d \in Callers :
           \/ caller'[d] = caller[d]
           \/ /\ caller[d].at \in {"idle", "waiting"}
              /\ caller'[d].at \in {"idle", "waiting", "checking"}
              /\ caller'[d].call = "claim" => caller'[d].id = i,
         UNCHANGED <<lease, requests>>,
         handoff # NoHandoff <=> handoff' # NoHandoff,
         handoff # NoHandoff => handoff'.intervention = handoff.intervention,
         \/ session'.at = session.at
         \/ {session.at, session'.at} \cap {"abandoning", "forgetting", "filing"} = {}
  PROVE  Told(i)'
  <1>1. Only(i)'
    BY DEF Told, Only
  <1>2. \A d \in Callers :
          caller'[d].at \in {"marking", "asking lease", "taking", "recording", "undoing",
                            "resuming", "resolving"} => caller'[d] = caller[d]
    OBVIOUS
  <1>3. ASSUME NEW c \in Callers
        PROVE  Relies(c, i)'
    <2>1. Relies(c, i)
      BY DEF Told
    <2>2. CASE caller'[c] = caller[c]
      BY <1>2, <2>1, <2>2 DEF Relies, ReturnStages
    <2>3. CASE /\ caller'[c].at \in {"idle", "waiting", "checking"}
               /\ caller'[c].call = "claim" => caller'[c].id = i
      BY <2>3 DEF Relies, ReturnStages
    <2>4. QED
      BY <2>2, <2>3
  <1>4. SessionRelies(i)'
    BY DEF Told, SessionRelies
  <1>5. /\ Someone({"asking lease", "taking"}) => Someone({"asking lease", "taking"})'
        /\ Someone({"recording"}) => Someone({"recording"})'
        /\ Someone({"resuming"}) => Someone({"resuming"})'
        /\ Someone({"resolving"}) => Someone({"resolving"})'
    BY DEF Someone
  <1>6. Settling(i)'
    BY <1>5 DEF Told, Settling
  <1>7. QED
    BY <1>1, <1>3, <1>4, <1>6 DEF Told

LEMMA SubmitStory ==
  ASSUME Shape, Attended, Alone, NEW i \in Ids, Told(i),
         NEW c \in Callers, NEW call, NEW work \in Work, Submits(c, call, work),
         caller[c].at = "idle", UNCHANGED <<broker, session>>,
         \/ call = "gesture"
         \/ call \in {"poll", "release"} /\ ~InFlight("claim")
  PROVE  Attended' /\ Alone' /\ Told(i)'
  <1>1. Moved(c, "waiting", call)
    BY DEF Submits, Moved, Shape, Typed, CallerRecord
  <1>2. Told(i)'
    BY <1>1, BystanderTold DEF Moved, broker
  <1>3. Alone'
    BY <1>1, AloneMoves DEF InFlight, Requests
  <1>4. Attended'
    <2>1. PICK item \in Item : item = [for |-> c, work |-> work]
      BY DEF Item
    <2>2. inbox' = Append(inbox, item) /\ inbox \in Seq(Item)
      BY <2>1 DEF Submits, Shape, Typed
    <2>3. /\ DOMAIN inbox' = DOMAIN inbox \cup {Len(inbox) + 1}
          /\ \A n \in DOMAIN inbox : inbox'[n] = inbox[n]
          /\ inbox'[Len(inbox) + 1] = item
      BY <2>2
    <2>4. item.for # Nobody
      BY <2>1, ConsoleAssumption
    <2>5. QED
      BY <2>3, <2>4 DEF Attended
  <1>5. QED
    BY <1>2, <1>3, <1>4

LEMMA ArrivalStory ==
  ASSUME Shape, Orderly', Attended, Alone, NEW i \in Ids, Told(i),
         \/ \E c \in Pool, j \in Ids, operator \in Operators : ClaimArrives(c, j, operator)
         \/ \E c \in Pool : PollArrives(c) \/ ReleaseArrives(c)
         \/ GestureArrives
  PROVE  Attended' /\ Alone' /\ Told(i)'
  <1>0. \A c \in Pool, call \in Requests :
          Accepts(c, call) =>
            /\ c \in Callers /\ caller[c].at = "idle"
            /\ call = "claim" => \A other \in Requests : ~InFlight(other)
            /\ call # "claim" => ~InFlight("claim")
    BY DEF Accepts, Orderly, Callers, Requests
  <1>1. ASSUME NEW c \in Pool, NEW j \in Ids, NEW operator \in Operators,
               ClaimArrives(c, j, operator)
        PROVE  Attended' /\ Alone' /\ Told(i)'
    <2>1. /\ caller[c].at = "idle" /\ c \in Callers
          /\ \A d \in Callers : caller[d].call \notin Requests
      BY <1>0, <1>1 DEF ClaimArrives, InFlight, Requests
    <2>2. j = i
      BY <1>1 DEF ClaimArrives, Told, Only
    <2>3. Moved(c, "checking", "claim") /\ caller'[c].id = i
      BY <1>1, <2>1, <2>2 DEF ClaimArrives, Moved, Shape, Typed
    <2>4. Alone'
      BY <2>1, <2>3, AloneMoves
    <2>5. UNCHANGED <<lease, requests, handoff, inbox, session>>
      BY <1>1 DEF ClaimArrives
    <2>6. Told(i)'
      BY <2>1, <2>3, <2>5, BystanderTold DEF Moved
    <2>7. QED
      BY <2>4, <2>5, <2>6 DEF Attended
  <1>2. ASSUME NEW c \in Pool, PollArrives(c)
        PROVE  Attended' /\ Alone' /\ Told(i)'
    BY <1>0, <1>2, SubmitStory DEF PollArrives, Work, Requests
  <1>3. ASSUME NEW c \in Pool, ReleaseArrives(c)
        PROVE  Attended' /\ Alone' /\ Told(i)'
    BY <1>0, <1>3, SubmitStory DEF ReleaseArrives, Work, Requests
  <1>4. CASE GestureArrives
    BY <1>4, SubmitStory DEF GestureArrives, Work, Callers
  <1>5. QED
    BY <1>1, <1>2, <1>3, <1>4

(* The give-back's second half runs on the caller's own thread.            *)
LEMMA ReturnStory ==
  ASSUME Shape, Attended, Alone, NEW i \in Ids, Told(i), NEW c \in Pool, ReleaseHandler(c)
  PROVE  Attended' /\ Alone' /\ Told(i)'
  <1> USE DEF Shape
  <1>1. /\ c \in Callers /\ caller[c].call = "release" /\ caller[c].at \in ReturnStages
        /\ UNCHANGED <<inbox, session, handoff>>
    BY DEF Callers, ReleaseHandler, LeaseResumes, RequestResolves, OnCall, ReturnStages
  <1>2. Only(i) /\ Relies(c, i) /\ SessionRelies(i) /\ Settling(i)
    BY <1>1 DEF Told
  <1>3. \A d \in Callers \ {c} : caller[d].at \notin ClaimStages \cup ReturnStages
    <2>1. \A d \in Callers \ {c} : caller[d].call # "claim"
      BY <1>1 DEF Alone, Requests
    <2>2. QED
      BY <1>1, <1>2, <2>1 DEF OnCall, Relies
  <1>4. Attended'
    BY <1>1 DEF Attended
  <1>5. /\ Returns(c) => Moved(c, "idle", "none")
        /\ Goes(c, "resolving") => Moved(c, "resolving", "release")
    BY <1>1, CallerMoves DEF ReturnStages
  <1>6. ASSUME NEW at, NEW call \in {"release", "none"}, Moved(c, at, call),
               Only(i)', Relies(c, i)', SessionRelies(i)', Settling(i)'
        PROVE  Alone' /\ Told(i)'
    <2>1. Alone'
      BY <1>1, <1>6, AloneMoves DEF Requests
    <2>2. \A d \in Callers \ {c} : Relies(d, i)'
      <3>1. \A d \in Callers \ {c} : caller'[d] = caller[d]
        BY <1>6 DEF Moved
      <3>2. \A d \in Callers \ {c} : caller[d].call # "claim"
        BY <1>1 DEF Alone, Requests
      <3>3. QED
        BY <1>3, <3>1, <3>2 DEF Relies, ClaimStages, ReturnStages
    <2>3. QED
      BY <1>6, <2>1, <2>2 DEF Told
  <1>7. ASSUME LeaseResumes(c)
        PROVE  Alone' /\ Told(i)'
    <2>1. lease.state = "resuming" /\ requests[i].state = "released" /\ requests' = requests
      BY <1>2, <1>7 DEF LeaseResumes, Relies
    <2>2. handoff # NoHandoff
      BY <1>2, <2>1 DEF Settling
    <2>3. Moved(c, "resolving", "release") /\ lease'.state = "running"
      BY <1>5, <1>7, <2>1, LeaseMoves DEF LeaseResumes, LeaseIs, Typed
    <2>4. Only(i)'
      BY <1>2, <2>1 DEF Only
    <2>5. Relies(c, i)'
      BY <1>1, <1>3, <2>2, <2>3 DEF Relies, Moved, ReturnStages
    <2>6. SessionRelies(i)'
      BY <1>1, <1>2, <2>1 DEF SessionRelies
    <2>7. Settling(i)'
      <3>1. Someone({"resolving"})'
        BY <1>1, <2>3 DEF Someone, Moved
      <3>2. QED
        BY <1>1, <1>2, <2>1, <2>3, <3>1 DEF Settling
    <2>8. QED
      BY <1>6, <2>3, <2>4, <2>5, <2>6, <2>7
  <1>8. ASSUME RequestResolves(c)
        PROVE  Alone' /\ Told(i)'
    <2>1. lease.state = "running" /\ handoff # NoHandoff /\ lease' = lease
      BY <1>2, <1>8 DEF RequestResolves, Relies
    <2>2. handoff.intervention = i
      BY <1>2, <2>1, SMTT(30) DEF Settling
    <2>3. RequestMoved(i, "resolved", requests[i].operator)
      BY <1>8, <2>1, <2>2, RequestMoves
      DEF RequestResolves, QueueResolve, Typed, RequestStates, RequestRecord
    <2>4. Moved(c, "idle", "none")
      BY <1>5, <1>8 DEF RequestResolves
    <2>5. Only(i)'
      BY <1>2, <2>3 DEF Only, RequestMoved
    <2>6. Relies(c, i)'
      BY <2>4 DEF Relies, Moved, ReturnStages
    <2>7. SessionRelies(i)'
      BY <1>1, <1>2, <2>1 DEF SessionRelies
    <2>8. Settling(i)'
      BY <1>1, <2>1, <2>2, <2>3 DEF Settling, RequestMoved
    <2>9. QED
      BY <1>6, <2>4, <2>5, <2>6, <2>7, <2>8
  <1>9. QED
    BY <1>4, <1>7, <1>8 DEF ReleaseHandler

-----------------------------------------------------------------------------
(* The session thread's end of work that nobody else relied on.            *)
LEMMA EndStory ==
  ASSUME Shape, Attended, Alone, NEW succeeded \in BOOLEAN, WorkEnds(succeeded),
         UNCHANGED inbox, session.at # "rest"
  PROVE  Attended' /\ Alone'
  <1>1. /\ session'.at = "rest" /\ session.for \in Callers
        /\ Waits(session.for, session.work)
        /\ \/ Moved(session.for, "idle", "none")
           \/ session.work = "release" /\ Moved(session.for, "resuming", "release")
    BY WorkEndsShape, WorkIsAlone, ConsoleAssumption
    DEF Moved
  <1>2. Attended'
    BY <1>1 DEF Attended
  <1>3. caller[session.for].call = IF session.work = "sweep" THEN "poll" ELSE session.work
    BY <1>1 DEF Waits
  <1>4. PICK c \in Callers : c = session.for
    BY <1>1
  <1>5. CASE Moved(c, "idle", "none")
    BY <1>2, <1>5, AloneMoves DEF Requests
  <1>6. CASE session.work = "release" /\ Moved(c, "resuming", "release")
    BY <1>2, <1>3, <1>4, <1>6, AloneMoves
  <1>7. QED
    BY <1>1, <1>4, <1>5, <1>6

LEMMA QuietEndStory ==
  ASSUME Shape, Attended, Alone, NEW i \in Ids, Told(i),
         NEW succeeded \in BOOLEAN, WorkEnds(succeeded), UNCHANGED <<lease, requests, inbox>>,
         session.at \notin {"rest", "abandoning", "forgetting", "filing"},
         ~(succeeded /\ session.work = "release"),
         handoff # NoHandoff <=> handoff' # NoHandoff,
         handoff # NoHandoff => handoff'.intervention = handoff.intervention
  PROVE  Attended' /\ Alone' /\ Told(i)'
  <1>1. /\ session'.at = "rest" /\ session.for \in Callers
        /\ caller[session.for].at = "waiting"
        /\ Moved(session.for, "idle", "none")
    BY WorkEndsShape, WorkIsAlone, ConsoleAssumption DEF Waits
  <1>2. Told(i)'
    BY <1>1, BystanderTold DEF Moved
  <1>3. QED
    BY <1>2, EndStory

(* A sweep: nothing to do, or the lapsed hold is taken back, its request   *)
(* offered again, and the handoff forgotten.                               *)
LEMMA SweepStory ==
  ASSUME Shape, Attended, Alone, NEW i \in Ids, Told(i),
         SweepReclaims \/ SweepAbandons \/ SweepForgets
  PROVE  Attended' /\ Alone' /\ Told(i)'
  <1> USE DEF Shape
  <1>1. /\ session.at \in Sweeping /\ session.at # "rest" /\ session.work = "sweep"
        /\ UNCHANGED inbox
    BY DEF SweepReclaims, SweepAbandons, SweepForgets, Sweeping, InHand
  <1>2. \A d \in Callers : caller[d].call # "claim" /\ caller[d].at \notin ClaimStages
    BY <1>1, WorkIsAlone
  <1>3. Only(i) /\ SessionRelies(i) /\ Settling(i) /\ \A d \in Callers : Relies(d, i)
    BY DEF Told
  <1>4. ASSUME lease'.state = "paused", lease.state # "resuming", lease.state # "running",
               \A d \in Callers : caller'[d] = caller[d] \/ Moved(d, "idle", "none")
        PROVE  \A d \in Callers : Relies(d, i)'
    <2>1. \A d \in Callers : caller[d].at \notin ReturnStages
      BY <1>3, <1>4 DEF Relies, ReturnStages
    <2>2. \A d \in Callers : caller'[d].at \notin ReturnStages \cup ClaimStages
                            /\ caller'[d].call # "claim"
      BY <1>2, <1>4, <2>1 DEF Moved, ReturnStages, ClaimStages
    <2>3. QED
      BY <2>2 DEF Relies, ReturnStages, ClaimStages
  <1>5. ASSUME SweepReclaims
        PROVE  Attended' /\ Alone' /\ Told(i)'
    <2>1. session.at = "sweep" /\ UNCHANGED <<requests, handoff>>
      BY <1>5 DEF SweepReclaims
    <2>2. CASE WorkEnds(TRUE) /\ lease' = lease
      BY <1>1, <2>1, <2>2, QuietEndStory
    <2>3. CASE LeaseReclaimExpired
      <3>1. lease.state = "human_control" /\ lease.expires # "ahead"
        BY <2>3 DEF LeaseReclaimExpired, Expired, LeaseCoherent
      <3>2. handoff # NoHandoff /\ requests[i].state = "claimed"
        BY <1>2, <1>3, <3>1 DEF Settling, Someone, ClaimStages
      <3>3. WorkGoesOn("abandoning")
        BY <1>5, <2>3, <3>2 DEF SweepReclaims, LeaseReclaimExpired
      <3>4. /\ session'.at = "abandoning" /\ session'.for = session.for
            /\ caller' = caller
        BY <1>1, <3>3, WorkGoesOnShape DEF Sweeping
      <3>5. lease'.state = "paused"
        BY <2>3, LeaseMoves DEF LeaseIs, Typed
      <3>6. \A d \in Callers : Relies(d, i)'
        BY <1>4, <3>1, <3>4, <3>5
      <3>7. Only(i)' /\ SessionRelies(i)' /\ Settling(i)'
        BY <1>3, <2>1, <3>2, <3>4, <3>5 DEF Only, SessionRelies, Settling
      <3>8. Attended' /\ Alone'
        BY <1>1, <3>4 DEF Attended, Alone
      <3>9. QED
        BY <3>6, <3>7, <3>8 DEF Told
    <2>4. QED
      BY <1>5, <2>2, <2>3 DEF SweepReclaims, LeaseReclaimExpired
  <1>6. ASSUME SweepAbandons
        PROVE  Attended' /\ Alone' /\ Told(i)'
    <2>1. session.at = "abandoning" /\ UNCHANGED <<lease, handoff>> /\ handoff # NoHandoff
      BY <1>6 DEF SweepAbandons, InHand
    <2>2. lease.state = "paused" /\ handoff.intervention = i
      BY <1>3, <2>1 DEF SessionRelies, Settling
    <2>3. RequestMoved(i, "abandoned", requests[i].operator)
      BY <1>6, <2>2, RequestMoves
      DEF SweepAbandons, QueueAbandon, Typed, RequestStates, RequestRecord
    <2>4. session'.at = "forgetting" /\ session'.for = session.for /\ caller' = caller
      BY <1>1, <1>6, WorkGoesOnShape DEF SweepAbandons, Sweeping
    <2>5. \A d \in Callers : Relies(d, i)'
      BY <1>4, <2>1, <2>2, <2>4
    <2>6. Only(i)' /\ SessionRelies(i)' /\ Settling(i)'
      BY <1>3, <2>1, <2>2, <2>3, <2>4
      DEF Only, SessionRelies, Settling, RequestMoved, Claimable
    <2>7. Attended' /\ Alone'
      BY <1>1, <2>4 DEF Attended, Alone
    <2>8. QED
      BY <2>5, <2>6, <2>7 DEF Told
  <1>7. ASSUME SweepForgets
        PROVE  Attended' /\ Alone' /\ Told(i)'
    <2>1. /\ session.at = "forgetting" /\ UNCHANGED <<lease, requests>>
          /\ handoff' = NoHandoff /\ WorkEnds(TRUE)
      BY <1>7 DEF SweepForgets
    <2>2. lease.state = "paused"
      BY <1>3, <2>1 DEF SessionRelies
    <2>3. /\ session'.at = "rest" /\ session.for \in Callers
          /\ Moved(session.for, "idle", "none")
      BY <1>1, <2>1, WorkEndsShape, WorkIsAlone, ConsoleAssumption
    <2>4. \A d \in Callers : Relies(d, i)'
      BY <1>4, <2>1, <2>2, <2>3 DEF Moved
    <2>5. requests[i].state \in Claimable
      BY <1>2, <1>3, <2>1, <2>2 DEF Settling, Someone, ClaimStages
    <2>6. Only(i)' /\ SessionRelies(i)' /\ Settling(i)'
      BY <1>3, <2>1, <2>2, <2>3, <2>5 DEF Only, SessionRelies, Settling
    <2>7. Attended' /\ Alone'
      BY <1>1, <2>1, EndStory
    <2>8. QED
      BY <2>4, <2>6, <2>7 DEF Told
  <1>8. QED
    BY <1>5, <1>6, <1>7

(* A release: refused, or the lease is freed and the request filed.        *)
LEMMA FilingStory ==
  ASSUME Shape, Attended, Alone, NEW i \in Ids, Told(i),
         (\E observed \in BOOLEAN : ReleaseFreesLease(observed)) \/ ReleaseFiles
  PROVE  Attended' /\ Alone' /\ Told(i)'
  <1> USE DEF Shape
  <1>1. /\ session.at \in Releasing /\ session.at # "rest" /\ session.work = "release"
        /\ UNCHANGED inbox
    BY DEF ReleaseFreesLease, ReleaseFiles, Releasing, InHand
  <1>2. \A d \in Callers : caller[d].call # "claim" /\ caller[d].at \notin ClaimStages
    BY <1>1, WorkIsAlone
  <1>3. Only(i) /\ SessionRelies(i) /\ Settling(i) /\ \A d \in Callers : Relies(d, i)
    BY DEF Told
  <1>4. ASSUME NEW observed \in BOOLEAN, ReleaseFreesLease(observed)
        PROVE  Attended' /\ Alone' /\ Told(i)'
    <2>1. session.at = "release" /\ UNCHANGED <<requests, handoff>>
      BY <1>4 DEF ReleaseFreesLease
    <2>2. CASE WorkEnds(FALSE) /\ lease' = lease
      BY <1>1, <2>1, <2>2, QuietEndStory
    <2>3. CASE handoff # NoHandoff /\ LeaseRelease /\ WorkGoesOn("filing")
      <3>1. lease.state = "human_control" /\ lease'.state = "resuming"
        BY <2>3, LeaseMoves DEF LeaseRelease, LeaseIs, Typed
      <3>2. requests[i].state = "claimed"
        BY <1>3, <3>1 DEF Settling
      <3>3. session'.at = "filing" /\ session'.for = session.for /\ caller' = caller
        BY <1>1, <2>3, WorkGoesOnShape DEF Releasing
      <3>4. \A d \in Callers : caller[d].at \notin ReturnStages
        BY <1>3, <3>1 DEF Relies, ReturnStages
      <3>5. \A d \in Callers : Relies(d, i)'
        BY <1>2, <3>3, <3>4 DEF Relies, ReturnStages, ClaimStages
      <3>6. Only(i)' /\ SessionRelies(i)' /\ Settling(i)'
        BY <1>3, <2>1, <2>3, <3>1, <3>2, <3>3 DEF Only, SessionRelies, Settling
      <3>7. Attended' /\ Alone'
        BY <1>1, <3>3 DEF Attended, Alone
      <3>8. QED
        BY <3>5, <3>6, <3>7 DEF Told
    <2>4. QED
      BY <1>4, <2>2, <2>3 DEF ReleaseFreesLease
  <1>5. ASSUME ReleaseFiles
        PROVE  Attended' /\ Alone' /\ Told(i)'
    <2>1. session.at = "filing" /\ UNCHANGED <<lease, handoff>> /\ handoff \in HandoffRecord
      BY <1>5 DEF ReleaseFiles, InHand, Typed
    <2>2. /\ lease.state = "resuming" /\ requests[i].state = "claimed"
          /\ handoff.intervention = i /\ handoff # NoHandoff
      BY <1>3, <2>1, ConsoleAssumption DEF SessionRelies, Settling, HandoffRecord
    <2>3. WorkEnds(TRUE) /\ QueueRelease(i, handoff.actions, NotCaptured)
      <3>1. (requests[handoff.intervention].state = "claimed") = TRUE
        BY <2>2
      <3>2. QED
        BY <1>5, <2>2, <3>1 DEF ReleaseFiles
    <2>4. RequestMoved(i, "released", requests[i].operator)
      <3>1. handoff.actions \in Nat
        BY <2>1 DEF HandoffRecord
      <3>2. QED
        BY <2>3, <3>1, RequestMoves DEF QueueRelease, Typed, RequestStates, RequestRecord
    <2>5. /\ session'.at = "rest" /\ session.for \in Callers
          /\ Moved(session.for, "resuming", "release")
      BY <1>1, <2>3, WorkEndsShape, WorkIsAlone, ConsoleAssumption
    <2>6. \A d \in Callers : caller[d].at \notin ReturnStages
      BY <1>3, <2>2 DEF Relies, ReturnStages
    <2>7. \A d \in Callers : Relies(d, i)'
      <3>1. PICK c \in Callers : c = session.for
        BY <2>5
      <3>2. /\ caller'[c].at = "resuming" /\ caller'[c].call = "release"
            /\ \A d \in Callers \ {c} : caller'[d] = caller[d]
        BY <2>5, <3>1 DEF Moved
      <3>3. \A d \in Callers \ {c} : /\ caller'[d].at \notin ReturnStages \cup ClaimStages
                                   /\ caller'[d].call # "claim"
        BY <1>2, <2>6, <3>2
      <3>4. lease'.state = "resuming" /\ requests'[i].state = "released"
        BY <2>1, <2>2, <2>4 DEF RequestMoved
      <3>5. Relies(c, i)'
        BY <3>2, <3>3, <3>4 DEF Relies, ReturnStages
      <3>6. \A d \in Callers \ {c} : Relies(d, i)'
        BY <3>3 DEF Relies, ReturnStages, ClaimStages
      <3>7. QED
        BY <3>5, <3>6
    <2>8. Someone({"resuming"})'
      BY <2>5 DEF Someone, Moved
    <2>9. Only(i)' /\ SessionRelies(i)' /\ Settling(i)'
      BY <1>3, <2>1, <2>2, <2>4, <2>5, <2>8
      DEF Only, SessionRelies, Settling, RequestMoved
    <2>10. Attended' /\ Alone'
      BY <1>1, <2>3, EndStory
    <2>11. QED
      BY <2>7, <2>9, <2>10 DEF Told
  <1>6. QED
    BY <1>4, <1>5

(* A gesture changes nothing that the hold's beginning or end relies on.   *)
LEMMA GestureStory ==
  ASSUME Shape, Attended, Alone, NEW i \in Ids, Told(i),
         (\E confirmed \in BOOLEAN : GestureAuthorized(confirmed)) \/ GesturePerformed
  PROVE  Attended' /\ Alone' /\ Told(i)'
  <1> USE DEF Shape
  <1>1. /\ session.at \in Gesturing /\ session.work = "gesture"
        /\ UNCHANGED <<lease, requests, inbox>>
    BY DEF GestureAuthorized, GesturePerformed, Gesturing, InHand, broker
  <1>2. /\ handoff # NoHandoff <=> handoff' # NoHandoff
        /\ handoff # NoHandoff => handoff'.intervention = handoff.intervention
    <2>1. handoff' = handoff \/ (handoff # NoHandoff /\ handoff' = [handoff EXCEPT !.actions = @ + 1])
      BY DEF GestureAuthorized, GesturePerformed, broker
    <2>2. CASE handoff' = handoff
      BY <2>2
    <2>3. CASE handoff # NoHandoff /\ handoff' = [handoff EXCEPT !.actions = @ + 1]
      <3>1. handoff' \in HandoffRecord /\ handoff'.intervention = handoff.intervention
        BY <2>3 DEF Typed, HandoffRecord
      <3>2. QED
        BY <2>3, <3>1, ConsoleAssumption DEF HandoffRecord
    <2>4. QED
      BY <2>1, <2>2, <2>3
  <1>3. CASE \E succeeded \in BOOLEAN : WorkEnds(succeeded)
    BY <1>1, <1>2, <1>3, QuietEndStory DEF Gesturing
  <1>4. CASE WorkGoesOn("gesturing")
    <2>1. session'.at = "gesturing" /\ session'.for = session.for /\ caller' = caller
      BY <1>1, <1>4, WorkGoesOnShape DEF Gesturing
    <2>2. Told(i)'
      BY <1>1, <1>2, <2>1, BystanderTold DEF Gesturing
    <2>3. QED
      BY <1>1, <2>1, <2>2 DEF Attended, Alone, Gesturing
  <1>5. QED
    BY <1>3, <1>4 DEF GestureAuthorized, GesturePerformed

LEMMA ServeStory ==
  ASSUME Shape, Attended, Alone, NEW i \in Ids, Told(i), Serve
  PROVE  Attended' /\ Alone' /\ Told(i)'
  <1>1. session.at = "rest" /\ UNCHANGED <<lease, requests, handoff, caller>>
    BY DEF Serve, broker
  <1>2. Attended'
    BY ServeShape DEF Attended
  <1>3. Told(i)'
    BY <1>1, ServeShape, BystanderTold DEF Work
  <1>4. QED
    BY <1>1, <1>2, <1>3 DEF Alone

(* A deadline that comes leaves the hold what it was until it is swept.    *)
LEMMA LapseStory ==
  ASSUME Shape, Attended, Alone, NEW i \in Ids, Told(i), HoldLapses
  PROVE  Attended' /\ Alone' /\ Told(i)'
  <1>1. /\ UNCHANGED <<requests, handoff, caller, inbox, session>>
        /\ lease'.state = lease.state /\ lease'.operator = lease.operator
    BY LeaseMoves DEF HoldLapses, LeaseIs, Shape, Typed
  <1>2. \A c \in Callers : caller[c].at # "recording"
    BY DEF HoldLapses, Callers, Shape, OnCall, ClaimStages
  <1>3. \A c \in Callers : Relies(c, i)'
    BY <1>1, <1>2 DEF Told, Relies
  <1>4. Only(i)' /\ SessionRelies(i)' /\ Settling(i)'
    BY <1>1 DEF Told, Only, SessionRelies, Settling, Someone
  <1>5. QED
    BY <1>1, <1>3, <1>4 DEF Told, Attended, Alone

LEMMA StepStory ==
  ASSUME Shape, Shape', Orderly', Attended, Alone, NEW i \in Ids, Told(i), [Next]_vars
  PROVE  Attended' /\ Alone' /\ Told(i)'
  <1>1. CASE Session
    BY <1>1, ServeStory, SweepStory, FilingStory, GestureStory DEF Session
  <1>2. CASE \E c \in Callers : TimesOut(c)
    BY <1>2 DEF TimesOut, Orderly, Shape, Typed
  <1>3. CASE UNCHANGED vars
    BY <1>3 DEF vars, Attended, Alone, Told, Only, Relies, SessionRelies, Settling, Someone
  <1>4. QED
    BY <1>1, <1>2, <1>3, ClaimStory, ArrivalStory, ReturnStory, LapseStory DEF Next

LEMMA StepIInv == IInv /\ [Next]_vars => IInv'
  <1> SUFFICES ASSUME IInv, [Next]_vars PROVE IInv'
    OBVIOUS
  <1>1. Shape'
    BY StepShape DEF IInv
  <1>2. ASSUME Orderly'
        PROVE  Attended' /\ Alone' /\ \E i \in Ids : Told(i)'
    <2>1. Attended /\ Alone /\ \E i \in Ids : Told(i)
      BY <1>2, OrderlyBefore DEF IInv, Story
    <2>2. PICK i \in Ids : Told(i)
      BY <2>1
    <2>3. QED
      BY <1>1, <1>2, <2>1, <2>2, StepStory DEF IInv
  <1>3. QED
    BY <1>1, <1>2 DEF IInv, Story

-----------------------------------------------------------------------------
(* Between calls lease, queue and handoff tell one story, whatever orderly *)
(* interleaving of threads came before.                                    *)
THEOREM BetweenCallsOneStory == Spec => []QuietOneStory
  <1>1. ASSUME IInv
        PROVE  QuietOneStory
    <2> SUFFICES ASSUME Orderly, Quiet
                 PROVE  /\ HeldIsClaimed
                        /\ PausedIsClaimable
                        /\ HandedBackGoesOn
                        /\ lease.state = "running" => InState(Unresolved) = {}
      BY DEF QuietOneStory, HeldIsClaimed, PausedIsClaimable, HandedBackGoesOn
    <2>1. PICK i \in Ids : Told(i)
      BY <1>1 DEF IInv, Story
    <2>2. Only(i) /\ Settling(i)
      BY <2>1 DEF Told
    <2>3. session.at = "rest" /\ \A places : "idle" \notin places => ~Someone(places)
      BY DEF Quiet, Someone
    <2>4. HeldIsClaimed
      BY <2>2 DEF HeldIsClaimed, Settling, InState
    <2>5. PausedIsClaimable
      BY <2>2, <2>3 DEF PausedIsClaimable, Settling, InState
    <2>6. HandedBackGoesOn
      BY <2>2, <2>3 DEF HandedBackGoesOn, Settling
    <2>7. lease.state = "running" => InState(Unresolved) = {}
      BY <2>2, <2>3 DEF Settling, Only, InState, Unresolved
    <2>8. QED
      BY <2>4, <2>5, <2>6, <2>7
  <1>2. QED
    BY <1>1, InitIInv, StepIInv, PTL DEF Spec

(* The lease of an orderly console makes only the moves of a supervised    *)
(* session, ...                                                            *)
LEMMA StepPromised ==
  ASSUME IInv, [Next]_vars, Orderly'
  PROVE  Promise!Next \/ UNCHANGED Promise!vars
  <1>1. PICK i \in Ids : Told(i) /\ Told(i)'
    <2>1. Attended /\ Alone /\ \E i \in Ids : Told(i)
      BY OrderlyBefore DEF IInv, Story
    <2>2. PICK i \in Ids : Told(i)
      BY <2>1
    <2>3. Shape'
      BY StepIInv DEF IInv
    <2>4. QED
      BY <2>1, <2>2, <2>3, StepStory DEF IInv
  <1>2. Shape /\ Shape' /\ Attended /\ Alone
    BY OrderlyBefore, StepIInv DEF IInv, Story
  <1>3. /\ InState(RequestStates \ {"unopened"}) = {i}
        /\ InState(RequestStates \ {"unopened"})' = {i}
    <2>1. \A j \in Ids : requests[j].state \in RequestStates /\ requests'[j].state \in RequestStates
      BY <1>2 DEF Shape, Typed, RequestRecord
    <2>2. QED
      BY <1>1, <2>1 DEF Told, Only, InState
  <1>4. /\ Phases["running"] = "automated" /\ Phases["paused"] = "waiting"
        /\ Phases["human_control"] = "held" /\ Phases["resuming"] = "returned"
    BY DEF Phases
  <1>5. lease \in LeaseRecord
    BY <1>2 DEF Shape, Typed
  <1>6. ASSUME NEW c \in Pool, LeaseTakes(c)
        PROVE  Promise!Next
    <2>1. caller[c].at = "taking" /\ c \in Callers
      BY <1>6 DEF LeaseTakes, Callers
    <2>2. lease.state = "paused" /\ caller[c].operator \in Operators
      BY <1>1, <1>2, <2>1 DEF Told, Relies, Shape, OnCall, ClaimStages
    <2>3. LeaseIs(lease', "human", "human_control", caller[c].operator, "ahead", lease.epoch + 1)
      BY <1>5, <1>6, <2>2, LeaseMoves DEF LeaseTakes
    <2>4. Promise!Take(caller[c].operator)
      BY <1>3, <1>4, <2>2, <2>3 DEF Promise!Take, Promise!Step, LeaseIs
    <2>5. QED
      BY <2>2, <2>4 DEF Promise!Next
  <1>7. ASSUME LeaseReclaimExpired
        PROVE  Promise!Next
    <2>1. lease.state = "human_control"
      BY <1>2, <1>7 DEF LeaseReclaimExpired, Expired, Shape, LeaseCoherent
    <2>2. LeaseIs(lease', "system", "paused", NoOperator, "none", lease.epoch + 1)
      BY <1>5, <1>7, LeaseMoves
    <2>3. Promise!HoldLapses
      BY <1>3, <1>4, <2>1, <2>2 DEF Promise!HoldLapses, Promise!Step, LeaseIs
    <2>4. QED
      BY <2>3 DEF Promise!Next
  <1>8. ASSUME LeaseRelease
        PROVE  Promise!Next
    <2>1. LeaseIs(lease', "system", "resuming", lease.operator, "none", lease.epoch + 1)
      BY <1>5, <1>8, LeaseMoves
    <2>2. Promise!GiveBack
      BY <1>3, <1>4, <1>8, <2>1 DEF LeaseRelease, Promise!GiveBack, Promise!Step, LeaseIs
    <2>3. QED
      BY <2>2 DEF Promise!Next
  <1>9. ASSUME LeaseResume
        PROVE  Promise!Next
    <2>1. LeaseIs(lease', "automation", "running", NoOperator, lease.expires, lease.epoch + 1)
      BY <1>5, <1>9, LeaseMoves
    <2>2. Promise!CarryOn
      BY <1>3, <1>4, <1>9, <2>1 DEF LeaseResume, Promise!CarryOn, Promise!Step, LeaseIs
    <2>3. QED
      BY <2>2 DEF Promise!Next
  <1>10. ASSUME lease' = lease \/ HoldLapses
         PROVE  UNCHANGED Promise!vars
    <2>1. /\ lease'.state = lease.state /\ lease'.operator = lease.operator
          /\ lease'.epoch = lease.epoch
      BY <1>5, <1>10, LeaseMoves DEF HoldLapses, LeaseIs
    <2>2. QED
      BY <1>3, <2>1 DEF Promise!vars
  <1>11. \/ \E c \in Pool : LeaseTakes(c)
         \/ LeaseReclaimExpired \/ LeaseRelease \/ LeaseResume
         \/ lease' = lease \/ HoldLapses
    BY DEF Next, vars, broker, ClaimArrives, PollArrives, ReleaseArrives, GestureArrives, TimesOut,
       ClaimHandler, ClaimChecks, ClaimMarks, LeaseChecks, HandoffOpens, ClaimUndone,
       ReleaseHandler, LeaseResumes, RequestResolves, Session, Serve, SweepReclaims,
       SweepAbandons, SweepForgets, ReleaseFreesLease, ReleaseFiles, GestureAuthorized,
       GesturePerformed
  <1>12. QED
    BY <1>6, <1>7, <1>8, <1>9, <1>10, <1>11

(* ... one taker per wait, one give-back or lapse per hold, each opening   *)
(* one epoch, for any number of threads and requests.                      *)
THEOREM OrderlyConsoleKeepsPromise == Spec => StepsAsPromised
  <1>1. IInv /\ [Next]_vars => [Orderly' => Promise!Next]_(Promise!vars)
    BY StepPromised
  <1>2. QED
    BY <1>1, InitIInv, StepIInv, PTL DEF Spec, StepsAsPromised
=============================================================================
