------------------------------ MODULE Console ------------------------------
(***************************************************************************)
(* The served operator console (src/src/cua/hitl/console/server.py) over   *)
(* one broker, with its threads.  Requests are handled by pool threads;    *)
(* the WebSocket that carries gestures is handled on the event loop; what  *)
(* touches the application is queued to the one session thread             *)
(* (session_thread.py).  `cua console` serves only after its run has       *)
(* ended, so a session starts here as an escalation left it: paused, with  *)
(* one open request.                                                       *)
(*                                                                         *)
(* A step is the work between two points where the code writes something   *)
(* another thread reads; the reads that guard a write are in its step,     *)
(* except where the code decides on them first and writes later (the       *)
(* checks of queue.claim and of lease.claim).                              *)
(***************************************************************************)
EXTENDS Lease, InterventionQueue, Sequences

CONSTANTS Pool,           \* the threads that serve requests
          Loop,           \* the event loop's thread, which serves the WebSocket
          Nobody,         \* a call whose caller timed out, and no caller at all
          NoHandoff,      \* broker.handoff is None
          MaxClaims,      \* bound: claims sent
          MaxTimeouts     \* bound: session calls that outlast their 30 seconds

Callers  == Pool \cup {Loop}
Requests == {"claim", "poll", "release"}

ASSUME ConsoleAssumption ==
  /\ Loop \notin Pool
  /\ Nobody \notin Callers
  /\ NoHandoff \notin [intervention : Ids, operator : Operators, actions : Nat]
  /\ MaxClaims \in Nat
  /\ MaxTimeouts \in Nat

VARIABLES handoff,    \* broker.handoff: whose hold it is, and its gestures
          caller,     \* [Callers -> where the thread is and what it has read]
          inbox,      \* SessionThread._queue
          session,    \* what the session thread is doing
          claims,     \* claims sent so far
          timeouts,   \* session calls given up so far
          overlapped  \* whether a claim and another request were ever in flight together

history == <<claims, timeouts, overlapped>>

vars == <<lease, requests, handoff, caller, inbox, session, history>>

broker == <<lease, requests, handoff>>

Idle == [at |-> "idle", call |-> "none", id |-> CHOOSE i \in Ids : TRUE,
         operator |-> NoOperator, prior |-> "open", before |-> NoOperator]

Rest == [at |-> "rest", for |-> Nobody, work |-> "sweep"]

-----------------------------------------------------------------------------
Init ==
  /\ lease = [NewLease EXCEPT !.holder = "system", !.state = "paused", !.epoch = 2]
  /\ \E i \in Ids :
       requests = [j \in Ids |->
         [state |-> IF j = i THEN "open" ELSE "unopened", operator |-> NoOperator,
          actions |-> 0, delta |-> NotCaptured]]
  /\ handoff = NoHandoff
  /\ caller = [c \in Callers |-> Idle]
  /\ inbox = <<>>
  /\ session = Rest
  /\ claims = 0
  /\ timeouts = 0
  /\ overlapped = FALSE

Goes(c, at) == caller' = [caller EXCEPT ![c].at = at]

Returns(c) == caller' = [caller EXCEPT ![c] = Idle]

InFlight(call) == \E c \in Callers : caller[c].call = call

(* A gesture is waited for on the event loop itself, so nothing else is    *)
(* accepted meanwhile.                                                     *)
Accepts(c, call) ==
  /\ caller[c].at = "idle"
  /\ caller[Loop].at = "idle"
  /\ overlapped' = (overlapped \/ \E other \in Requests :
                      InFlight(other) /\ "claim" \in {call, other})

(* Slip: a sweep already queued is taken to answer this poll too.          *)
SubmitsOnce(c, call, work) ==
  /\ caller' = [caller EXCEPT ![c].at = "waiting", ![c].call = call]
  /\ inbox' = IF \E n \in DOMAIN inbox : inbox[n].work = work
                THEN inbox
                ELSE Append(inbox, [for |-> c, work |-> work])

(* SessionThread.call: queue the work, wait for its result.                *)
Submits(c, call, work) ==
  /\ caller' = [caller EXCEPT ![c].at = "waiting", ![c].call = call]
  /\ inbox' = Append(inbox, [for |-> c, work |-> work])

-----------------------------------------------------------------------------
(* POST /api/claim, on a pool thread from end to end.                      *)
ClaimArrives(c, i, operator) ==
  /\ Accepts(c, "claim")
  /\ claims < MaxClaims
  /\ claims' = claims + 1
  /\ requests[i].state # "unopened"
  /\ caller' = [caller EXCEPT ![c] =
       [at |-> "checking", call |-> "claim", id |-> i, operator |-> operator,
        prior |-> requests[i].state, before |-> requests[i].operator]]
  /\ UNCHANGED <<lease, requests, handoff, inbox, session, timeouts>>

(* queue.claim's check: 409 when someone else has it.                      *)
ClaimChecks(c) ==
  /\ caller[c].at = "checking"
  /\ IF requests[caller[c].id].state \in Claimable
       THEN Goes(c, "marking")
       ELSE Returns(c)
  /\ UNCHANGED <<lease, requests, handoff, inbox, session, history>>

ClaimMarks(c) ==
  /\ caller[c].at = "marking"
  /\ requests' = [requests EXCEPT ![caller[c].id].state = "claimed",
                                  ![caller[c].id].operator = caller[c].operator]
  /\ Goes(c, "asking lease")
  /\ UNCHANGED <<lease, handoff, inbox, session, history>>

LeaseChecks(c) ==
  /\ caller[c].at = "asking lease"
  /\ Goes(c, IF lease.state = "paused" THEN "taking" ELSE "undoing")
  /\ UNCHANGED <<lease, requests, handoff, inbox, session, history>>

(* Nothing is looked at again before the lease is written.                 *)
LeaseTakes(c) ==
  /\ caller[c].at = "taking"
  /\ lease' = Transition([lease EXCEPT !.operator = caller[c].operator,
                                       !.expires = "ahead"],
                         "human", "human_control")
  /\ Goes(c, "recording")
  /\ UNCHANGED <<requests, handoff, inbox, session, history>>

HandoffOpens(c) ==
  /\ caller[c].at = "recording"
  /\ handoff' = [intervention |-> caller[c].id, operator |-> caller[c].operator,
                 actions |-> 0]
  /\ Returns(c)
  /\ UNCHANGED <<lease, requests, inbox, session, history>>

(* The lease refused: what the request was before is put back.             *)
ClaimUndone(c) ==
  /\ caller[c].at = "undoing"
  /\ requests' = [requests EXCEPT ![caller[c].id].state = caller[c].prior,
                                  ![caller[c].id].operator = caller[c].before]
  /\ Returns(c)
  /\ UNCHANGED <<lease, handoff, inbox, session, history>>

-----------------------------------------------------------------------------
(* GET /api/state sweeps; the open page polls it forever.                  *)
PollArrives(c) ==
  /\ Accepts(c, "poll")
  /\ ~InFlight("poll")                    \* bound: one poll at a time
  /\ Submits(c, "poll", "sweep")
  /\ UNCHANGED <<broker, session, claims, timeouts>>

(* Slip: the lease is released on the thread that got the request.         *)
ReleaseHere(c) ==
  /\ Accepts(c, "release")
  /\ LeaseRelease
  /\ caller' = [caller EXCEPT ![c].at = "resuming", ![c].call = "release"]
  /\ UNCHANGED <<requests, handoff, inbox, session, claims, timeouts>>

ReleaseArrives(c) ==
  /\ Accepts(c, "release")
  /\ lease.state = "human_control"        \* else 409
  /\ Submits(c, "release", "release")
  /\ UNCHANGED <<broker, session, claims, timeouts>>

GestureArrives ==
  /\ caller[Loop].at = "idle"
  /\ Submits(Loop, "gesture", "gesture")
  /\ UNCHANGED <<broker, session, history>>

(* result.get gives up.  The work stays queued, its result is for nobody.  *)
TimesOut(c) ==
  /\ caller[c].at = "waiting"
  /\ timeouts < MaxTimeouts
  /\ timeouts' = timeouts + 1
  /\ Returns(c)
  /\ inbox' = [n \in DOMAIN inbox |->
                IF inbox[n].for = c THEN [inbox[n] EXCEPT !.for = Nobody] ELSE inbox[n]]
  /\ session' = IF session.for = c THEN [session EXCEPT !.for = Nobody] ELSE session
  /\ UNCHANGED <<broker, claims, overlapped>>

(* The release endpoint goes on to broker.resume on its own thread.        *)
LeaseResumes(c) ==
  /\ caller[c].at = "resuming"
  /\ IF lease.state = "resuming"
       THEN LeaseResume /\ Goes(c, "resolving")
       ELSE UNCHANGED lease /\ Returns(c)
  /\ UNCHANGED <<requests, handoff, inbox, session, history>>

RequestResolves(c) ==
  /\ caller[c].at = "resolving"
  /\ IF handoff = NoHandoff
       THEN UNCHANGED requests
       ELSE QueueResolve(handoff.intervention)
  /\ Returns(c)
  /\ UNCHANGED <<lease, handoff, inbox, session, history>>

-----------------------------------------------------------------------------
(* The session thread: one piece of work at a time, in order.              *)
Serve ==
  /\ session.at = "rest"
  /\ inbox # <<>>
  /\ session' = [at |-> Head(inbox).work, for |-> Head(inbox).for,
                 work |-> Head(inbox).work]
  /\ inbox' = Tail(inbox)
  /\ UNCHANGED <<broker, caller, history>>

WorkGoesOn(at) == session' = [session EXCEPT !.at = at] /\ UNCHANGED caller

(* Slip: the release endpoint leaves the resume to someone else.           *)
WorkEndsThere(succeeded) ==
  /\ session' = Rest
  /\ IF session.for = Nobody THEN UNCHANGED caller ELSE Returns(session.for)

(* The result, or the exception, reaches whoever still waits for it; only  *)
(* a release that succeeded has more to do.                                *)
WorkEnds(succeeded) ==
  /\ session' = Rest
  /\ IF session.for = Nobody
       THEN UNCHANGED caller
       ELSE IF succeeded /\ session.work = "release"
              THEN Goes(session.for, "resuming")
              ELSE Returns(session.for)

SweepReclaims ==
  /\ session.at = "sweep"
  /\ IF Expired(lease)
       THEN /\ LeaseReclaimExpired
            /\ IF handoff = NoHandoff THEN WorkEnds(TRUE) ELSE WorkGoesOn("abandoning")
       ELSE UNCHANGED lease /\ WorkEnds(TRUE)
  /\ UNCHANGED <<requests, handoff, inbox, history>>

(* Slip: the lapsed request is closed instead of offered again.            *)
SweepResolves ==
  /\ session.at = "abandoning"
  /\ QueueResolve(handoff.intervention)
  /\ WorkGoesOn("forgetting")
  /\ UNCHANGED <<lease, handoff, inbox, history>>

SweepAbandons ==
  /\ session.at = "abandoning"
  /\ QueueAbandon(handoff.intervention)
  /\ WorkGoesOn("forgetting")
  /\ UNCHANGED <<lease, handoff, inbox, history>>

SweepForgets ==
  /\ session.at = "forgetting"
  /\ handoff' = NoHandoff
  /\ WorkEnds(TRUE)
  /\ UNCHANGED <<lease, requests, inbox, history>>

(* The work first observes the screen, which may fail.                     *)
ReleaseFreesLease(observed) ==
  /\ session.at = "release"
  /\ IF observed /\ handoff # NoHandoff /\ lease.state = "human_control"
       THEN LeaseRelease /\ WorkGoesOn("filing")
       ELSE UNCHANGED lease /\ WorkEnds(FALSE)
  /\ UNCHANGED <<requests, handoff, inbox, history>>

ReleaseFiles ==
  /\ session.at = "filing"
  /\ LET claimed == requests[handoff.intervention].state = "claimed"
     IN  /\ IF claimed
              THEN QueueRelease(handoff.intervention, handoff.actions, NotCaptured)
              ELSE UNCHANGED requests
         /\ WorkEnds(claimed)
  /\ UNCHANGED <<lease, handoff, inbox, history>>

(* human_action and confirm_action; only the former wants a handoff, since *)
(* what the WebSocket carries is always raw input.                         *)
GestureAuthorized(confirmed) ==
  /\ session.at = "gesture"
  /\ IF MayAct(lease, "human", lease.epoch) /\ (confirmed \/ handoff # NoHandoff)
       THEN WorkGoesOn("gesturing")
       ELSE WorkEnds(FALSE)
  /\ UNCHANGED <<broker, inbox, history>>

(* bound: one gesture is counted per hold, the rest are not.               *)
GesturePerformed ==
  /\ session.at = "gesturing"
  /\ IF handoff = NoHandoff \/ handoff.actions > 0
       THEN UNCHANGED handoff
       ELSE handoff' = [handoff EXCEPT !.actions = @ + 1]
  /\ WorkEnds(TRUE)
  /\ UNCHANGED <<lease, requests, inbox, history>>

(* A hold of half an hour does not lapse while its claim is answered.      *)
HoldLapses ==
  /\ \A c \in Pool : caller[c].at # "recording"
  /\ Lapse
  /\ UNCHANGED <<requests, handoff, caller, inbox, session, history>>

-----------------------------------------------------------------------------
ClaimHandler(c) ==
  \/ ClaimChecks(c)
  \/ ClaimMarks(c)
  \/ LeaseChecks(c)
  \/ LeaseTakes(c)
  \/ HandoffOpens(c)
  \/ ClaimUndone(c)

ReleaseHandler(c) == LeaseResumes(c) \/ RequestResolves(c)

Session ==
  \/ Serve
  \/ SweepReclaims
  \/ SweepAbandons
  \/ SweepForgets
  \/ \E observed \in BOOLEAN : ReleaseFreesLease(observed)
  \/ ReleaseFiles
  \/ \E confirmed \in BOOLEAN : GestureAuthorized(confirmed)
  \/ GesturePerformed

Next ==
  \/ \E c \in Pool, i \in Ids, operator \in Operators : ClaimArrives(c, i, operator)
  \/ \E c \in Pool : PollArrives(c)
  \/ \E c \in Pool : ReleaseArrives(c)
  \/ GestureArrives
  \/ \E c \in Callers : TimesOut(c)
  \/ \E c \in Pool : ClaimHandler(c)
  \/ \E c \in Pool : ReleaseHandler(c)
  \/ Session
  \/ HoldLapses

Spec == Init /\ [][Next]_vars

(* A thread with work to do runs; arrivals, time-outs and lapses may or    *)
(* may not happen.                                                         *)
Fairness ==
  /\ \A c \in Pool : WF_vars(ClaimHandler(c)) /\ WF_vars(ReleaseHandler(c))
  /\ WF_vars(Session)

FairSpec == Spec /\ Fairness

-----------------------------------------------------------------------------
(* A gesture reaches the application only while a person holds the         *)
(* session, though it was authorised a step earlier: whatever ends a hold  *)
(* is queued behind it (session_thread.py, "serialize here").              *)
GesturesLandWhileHeld ==
  [][session.at = "gesturing" /\ session'.at # "gesturing" => lease.holder = "human"]_vars

(* Every call made to the console is answered, whatever the other threads  *)
(* do meanwhile: no thread waits for one that waits for it.                *)
EveryCallReturns ==
  \A c \in Callers : caller[c].at # "idle" ~> caller[c].at = "idle"

(* Between calls lease, queue and handoff agree, as SessionBroker!OneStory *)
(* has it: what is held is claimed by its holder, ...                      *)
Quiet ==
  /\ \A c \in Callers : caller[c].at = "idle"
  /\ inbox = <<>>
  /\ session.at = "rest"

HeldIsClaimed ==
  Quiet /\ lease.state = "human_control" =>
    \E i \in InState({"claimed"}) : requests[i].operator = lease.operator

(* ... what is paused can be claimed, ...                                  *)
PausedIsClaimable ==
  Quiet /\ lease.state = "paused" => InState(Claimable) # {}

(* ... and what was handed back has gone to automation (server.py's        *)
(* release endpoint resumes).                                              *)
HandedBackGoesOn == Quiet => lease.state # "resuming"

(* They hold as long as no claim overlaps another request and no session   *)
(* call is given up, whatever else interleaves (the console has no lock,   *)
(* but its sweep, release and gestures share one thread).                  *)
Orderly == ~overlapped /\ timeouts = 0

QuietOneStory ==
  Orderly =>
    /\ HeldIsClaimed
    /\ PausedIsClaimable
    /\ HandedBackGoesOn
    /\ Quiet /\ lease.state = "running" => InState(Unresolved) = {}

(* A session handed back runs again (the second half of /api/release).     *)
EveryReturnResumes ==
  lease.state = "resuming" ~> lease.state = "running" \/ ~Orderly

(* Seen through the lease alone, the console's steps are those a           *)
(* supervised session promises, while it is orderly: one taker per wait,   *)
(* one give-back or one lapse per hold, and nothing carries on before a    *)
(* give-back.                                                              *)
Phases ==
  [running |-> "automated", paused |-> "waiting",
   human_control |-> "held", resuming |-> "returned"]

Promise ==
  INSTANCE SupervisedSession WITH
    phase      <- Phases[lease.state],
    asking     <- IF lease.state = "running" THEN {} ELSE InState(RequestStates \ {"unopened"}),
    who        <- IF lease.state = "human_control" THEN {lease.operator} ELSE {},
    generation <- lease.epoch

StepsAsPromised == [][Orderly' => Promise!Next]_(Promise!vars)
=============================================================================
