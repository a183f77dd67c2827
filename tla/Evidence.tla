------------------------------- MODULE Evidence -------------------------------
(***************************************************************************)
(* The trace of a supervised session and what is derived from it           *)
(* (src/src/cua/evidence): every call of the dispatcher and every change   *)
(* of the lease leaves events, one at a time, and a record is read off the *)
(* events whenever somebody asks for one.  A crash leaves the trace as it  *)
(* is in some state here.                                                  *)
(*                                                                         *)
(* The dispatcher, the run, and an operator's gestures have one thread.    *)
(* A claim and a resume have another.  Of the events those are kept that   *)
(* say who did what and by whose leave.                                    *)
(***************************************************************************)
EXTENDS Lease, Sequences, FiniteSets

CONSTANTS Controls,    \* what an action may be aimed at
          NoControl,   \* an action without a target
          MaxRuns,     \* bound: runs begun
          MaxCalls,    \* bound: actions submitted, the operator's and the run's
          MaxEpoch     \* bound: no claim at this epoch or later

ASSUME EvidenceAssumption ==
  /\ NoControl \notin Controls
  /\ MaxRuns \in Nat
  /\ MaxCalls \in Nat
  /\ MaxEpoch \in Nat

VARIABLES trace,     \* trace.jsonl
          surface,   \* what was done to the application, in order
          call,      \* what Dispatcher.execute is doing
          run,       \* the executor: where it is, and its lease_epoch (0 for None)
          claiming,  \* the epoch of a claim whose event is not written yet, or 0
          handoff,   \* whether the broker has a handoff record
          filed,     \* how much of the trace run_record.json tells
          begun      \* runs begun and actions submitted so far

vars == <<lease, trace, surface, call, run, claiming, handoff, filed, begun>>

NoCall == [at |-> "none"]

Init ==
  /\ LeaseInit
  /\ trace = <<>>
  /\ surface = <<>>
  /\ call = NoCall
  /\ run = [at |-> "idle", epoch |-> 0]
  /\ claiming = 0
  /\ handoff = FALSE
  /\ filed = 0
  /\ begun = [runs |-> 0, calls |-> 0]

Emit(event) == trace' = Append(trace, event)

-----------------------------------------------------------------------------
(* The events.                                                             *)
Resolve(control) == [event |-> "resolve", target |-> control]

Authorize(id, granted) == [event |-> "authorize", id |-> id, granted |-> granted]

Dispatch(act) ==
  [event |-> "dispatch", refused |-> FALSE, id |-> act.id, actor |-> act.actor,
   epoch |-> act.epoch]

(* Slip: an attempt on a stale epoch is a dispatch that failed.            *)
RefusalAsFailure(actor, epoch) ==
  Dispatch([id |-> 0, actor |-> actor, epoch |-> epoch])

Refusal(actor, epoch) == [event |-> "dispatch", refused |-> TRUE, actor |-> actor, epoch |-> epoch]

LeaseEvent(transition, epoch) == [event |-> "lease", transition |-> transition, epoch |-> epoch]

Decisions == Cardinality({n \in DOMAIN trace : trace[n].event = "authorize"})

-----------------------------------------------------------------------------
(* build_run_record, unauthorized_dispatches twice.                        *)
Granted(events) ==
  {events[n].id : n \in {m \in DOMAIN events : events[m].event = "authorize" /\ events[m].granted}}

Reached(event) == event.event = "dispatch" /\ ~event.refused

(* EvidenceBus.unauthorized_dispatches.                                    *)
UnauthorizedDispatches(events) ==
  {n \in DOMAIN events : Reached(events[n]) /\ events[n].id \notin Granted(events)}

(* pending_resolve when the record comes to event n: the last resolution   *)
(* since the last dispatch, whatever became of the call that made it.      *)
Pending(events, n) ==
  LET since == {m \in 1 .. (n - 1) :
                 /\ events[m].event = "resolve"
                 /\ \A k \in (m + 1) .. (n - 1) :
                      events[k].event # "resolve" /\ ~Reached(events[k])}
  IN  IF since = {} THEN NoControl ELSE events[CHOOSE m \in since : TRUE].target

(* The dispatches in their order, each a step of the record.               *)
Dispatches(events) == {n \in DOMAIN events : Reached(events[n])}

Place(events, n) == Cardinality({m \in Dispatches(events) : m <= n})

StepOf(events, n) ==
  [actor |-> events[n].actor, epoch |-> events[n].epoch, target |-> Pending(events, n),
   authorized |-> events[n].id \in Granted(events)]

Steps(events) ==
  [k \in 1 .. Cardinality(Dispatches(events)) |->
     StepOf(events, CHOOSE n \in Dispatches(events) : Place(events, n) = k)]

(* RunRecord.unauthorized_dispatches.                                      *)
UnauthorizedSteps(steps) == {n \in DOMAIN steps : ~steps[n].authorized}

-----------------------------------------------------------------------------
(* Dispatcher.execute.  Automation that gets no answer it can go on with   *)
(* ends its run.                                                           *)
Stays(actor, where) == run' = IF actor = "automation" THEN [run EXCEPT !.at = where] ELSE run

Executes(actor, epoch, control) ==
  /\ call = NoCall /\ begun.calls < MaxCalls
  /\ begun' = [begun EXCEPT !.calls = @ + 1]
  /\ IF epoch # lease.epoch
       THEN /\ Emit(Refusal(actor, epoch))
            /\ Stays(actor, "lost")
            /\ UNCHANGED call
       ELSE /\ call' = [at |-> IF control = NoControl THEN "authorize" ELSE "resolve",
                        actor |-> actor, epoch |-> epoch, control |-> control]
            /\ UNCHANGED <<trace, run>>
  /\ UNCHANGED <<lease, surface, claiming, handoff, filed>>

Resolves(found) ==
  /\ call.at = "resolve"
  /\ Emit(Resolve(call.control))
  /\ IF found
       THEN call' = [call EXCEPT !.at = "authorize"] /\ UNCHANGED run
       ELSE call' = NoCall /\ Stays(call.actor, "failing")
  /\ UNCHANGED <<lease, surface, claiming, handoff, filed, begun>>

Authorizes(granted) ==
  /\ call.at = "authorize"
  /\ Emit(Authorize(Decisions + 1, granted))
  /\ IF granted
       THEN call' = [call EXCEPT !.at = "act"] /\ UNCHANGED run
       ELSE call' = NoCall /\ Stays(call.actor, "failing")
  /\ UNCHANGED <<lease, surface, claiming, handoff, filed, begun>>

(* The driver answers whatever happens in it: no act goes unrecorded for   *)
(* an exception.                                                           *)
Acts ==
  /\ call.at = "act"
  /\ surface' = Append(surface, [actor |-> call.actor, epoch |-> call.epoch,
                                 control |-> call.control, id |-> Decisions])
  /\ call' = [call EXCEPT !.at = "record"]
  /\ UNCHANGED <<lease, trace, run, claiming, handoff, filed, begun>>

(* An act that failed, or led off the allowlist, is recorded like another. *)
Records(well) ==
  /\ call.at = "record"
  /\ Emit(Dispatch(surface[Len(surface)]))
  /\ call' = NoCall
  /\ Stays(call.actor, IF well THEN run.at ELSE "failing")
  /\ UNCHANGED <<lease, surface, claiming, handoff, filed, begun>>

-----------------------------------------------------------------------------
(* ReplayExecutor: run, and resume after a handoff.                        *)
Available == lease.holder = "automation" /\ ~Expired(lease)

(* Slip: a run asks only whether its epoch is current.                     *)
BeginsUnasked(epoch) == run' = [at |-> "running", epoch |-> epoch]

Begins(epoch) ==
  run' = [at |-> IF Available THEN "running" ELSE "lost", epoch |-> epoch]

Free ==
  /\ run.at = "idle" /\ call = NoCall /\ begun.runs < MaxRuns
  /\ begun' = [begun EXCEPT !.runs = @ + 1]

(* An executor that has run keeps the epoch it had; a new one adopts the   *)
(* lease's.                                                                *)
RunStarts(new) ==
  /\ Free
  /\ Begins(IF new \/ run.epoch = 0 THEN lease.epoch ELSE run.epoch)
  /\ UNCHANGED <<lease, trace, surface, call, claiming, handoff, filed>>

RunResumes(anchored) ==
  /\ Free
  /\ IF anchored
       THEN Begins(lease.epoch)
       ELSE run' = [at |-> "failing", epoch |-> lease.epoch]
  /\ UNCHANGED <<lease, trace, surface, call, claiming, handoff, filed>>

AutomationCalls(control) == run.at = "running" /\ Executes("automation", run.epoch, control)

RunEnds ==
  /\ run.at \in {"running", "failing", "lost"} /\ call = NoCall
  /\ run' = [run EXCEPT !.at = "ended"]
  /\ UNCHANGED <<lease, trace, surface, call, claiming, handoff, filed, begun>>

(* _fail, where a person is to be asked.                                   *)
Escalates ==
  /\ run.at = "failing"
  /\ LeaseEscalate
  /\ run' = [run EXCEPT !.at = "ended"]
  /\ UNCHANGED <<trace, surface, call, claiming, handoff, filed, begun>>

(* _record.                                                                *)
Files ==
  /\ run.at = "ended"
  /\ filed' = Len(trace)
  /\ run' = [run EXCEPT !.at = "idle"]
  /\ UNCHANGED <<lease, trace, surface, call, claiming, handoff, begun>>

-----------------------------------------------------------------------------
(* The broker.  The console is served when its run is over.                *)
Takes(operator) ==
  /\ lease.epoch < MaxEpoch
  /\ claiming = 0                     \* bound: one claim in flight at a time
  /\ run.at = "idle"
  /\ LeaseClaim(operator, "ahead")
  /\ claiming' = lease.epoch + 1
  /\ UNCHANGED <<trace, surface, call, run, handoff, filed, begun>>

ClaimIsRecorded ==
  /\ claiming # 0
  /\ handoff' = TRUE
  /\ Emit(LeaseEvent("claimed", claiming))
  /\ claiming' = 0
  /\ UNCHANGED <<lease, surface, call, run, filed, begun>>

(* human_action and confirm_action; a raw gesture needs a handoff, an      *)
(* action with a target does not.                                          *)
HumanCalls(control) ==
  /\ run.at = "idle"
  /\ lease.state = "human_control" /\ ~Expired(lease)
  /\ handoff \/ control # NoControl
  /\ Executes("human", lease.epoch, control)

HandsBack ==
  /\ run.at = "idle" /\ call = NoCall
  /\ handoff
  /\ LeaseRelease
  /\ Emit(LeaseEvent("released", lease.epoch + 1))
  /\ UNCHANGED <<surface, call, run, claiming, handoff, filed, begun>>

Sweeps ==
  /\ run.at = "idle" /\ call = NoCall
  /\ LeaseReclaimExpired
  /\ handoff' = FALSE
  /\ Emit(LeaseEvent("hold expired", lease.epoch + 1))
  /\ UNCHANGED <<surface, call, run, claiming, filed, begun>>

Resumes ==
  /\ LeaseResume
  /\ Emit(LeaseEvent("resumed", lease.epoch + 1))
  /\ UNCHANGED <<surface, call, run, claiming, handoff, filed, begun>>

TimePasses == Lapse /\ UNCHANGED <<trace, surface, call, run, claiming, handoff, filed, begun>>

Next ==
  \/ \E new \in BOOLEAN : RunStarts(new)
  \/ \E anchored \in BOOLEAN : RunResumes(anchored)
  \/ RunEnds \/ Escalates \/ Files
  \/ \E control \in Controls \cup {NoControl} : AutomationCalls(control) \/ HumanCalls(control)
  \/ \E yes \in BOOLEAN : Resolves(yes) \/ Authorizes(yes) \/ Records(yes)
  \/ \E operator \in Operators : Takes(operator)
  \/ Acts
  \/ ClaimIsRecorded
  \/ HandsBack \/ Sweeps \/ Resumes \/ TimePasses

Spec == Init /\ [][Next]_vars

-----------------------------------------------------------------------------
Record == Steps(trace)

(* Whenever the process dies, what was done to the application was         *)
(* authorized by a decision that is on disk, and the two reconciliations   *)
(* agree that nothing got past policy: a refusal is not the violation it   *)
(* prevented (bus.py, run_record.py: "Must always be empty").              *)
NothingPastPolicy ==
  /\ \A n \in DOMAIN surface : surface[n].id \in Granted(trace)
  /\ UnauthorizedDispatches(trace) = {}
  /\ UnauthorizedSteps(Record) = {}

Claimed ==
  {trace[n].epoch : n \in {m \in DOMAIN trace : trace[m].event = "lease"
                                                 /\ trace[m].transition = "claimed"}}

(* "Every action says who did it and under which grant of control"         *)
(* (run_record.py): the record lists what was done, in its order, with the *)
(* control it was done to, and lacks at most the act in flight; a person's *)
(* acts, and never automation's, are under an epoch the trace tells of a   *)
(* claim of; and what is filed when a run is over tells, in its place, of  *)
(* everything automation did.                                              *)
Tells(step, act) ==
  /\ step.actor = act.actor /\ step.epoch = act.epoch
  /\ act.control # NoControl => step.target = act.control

ByPeople == Claimed \cup {claiming}

TakeoverIsAuditable ==
  LET missing == IF call.at = "record" THEN 1 ELSE 0
      told == Steps(SubSeq(trace, 1, filed))
  IN  /\ Len(Record) = Len(surface) - missing
      /\ \A n \in DOMAIN Record :
           /\ Tells(Record[n], surface[n])
           /\ Record[n].actor = IF Record[n].epoch \in ByPeople THEN "human" ELSE "automation"
      /\ run.at = "idle" =>
           \A n \in DOMAIN Record : Record[n].actor = "automation" =>
             n \in DOMAIN told /\ Tells(told[n], surface[n])
=============================================================================
