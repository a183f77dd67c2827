----------------------------- MODULE Dispatcher -----------------------------
(***************************************************************************)
(* One call of the dispatcher after another on a live page                 *)
(* (Dispatcher.execute in src/src/cua/runtime/dispatcher.py, with          *)
(* PolicyEngine.authorize and the driver's dispatch): the caller observes, *)
(* the target is resolved and policy decides on what it is called, the     *)
(* driver acts on what is there now, and where that led is judged.  The    *)
(* page may change between any two of these.                               *)
(*                                                                         *)
(* Automation clicks a control (or types into it, or selects), presses a   *)
(* key or navigates; an operator's gestures are a click at a point and a   *)
(* key, or text, which goes where a key does.  The check of the lease      *)
(* epoch is ReplayExecutor's and the broker's; which node a target         *)
(* resolves to is Targeting's.                                             *)
(***************************************************************************)
EXTENDS Browser

CONSTANTS Narrowed,   \* the capability's allowed_domains; none narrows nothing
          NoCall, NoGesture,
          MaxCalls    \* bound: calls

VARIABLES call,       \* the call in flight or answered last
          stage,      \* of that call
          seen,       \* the content its caller observed
          still,      \* history: the page has not changed since
          acted,      \* history: what the call reached
          status,     \* the DispatchStatus of the last call
          asked,      \* the gesture a confirmation was asked for
          calls

dispatcherVars == <<browserVars, call, stage, seen, still, acted, status, asked, calls>>

Stages   == {"idle", "observed", "authorized", "dispatched"}
Statuses == {"none", "ok", "unresolved", "denied", "needs_confirmation", "failed"}

(* A run without a capability declares nothing and has nothing approved.   *)
Mandates == [capability : {TRUE}, declared : Tiers, granted : BOOLEAN] \cup
            {[capability |-> FALSE, declared |-> NoRisk, granted |-> FALSE]}

NoMandate == [capability |-> FALSE, declared |-> NoRisk, granted |-> FALSE]

AutomationCalls ==
  [actor : {"AUTOMATION"}, kind : {"click"}, control : Controls, host : {NoHost},
   mandate : Mandates, confirmed : {FALSE}] \cup
  [actor : {"AUTOMATION"}, kind : {"key"}, control : {NoControl}, host : {NoHost},
   mandate : Mandates, confirmed : {FALSE}] \cup
  [actor : {"AUTOMATION"}, kind : {"navigate"}, control : {NoControl}, host : Hosts,
   mandate : Mandates, confirmed : {FALSE}]

Gestures == [actor : {"HUMAN"}, kind : {"click", "key"}, control : {NoControl},
             host : {NoHost}, mandate : {NoMandate}, confirmed : BOOLEAN]

Calls == AutomationCalls \cup Gestures

Asked == [kind : {"click", "key"}, control : Controls \cup {NoControl}]

ASSUME DispatcherAssumption ==
  /\ Narrowed \subseteq Hosts
  /\ NoCall \notin Calls /\ NoGesture \notin Asked
  /\ MaxCalls \in Nat

DispatcherInit ==
  /\ BrowserInit
  /\ call = NoCall /\ stage = "idle" /\ calls = 0
  /\ seen = page.content /\ still = TRUE
  /\ acted = [control |-> NoControl, tier |-> "safe", still |-> FALSE, reached |-> FALSE]
  /\ status = "none"
  /\ asked = NoGesture

-----------------------------------------------------------------------------
(* Resolution and policy.                                                  *)

(* AllowlistCheck: a capability narrows the allowlist, never widens it.    *)
Within(c) ==
  IF c.mandate.capability /\ Narrowed # {} THEN Allowed \cap Narrowed ELSE Allowed

(* Slip: a gesture carries no target, so there is nothing to classify.     *)
HitNothing(c) == IF c.actor = "AUTOMATION" THEN c.control ELSE NoControl

(* The control the call is about: the one a target resolves to; under a    *)
(* click, by its place now, of those observed; at a key, the focused one.  *)
Hit(c) ==
  CASE c.actor = "AUTOMATION" -> c.control
    [] c.actor = "HUMAN" /\ c.kind = "click" ->
         IF page.content.under # NoControl /\ seen.labels[page.content.under] # Gone
           THEN page.content.under ELSE NoControl
    [] c.actor = "HUMAN" /\ c.kind = "key" -> seen.focus

(* What its name suggested when it was observed.                           *)
Suggested(control) == IF control = NoControl THEN "safe" ELSE seen.labels[control]

Resolves(c) == c.control # NoControl => seen.labels[c.control] # Gone

(* raw_input is of the elevated tier by its type, which a person may do.   *)
NeedsConfirmation(c) ==
  /\ c.actor = "HUMAN"
  /\ Highest({"elevated", Suggested(Hit(c))}) = "irreversible"
  /\ ~c.confirmed

Denied(c) ==
  /\ c.actor = "AUTOMATION"
  /\ \/ c.kind = "navigate" /\ c.host \notin Within(c)
     \/ ~Allows(Request(FALSE, Suggested(Hit(c)), c.mandate.declared, NoRisk), c.mandate.granted)

Permitted(c) == Resolves(c) /\ ~NeedsConfirmation(c) /\ ~Denied(c)

-----------------------------------------------------------------------------
(* The call.                                                               *)

(* The console confirms the gesture it was asked to, as it was sent.       *)
Observe(c) ==
  /\ stage = "idle"
  /\ calls < MaxCalls
  /\ c.confirmed => asked # NoGesture /\ asked.kind = c.kind
  /\ call' = c
  /\ stage' = "observed"
  /\ seen' = page.content
  /\ still' = TRUE
  /\ status' = "none"
  /\ asked' = IF c.confirmed THEN asked ELSE NoGesture
  /\ calls' = calls + 1
  /\ UNCHANGED <<browserVars, acted>>

Answers(outcome) ==
  /\ stage' = "idle"
  /\ status' = outcome

NotResolved ==
  /\ stage = "observed"
  /\ ~Resolves(call)
  /\ Answers("unresolved")
  /\ UNCHANGED <<browserVars, call, seen, still, acted, asked, calls>>

PolicyAsks ==
  /\ stage = "observed"
  /\ Resolves(call)
  /\ NeedsConfirmation(call)
  /\ Answers("needs_confirmation")
  /\ asked' = [kind |-> call.kind, control |-> Hit(call)]
  /\ UNCHANGED <<browserVars, call, seen, still, acted, calls>>

PolicyDenies ==
  /\ stage = "observed"
  /\ Resolves(call)
  /\ Denied(call)
  /\ Answers("denied")
  /\ UNCHANGED <<browserVars, call, seen, still, acted, asked, calls>>

Authorized ==
  /\ stage = "observed"
  /\ Permitted(call)
  /\ stage' = "authorized"
  /\ UNCHANGED <<browserVars, call, seen, still, acted, status, asked, calls>>

(* What the driver's input goes to, on the page as it is now.              *)
Reached ==
  CASE call.kind = "navigate" -> NoControl
    [] call.kind = "click" /\ call.actor = "AUTOMATION" ->
         IF page.content.labels[call.control] # Gone THEN call.control ELSE NoControl
    [] call.kind = "click" /\ call.actor = "HUMAN" -> page.content.under
    [] call.kind = "key" -> page.content.focus

(* Slip: both lists start afresh with the dispatch.                        *)
StartsAfresh ==
  /\ landed' = {}
  /\ refused' = {}

(* Refusals are drained later, not cleared: one may be of a navigation the *)
(* page started after an earlier call had returned.                        *)
Starts ==
  /\ landed' = {}
  /\ UNCHANGED refused

Dispatch ==
  /\ stage = "authorized"
  /\ stage' = "dispatched"
  /\ Starts
  /\ acted' = [control |-> Reached,
               tier |-> IF Reached = NoControl THEN "safe" ELSE page.content.labels[Reached],
               still |-> still,
               reached |-> call.control # NoControl => Reached # NoControl]
  /\ \/ call.kind = "navigate" /\ loading' = To(call.host)
     \/ call.kind # "navigate" /\ UNCHANGED loading
     \/ Reached # NoControl /\ \E host \in Hosts : loading' = To(host)
  /\ UNCHANGED <<page, changes, call, seen, still, status, asked, calls>>

(* Slip: only what was refused is judged.                                  *)
DestinationsRefused(ok) == refused

Destinations(ok) == refused \cup IF ok THEN landed ELSE {}

(* goto returns when its page has loaded, a click when it has been made;   *)
(* either may fail.  The wait for a navigation being vetted is bounded,    *)
(* and over as soon as none is: one that is vetted or commits later is not *)
(* in this report.                                                         *)
Report(ok) ==
  /\ stage = "dispatched"
  /\ ok => acted.reached
  /\ ok /\ call.kind = "navigate" => landed # {}
  /\ Answers(IF ~(Destinations(ok) \subseteq Within(call)) THEN "denied"
             ELSE IF ok THEN "ok" ELSE "failed")
  /\ refused' = {}
  /\ UNCHANGED <<page, loading, landed, changes, call, seen, still, acted, asked, calls>>

Execute ==
  \/ NotResolved
  \/ PolicyAsks
  \/ PolicyDenies
  \/ Authorized
  \/ Dispatch
  \/ \E ok \in BOOLEAN : Report(ok)

Loads ==
  \/ Routes /\ UNCHANGED still
  \/ \E content \in Views : Commits(content) /\ still' = FALSE

PageMoves ==
  \/ \E content \in Views : PageChanges(content) /\ still' = FALSE
  \/ \E host \in Hosts : PageNavigates(host) /\ UNCHANGED still

DispatcherNext ==
  \/ \E c \in Calls : Observe(c)
  \/ Execute
  \/ (Loads \/ PageMoves) /\ UNCHANGED <<call, stage, seen, acted, status, asked, calls>>

DispatcherSpec == DispatcherInit /\ [][DispatcherNext]_dispatcherVars

-----------------------------------------------------------------------------
(* The shape of the state.                                                 *)
TypeOK ==
  /\ page \in [host : Hosts, content : Content]
  /\ loading \in Loading
  /\ landed \subseteq Hosts /\ refused \subseteq Hosts
  /\ changes \in 0 .. MaxChanges /\ calls \in 0 .. MaxCalls
  /\ call \in Calls \cup {NoCall}
  /\ stage \in Stages /\ (stage # "idle" => call # NoCall)
  /\ seen \in Content /\ still \in BOOLEAN
  /\ acted \in [control : Controls \cup {NoControl}, tier : Tiers \cup {Gone},
                still : BOOLEAN, reached : BOOLEAN]
  /\ status \in Statuses
  /\ asked \in Asked \cup {NoGesture}

(* The session is never on a host off the deployment's allowlist, whoever  *)
(* navigates, through whatever redirects (the guard in _route).            *)
NeverOffList == page.host \in Allowed

(* As long as the page stays as it was observed, what is called            *)
(* irreversible is only set off by an operator who confirmed it, or by a   *)
(* run whose step declares it and whose capability is approved; but for a  *)
(* key automation presses without a target, which goes to what has the     *)
(* focus and is classified as if it went nowhere.                          *)
IrreversibleIsAnswered ==
  /\ stage = "dispatched" /\ acted.still /\ acted.tier = "irreversible"
  /\ call.actor = "AUTOMATION" => call.control # NoControl
  => IF call.actor = "HUMAN" THEN call.confirmed
     ELSE call.mandate.declared = "irreversible" /\ call.mandate.granted

(* No refused navigation is forgotten: those off the allowlist leave the   *)
(* list only with a call that is answered "denied" for it.                 *)
RefusalIsReported ==
  [][~(refused \subseteq refused') /\ ~(refused \subseteq Allowed) => status' = "denied"]_dispatcherVars

(* A navigation answered "ok" has arrived within the capability's domains, *)
(* also when redirects within the allowlist led it there.                  *)
ArrivesWithinDomains ==
  [][stage = "dispatched" /\ stage' = "idle" /\ call.kind = "navigate" /\ status' = "ok"
       => page.host \in Within(call)]_dispatcherVars
=============================================================================
