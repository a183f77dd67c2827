-------------------------- MODULE ChokepointProofs --------------------------
(***************************************************************************)
(* What the chokepoint promises, for every set of contents, plans and      *)
(* remedies, whatever happens to the files, and whatever the page does     *)
(* between the steps of a call.                                            *)
(*                                                                         *)
(* First what the classification of risk and policy's answer amount to.    *)
(* Then the approval (ApprovedReplay): the decision a run holds names the  *)
(* content it was taken about, and the capability it runs is that content  *)
(* or the product of its binding.  Last the page (Dispatcher): what was    *)
(* vetted is on the list, and what was decided holds while the page stays  *)
(* as it was.                                                              *)
(***************************************************************************)
EXTENDS ApprovedReplay, Dispatcher, TLAPS

(* The highest of a set of tiers is in it, and none of it is higher.       *)
LEMMA HighestIsHighest ==
  ASSUME NEW tiers \in SUBSET Tiers, tiers # {}
  PROVE  /\ Highest(tiers) \in tiers
         /\ \A tier \in tiers : Rank(tier) <= Rank(Highest(tiers))
<1>1. \E t \in tiers : \A u \in tiers : Rank(u) <= Rank(t)
  <2>1. CASE "irreversible" \in tiers
    BY <2>1 DEF Tiers, Rank
  <2>2. CASE "irreversible" \notin tiers /\ "elevated" \in tiers
    BY <2>2 DEF Tiers, Rank
  <2>3. CASE "irreversible" \notin tiers /\ "elevated" \notin tiers
    BY <2>3 DEF Tiers, Rank
  <2> QED
    BY <2>1, <2>2, <2>3
<1> QED
  BY <1>1 DEF Highest

(* One irreversible signal makes the action irreversible.                  *)
LEMMA OneSignalIsEnough ==
  ASSUME NEW request \in Requests, ~request.reads,
         "irreversible" \in {request.control, Declared(request)}
  PROVE  Classify(request) = "irreversible"
<1> DEFINE signals == {"safe", request.control, Declared(request)} \ {NoRisk}
<1>1. signals \in SUBSET Tiers /\ "irreversible" \in signals
  BY NoRiskAssumption DEF Requests, Declared, Tiers
<1>2. Highest(signals) \in Tiers /\ Rank("irreversible") <= Rank(Highest(signals))
  BY <1>1, HighestIsHighest
<1>3. Highest(signals) = "irreversible"
  BY <1>2 DEF Tiers, Rank
<1> QED
  BY <1>3 DEF Classify

(* Policy lets an irreversible action through only for a request declared  *)
(* so, under a grant.                                                      *)
LEMMA IrreversibleNeedsGrant ==
  ASSUME NEW request \in Requests, ~request.reads, NEW granted \in BOOLEAN,
         "irreversible" \in {request.control, Declared(request)},
         Allows(request, granted)
  PROVE  Declared(request) = "irreversible" /\ granted
BY OneSignalIsEnough DEF Allows

-----------------------------------------------------------------------------
(* A decision that approves names what was signed.                         *)
Names(decision, content) ==
  decision.state = "approved" =>
    content \in Contents /\ decision.hash = [base |-> content, by |-> "none"]

(* A run under way carries the artifact it read, bound, and a decision.    *)
Carries ==
  /\ run \in Runs
  /\ run.base \in Artifacts
  /\ run.capability = Bind(run.binding, run.base)
  /\ Names(run.approval, run.signed)

Signed ==
  /\ file \in Artifacts
  /\ record \in Records
  /\ signed \in Contents \cup {NoContent}
  /\ Names(record, signed)
  /\ run.phase # "idle" => Carries
  /\ last # Nothing => run.phase = "running"

-----------------------------------------------------------------------------
(* A bound document has the base of the artifact it was bound from.        *)
LEMMA BindingKeepsBase ==
  ASSUME NEW binding \in Bindings, NEW document \in Artifacts
  PROVE  /\ Apply(binding, document) \in Document
         /\ Bind(binding, document) \in Document
         /\ Apply(binding, document).hash.base = document.content.base
         /\ Bind(binding, document).content.base = document.content.base
         /\ binding = "substituted" => Bind(binding, document).content.by # "overridden"
BY DEF Apply, Bind, Seal, Artifacts, Document, Bound, Bindings

(* A capability a run's grant accepts is the content that was signed, or   *)
(* what a substitution made of it.                                         *)
LEMMA GrantedWasSigned ==
  ASSUME Carries, Granted(run.capability)
  PROVE  /\ run.optIn
         /\ run.signed = run.capability.content.base
         /\ run.capability.content.by # "overridden"
<1>1. run.optIn /\ IsApproved(run.capability, run.approval, run.base, run.binding)
  BY DEF Granted
<1>2. run.capability \in Document /\ run.binding \in Bindings /\ run.base \in Artifacts
  BY DEF Carries, Runs
<1>3. CASE HashIsValid(run.capability) /\ Permits(run.approval, run.capability.hash)
  <2>1. run.capability.content = [base |-> run.signed, by |-> "none"]
    BY <1>3 DEF HashIsValid, Permits, Carries, Names
  <2> QED
    BY <1>1, <2>1
<1>4. CASE /\ run.binding = "substituted"
           /\ Verifies(run.base, run.binding, run.capability)
           /\ Permits(run.approval, run.base.hash)
  <2>1. run.base.content = [base |-> run.signed, by |-> "none"]
    BY <1>4 DEF Verifies, HashIsValid, Permits, Carries, Names
  <2>2. run.capability.content.base = run.base.content.base
    BY <1>2, BindingKeepsBase DEF Carries
  <2>3. run.capability.content.by # "overridden"
    BY <1>2, <1>4, BindingKeepsBase DEF Carries
  <2> QED
    BY <1>1, <2>1, <2>2, <2>3
<1> QED
  BY <1>1, <1>3, <1>4 DEF IsApproved

(* No grant reaches the capability of a remedy.                            *)
LEMMA RemediesAreNotGranted ==
  ASSUME Carries
  PROVE  ~Granted(RemedyDocument)
<1> SUFFICES ASSUME IsApproved(RemedyDocument, run.approval, run.base, run.binding)
             PROVE  FALSE
  BY DEF Granted
<1>1. RemedyDocument.content.base = NoContent /\ RemedyDocument.hash = RemedyDocument.content
  BY DEF RemedyDocument, Seal
<1>2. run.binding \in Bindings /\ run.base \in Artifacts /\ run.base.content.base \in Contents
  BY DEF Carries, Runs, Artifacts, Document, Bound
<1>3. CASE Permits(run.approval, RemedyDocument.hash)
  BY <1>1, <1>3, ContentsAssumption DEF Permits, Carries, Names
<1>4. CASE Verifies(run.base, run.binding, RemedyDocument)
  <2>1. Apply(run.binding, run.base).hash.base = NoContent
    BY <1>1, <1>4 DEF Verifies
  <2> QED
    BY <1>2, <2>1, BindingKeepsBase, ContentsAssumption
<1> QED
  BY <1>3, <1>4 DEF IsApproved

-----------------------------------------------------------------------------
(* Every step of the specification keeps the decision and the capability   *)
(* of a run together.                                                      *)
LEMMA NextSigned ==
  ASSUME Signed, [Next]_vars
  PROVE  Signed'
<1> USE DEF Signed
<1>1. ASSUME NEW document \in Artifacts, Edit(document)
      PROVE  Signed'
  BY <1>1 DEF Edit, Carries
<1>2. CASE Approve
  <2>1. file.hash = [base |-> file.content.base, by |-> "none"] /\ file.content.base \in Contents
    BY <1>2 DEF Approve, Approvable, HashIsValid, Artifacts, Document, Bound
  <2>2. record' \in Records /\ Names(record', signed')
    BY <1>2, <2>1 DEF Approve, Approvable, Records, Artifacts, Document, Names
  <2> QED
    BY <1>2, <2>1, <2>2 DEF Approve, Carries
<1>3. CASE Revoke
  <2>1. record' \in Records /\ Names(record', signed')
    BY <1>3 DEF Revoke, Records, Artifacts, Document, Names
  <2> QED
    BY <1>3, <2>1 DEF Revoke, Carries
<1>4. ASSUME NEW binding \in Bindings, NEW optIn \in BOOLEAN, Load(binding, optIn)
      PROVE  Signed'
  <2>1. last = Nothing
    BY <1>4 DEF Load
  <2>2. CASE file.hash # Unsealed /\ ~HashIsValid(file)
    BY <1>4, <2>1, <2>2 DEF Load, NoRun
  <2>3. CASE ~(file.hash # Unsealed /\ ~HashIsValid(file))
    <3>1. file \in Document /\ Bind(binding, file) \in Document
      BY BindingKeepsBase DEF Artifacts
    <3>2. NoRecord \in Records /\ Names(NoRecord, NoContent)
      BY DEF NoRecord, Records, Names
    <3>3. Carries'
      BY <1>4, <2>3, <3>1, <3>2 DEF Load, Carries, Runs
    <3> QED
      BY <1>4, <2>1, <3>3 DEF Load
  <2> QED
    BY <2>2, <2>3
<1>5. CASE LoadApproval
  <2>1. Carries /\ last = Nothing
    BY <1>5 DEF LoadApproval
  <2>2. Carries'
    BY <1>5, <2>1 DEF LoadApproval, Carries, Runs
  <2> QED
    BY <1>5, <2>1, <2>2 DEF LoadApproval
<1>6. ASSUME NEW reason, Ends(reason)
      PROVE  Signed'
  BY <1>6 DEF Ends, NoRun
<1>7. CASE Begin
  <2>1. Carries
    BY <1>7 DEF Begin
  <2>2. CASE GateOpen(Steps, run.capability)
    <3>1. Carries'
      BY <1>7, <2>1, <2>2 DEF Begin, Carries, Runs
    <3> QED
      BY <1>7, <2>2, <3>1 DEF Begin
  <2>3. CASE ~GateOpen(Steps, run.capability)
    BY <1>6, <1>7, <2>3 DEF Begin
  <2> QED
    BY <2>2, <2>3
<1>8. ASSUME NEW control \in Tiers, PerformStep(control)
      PROVE  Signed'
  <2>1. Carries
    BY <1>8 DEF PerformStep
  <2>2. Carries' /\ run'.phase = "running"
    BY <1>8, <2>1 DEF PerformStep, Carries, Runs
  <2> QED
    BY <1>8, <2>2 DEF PerformStep
<1>9. ASSUME NEW control \in Tiers, DenyStep(control)
      PROVE  Signed'
  BY <1>6, <1>9 DEF DenyStep
<1>10. CASE UNCHANGED <<file, record, signed, run>> /\ run.phase = "running"
  BY <1>10 DEF Carries
<1>11. CASE UNCHANGED vars
  BY <1>11 DEF vars, Carries
<1>12. CASE Stop
  BY <1>6, <1>12 DEF Stop
<1> QED
  BY <1>1, <1>2, <1>3, <1>4, <1>5, <1>7, <1>8, <1>9, <1>10, <1>11, <1>12
  DEF Next, PerformRemedy, PerformRemedyStep, PerformChosen

(* Nothing irreversible happens that was not reviewed.                     *)
LEMMA NextReviewed ==
  ASSUME Signed, IrreversibleWasReviewed, [Next]_vars
  PROVE  IrreversibleWasReviewed'
<1> DEFINE Dangerous(request) ==
      ~request.reads /\ "irreversible" \in {request.control, request.declared}
<1>1. CASE last' = Nothing
  BY <1>1 DEF IrreversibleWasReviewed, Acted
<1>2. CASE last' = last /\ run' = run
  BY <1>2 DEF IrreversibleWasReviewed, Acted, Reviewed
<1>3. CASE last' = last /\ run.phase # "running"
  <2>1. last' = Nothing
    BY <1>3 DEF Signed
  <2> QED
    BY <2>1 DEF IrreversibleWasReviewed, Acted
<1>4. ASSUME NEW control \in Tiers, PerformStep(control)
      PROVE  IrreversibleWasReviewed'
  <2> DEFINE request == On(Steps[run.index], control)
  <2>1. Carries
    BY <1>4 DEF PerformStep, Signed
  <2>2. run.capability.content.base \in Contents
    BY <2>1, BindingKeepsBase DEF Carries, Runs, Artifacts, Document, Bound
  <2>3. Steps[run.index] \in StepRequests
    BY <1>4, <2>1, <2>2, ContentsAssumption DEF PerformStep, Steps, Carries, Runs
  <2>4. request \in Requests /\ Declared(request) = request.declared
    BY <2>3 DEF On, StepRequests, Requests, Declared
  <2>5. last'.by = "step" /\ last'.request = request /\ run'.optIn = run.optIn
        /\ run'.signed = run.signed /\ run'.capability = run.capability
    BY <1>4, <2>1 DEF PerformStep, Performed, Carries, Runs
  <2>6. ASSUME Dangerous(request)
        PROVE  Reviewed'
    <3>1. Granted(run.capability) \in BOOLEAN
      BY <2>1 DEF Granted, IsApproved, Carries, Runs
    <3>2. request.declared = "irreversible" /\ Granted(run.capability)
      BY <1>4, <2>4, <2>6, <3>1, IrreversibleNeedsGrant DEF PerformStep, StepAllowed
    <3> QED
      BY <2>1, <2>5, <3>2, GrantedWasSigned DEF Reviewed
  <2> QED
    BY <2>5, <2>6 DEF IrreversibleWasReviewed, Acted
<1>5. ASSUME NEW by, NEW request \in Requests, Allows(request, FALSE),
             request.declared \in {NoRisk, Declared(request)},
             last' = [by |-> by, request |-> request]
      PROVE  IrreversibleWasReviewed'
  <2>1. ~Dangerous(request)
    BY <1>5, NoRiskAssumption, IrreversibleNeedsGrant DEF Tiers
  <2> QED
    BY <1>5, <2>1 DEF IrreversibleWasReviewed, Acted
<1>6. ASSUME NEW control \in Tiers, NEW annotation \in Tiers \cup {NoRisk},
             PerformRemedy(control, annotation)
      PROVE  IrreversibleWasReviewed'
  BY <1>5, <1>6 DEF PerformRemedy, Performed, Request, Requests
<1>7. ASSUME NEW remedy \in Remedies, NEW i \in DOMAIN remedy, NEW control \in Tiers,
             PerformRemedyStep(remedy, i, control)
      PROVE  IrreversibleWasReviewed'
  <2>1. ~Granted(RemedyDocument)
    BY <1>7, RemediesAreNotGranted DEF PerformRemedyStep, Signed
  <2>2. remedy[i] \in StepRequests
    BY ContentsAssumption
  <2>3. On(remedy[i], control) \in Requests
        /\ Declared(On(remedy[i], control)) = On(remedy[i], control).declared
    BY <2>2 DEF On, StepRequests, Requests, Declared
  <2>4. Allows(On(remedy[i], control), FALSE)
    BY <1>7, <2>1 DEF PerformRemedyStep, Allows
  <2> QED
    BY <1>5, <1>7, <2>3, <2>4 DEF PerformRemedyStep, Performed
<1>8. ASSUME NEW control \in Tiers, PerformChosen(control)
      PROVE  IrreversibleWasReviewed'
  BY <1>5, <1>8 DEF PerformChosen, Performed, Request, Requests
<1> QED
  <2>1. CASE \/ \E document \in Artifacts : Edit(document)
             \/ Approve \/ Revoke \/ UNCHANGED vars
    BY <1>2, <2>1 DEF Edit, Approve, Revoke, vars
  <2>2. CASE \/ \E binding \in Bindings, optIn \in BOOLEAN : Load(binding, optIn)
             \/ LoadApproval
    BY <1>3, <2>2 DEF Load, LoadApproval
  <2>3. CASE Begin
    BY <1>1, <1>3, <2>3 DEF Begin, Ends
  <2>4. CASE Stop \/ \E control \in Tiers : DenyStep(control)
    BY <1>1, <2>4 DEF Stop, DenyStep, Ends
  <2> QED
    BY <1>4, <1>6, <1>7, <1>8, <2>1, <2>2, <2>3, <2>4 DEF Next

(* No run does anything irreversible unattended that a person had not      *)
(* signed when it began (IrreversibleGrant, PolicyEngine.authorize).       *)
THEOREM NothingIrreversibleUnreviewed == Spec => []IrreversibleWasReviewed
<1>1. Init => Signed /\ IrreversibleWasReviewed
  BY DEF Init, Signed, Names, NoRecord, Records, NoRun, IrreversibleWasReviewed, Acted, Artifacts
<1>2. Signed /\ IrreversibleWasReviewed /\ [Next]_vars => (Signed /\ IrreversibleWasReviewed)'
  BY NextSigned, NextReviewed
<1> QED
  BY <1>1, <1>2, PTL DEF Spec

-----------------------------------------------------------------------------
(* What policy allows is no riskier than what was declared.                *)
LEMMA AllowedWasDeclared ==
  ASSUME NEW request \in Requests, ~request.reads, NEW granted,
         Allows(request, granted)
  PROVE  \/ request.control = "safe"
         \/ Declared(request) # NoRisk /\ Rank(request.control) <= Rank(Declared(request))
<1> DEFINE signals == {"safe", request.control, Declared(request)} \ {NoRisk}
<1>1. signals \in SUBSET Tiers /\ request.control \in signals
  BY NoRiskAssumption DEF Requests, Declared, Tiers
<1>2. Highest(signals) \in Tiers /\ Rank(request.control) <= Rank(Highest(signals))
  BY <1>1, HighestIsHighest
<1>3. Classify(request) = Highest(signals)
  BY DEF Classify
<1>4. CASE Highest(signals) = "safe"
  BY <1>1, <1>2, <1>4 DEF Tiers, Rank
<1>5. CASE Highest(signals) # "safe"
  <2>1. Declared(request) = Highest(signals)
    BY <1>2, <1>3, <1>5 DEF Allows, Tiers
  <2> QED
    BY <1>2, <2>1, NoRiskAssumption
<1> QED
  BY <1>4, <1>5

(* Whoever proposes it, automation's action is no riskier than the         *)
(* artifact said (PolicyEngine.authorize).                                 *)
THEOREM NothingSurprises == Spec => []NoSurprises
<1>1. Init => NoSurprises
  BY DEF Init, NoSurprises, Acted
<1>2. Signed /\ NoSurprises /\ [Next]_vars => NoSurprises'
  <2> SUFFICES ASSUME Signed, NoSurprises, [Next]_vars
               PROVE  NoSurprises'
    OBVIOUS
  <2>1. CASE last' = last \/ last' = Nothing
    BY <2>1 DEF NoSurprises, Acted
  <2>2. ASSUME NEW by, NEW request \in Requests, NEW granted, Allows(request, granted),
               last' = [by |-> by, request |-> request]
        PROVE  NoSurprises'
    BY <2>2, AllowedWasDeclared DEF NoSurprises, Acted
  <2>3. ASSUME NEW control \in Tiers, PerformStep(control)
        PROVE  NoSurprises'
    <3>1. Steps[run.index] \in StepRequests
      <4>1. Carries
        BY <2>3 DEF PerformStep, Signed
      <4>2. run.capability.content.base \in Contents
        BY <4>1, BindingKeepsBase DEF Carries, Runs, Artifacts, Document, Bound
      <4> QED
        BY <2>3, <4>1, <4>2, ContentsAssumption DEF PerformStep, Steps, Carries, Runs
    <3>2. On(Steps[run.index], control) \in Requests
      BY <3>1 DEF On, StepRequests, Requests
    <3> QED
      BY <2>2, <2>3, <3>2 DEF PerformStep, StepAllowed, Performed
  <2>4. ASSUME NEW control \in Tiers, NEW annotation \in Tiers \cup {NoRisk},
               PerformRemedy(control, annotation)
        PROVE  NoSurprises'
    BY <2>2, <2>4 DEF PerformRemedy, Performed, Request, Requests
  <2>5. ASSUME NEW remedy \in Remedies, NEW i \in DOMAIN remedy, NEW control \in Tiers,
               PerformRemedyStep(remedy, i, control)
        PROVE  NoSurprises'
    <3>1. remedy[i] \in StepRequests
      BY ContentsAssumption
    <3>2. On(remedy[i], control) \in Requests
      BY <3>1 DEF On, StepRequests, Requests
    <3> QED
      BY <2>2, <2>5, <3>2 DEF PerformRemedyStep, Performed
  <2>6. ASSUME NEW control \in Tiers, PerformChosen(control)
        PROVE  NoSurprises'
    BY <2>2, <2>6 DEF PerformChosen, Performed, Request, Requests
  <2> QED
    BY <2>1, <2>3, <2>4, <2>5, <2>6
    DEF Next, Edit, Approve, Revoke, Load, LoadApproval, Begin, DenyStep, Stop, Ends, vars
<1> QED
  <2>1. Init => Signed
    BY DEF Init, Signed, Names, NoRecord, Records, NoRun, Artifacts
  <2>2. Signed /\ [Next]_vars => Signed'
    BY NextSigned
  <2> QED
    BY <1>1, <1>2, <2>1, <2>2, PTL DEF Spec

-----------------------------------------------------------------------------
(* A run under way got through the gate before its first step.             *)
Gated == run.phase = "running" => GateOpen(Steps, run.capability)

(* The steps of a run are requests that declare a risk.                    *)
LEMMA StepsDeclare ==
  ASSUME Carries
  PROVE  Steps \in Seq(StepRequests)
<1>1. run.capability.content.base \in Contents
  BY BindingKeepsBase DEF Carries, Runs, Artifacts, Document, Bound
<1> QED
  BY <1>1, ContentsAssumption DEF Steps

(* One step declared irreversible makes a capability irreversible.         *)
LEMMA OneStepIsEnough ==
  ASSUME NEW steps \in Seq(StepRequests), NEW i \in DOMAIN steps,
         steps[i].declared = "irreversible"
  PROVE  MaxRisk(steps) = "irreversible"
<1> DEFINE tiers == {"safe"} \cup {steps[j].declared : j \in DOMAIN steps}
<1>1. \A j \in DOMAIN steps : steps[j].declared \in Tiers
  BY DEF StepRequests, Requests
<1>2. tiers \in SUBSET Tiers /\ "irreversible" \in tiers
  BY <1>1 DEF Tiers
<1>3. Highest(tiers) \in Tiers /\ Rank("irreversible") <= Rank(Highest(tiers))
  BY <1>2, HighestIsHighest
<1>4. Highest(tiers) = "irreversible"
  BY <1>3 DEF Tiers, Rank
<1> QED
  BY <1>4 DEF MaxRisk

(* Past the gate, a step declared at the tier it is judged at is not       *)
(* denied.                                                                 *)
LEMMA GateCoversStep ==
  ASSUME Carries, Gated, run.phase = "running", run.index <= Len(Steps),
         NEW control \in Tiers,
         Declared(On(Steps[run.index], control)) = Classify(On(Steps[run.index], control))
  PROVE  StepAllowed(control)
<1> DEFINE request == On(Steps[run.index], control)
<1>1. run.index \in DOMAIN Steps /\ Steps \in Seq(StepRequests)
  BY StepsDeclare DEF Carries, Runs
<1>2. Steps[run.index] \in StepRequests
  BY <1>1
<1>3. request.declared = Steps[run.index].declared /\ Declared(request) = request.declared
      /\ Declared(request) \in Tiers
  BY <1>2 DEF On, StepRequests, Requests, Declared
<1>4. CASE Declared(request) = "irreversible"
  <2>1. MaxRisk(Steps) = "irreversible"
    BY <1>1, <1>3, <1>4, OneStepIsEnough
  <2>2. Granted(run.capability)
    BY <2>1 DEF Gated, GateOpen
  <2> QED
    BY <1>4, <2>2 DEF StepAllowed, Allows
<1>5. CASE Declared(request) # "irreversible"
  BY <1>3, <1>5 DEF StepAllowed, Allows, Tiers
<1> QED
  BY <1>4, <1>5

(* Every step of the specification keeps a run behind its gate, and no     *)
(* run is refused for want of an approval once it is past it.              *)
LEMMA NextGated ==
  ASSUME Signed, Gated, GateCoversRun, [Next]_vars
  PROVE  Gated' /\ GateCoversRun'
<1>1. CASE run' = run
  BY <1>1 DEF Gated, GateCoversRun, GateOpen, Granted, Steps
<1>2. ASSUME NEW reason, reason # "unapproved", run' = NoRun(reason)
      PROVE  Gated' /\ GateCoversRun'
  BY <1>2 DEF Gated, GateCoversRun, NoRun
<1>3. ASSUME NEW binding \in Bindings, NEW optIn \in BOOLEAN, Load(binding, optIn)
      PROVE  Gated' /\ GateCoversRun'
  BY <1>3 DEF Load, NoRun, Gated, GateCoversRun
<1>4. CASE LoadApproval
  BY <1>4 DEF LoadApproval, Signed, Carries, Runs, Gated, GateCoversRun
<1>5. CASE Begin
  <2>1. run \in Runs
    BY <1>5 DEF Begin, Signed, Carries
  <2>2. CASE GateOpen(Steps, run.capability)
    <3>1. run' = [run EXCEPT !.phase = "running"]
      BY <1>5, <2>2 DEF Begin
    <3>2. run'.phase = "running" /\ GateOpen(Steps, run.capability)'
      BY <2>1, <2>2, <3>1 DEF Runs, GateOpen, Granted, Steps
    <3> QED
      BY <3>2 DEF Gated, GateCoversRun
  <2>3. CASE ~GateOpen(Steps, run.capability)
    BY <1>2, <1>5, <2>3 DEF Begin, Ends
  <2> QED
    BY <2>2, <2>3
<1>6. ASSUME NEW control \in Tiers, PerformStep(control)
      PROVE  Gated' /\ GateCoversRun'
  <2>1. run \in Runs /\ run.phase = "running" /\ run' = [run EXCEPT !.index = @ + 1]
    BY <1>6 DEF PerformStep, Signed, Carries
  <2>2. run'.phase = "running" /\ GateOpen(Steps, run.capability)'
    BY <2>1 DEF Runs, Gated, GateOpen, Granted, Steps
  <2> QED
    BY <2>2 DEF Gated, GateCoversRun
<1>7. ASSUME NEW control \in Tiers, DenyStep(control)
      PROVE  Gated' /\ GateCoversRun'
  <2>1. Carries /\ run.phase = "running" /\ run.index <= Len(Steps) /\ ~StepAllowed(control)
    BY <1>7 DEF DenyStep, Signed
  <2>2. Declared(On(Steps[run.index], control)) # Classify(On(Steps[run.index], control))
    BY <2>1, GateCoversStep
  <2> QED
    BY <1>2, <1>7, <2>2 DEF DenyStep, Ends
<1>8. CASE Stop
  BY <1>2, <1>8 DEF Stop, Ends
<1> QED
  BY <1>1, <1>3, <1>4, <1>5, <1>6, <1>7, <1>8
  DEF Next, Edit, Approve, Revoke, PerformRemedy, PerformRemedyStep, PerformChosen, vars

(* A run that got past the gate is never refused for want of an approval   *)
(* at one of its steps (ReplayExecutor._approval_gate).                    *)
THEOREM TheGateCoversTheRun == Spec => []GateCoversRun
<1>1. Init => Signed /\ Gated /\ GateCoversRun
  BY DEF Init, Signed, Names, NoRecord, Records, NoRun, Artifacts, Gated, GateCoversRun
<1>2. Signed /\ Gated /\ GateCoversRun /\ [Next]_vars => (Signed /\ Gated /\ GateCoversRun)'
  BY NextSigned, NextGated
<1> QED
  BY <1>1, <1>2, PTL DEF Spec

(* The catalog lists a capability as approved exactly when the gate would  *)
(* accept it (CapabilityStore.list and IrreversibleGrant).                 *)
THEOREM TheListingMatchesTheGate == Spec => []ListingMatchesGate
<1>1. Init => Signed
  BY DEF Init, Signed, Names, NoRecord, Records, NoRun, Artifacts
<1>2. Signed /\ [Next]_vars => Signed'
  BY NextSigned
<1>3. Signed => ListingMatchesGate
  BY DEF Signed, ListingMatchesGate, Listed, StateFor, IsApproved, Permits, HashIsValid, Records
<1> QED
  BY <1>1, <1>2, <1>3, PTL DEF Spec

-----------------------------------------------------------------------------
(* What was vetted is on the list, and the page is where it landed last.   *)
Vetted ==
  /\ page.host \in Allowed
  /\ loading.stage \in {"redirected", "fulfilled"} => loading.to \in Allowed
  /\ landed # {} => page.host \in landed

(* On a page that has not changed, what was decided still holds.           *)
Decided ==
  /\ stage \in {"observed", "authorized"} /\ still => page.content = seen
  /\ stage = "authorized" /\ still => Permitted(call)

OnCourse == TypeOK /\ Vetted /\ Decided /\ IrreversibleIsAnswered

-----------------------------------------------------------------------------
LEMMA DispatcherStarts == DispatcherInit => OnCourse
<1> SUFFICES ASSUME DispatcherInit PROVE OnCourse
  OBVIOUS
<1>1. page \in [host : {Home}, content : Views] /\ Views \subseteq Content
      /\ Home \in Allowed /\ Allowed \subseteq Hosts /\ MaxChanges \in Nat /\ MaxCalls \in Nat
  BY BrowserAssumption, DispatcherAssumption DEF DispatcherInit, BrowserInit
<1>2. TypeOK
  BY <1>1 DEF DispatcherInit, BrowserInit, TypeOK, Loading, NoLoading, Tiers, Statuses, Stages
<1>3. Vetted /\ Decided /\ IrreversibleIsAnswered
  BY <1>1 DEF DispatcherInit, BrowserInit, Vetted, Decided, IrreversibleIsAnswered, NoLoading
<1> QED BY <1>2, <1>3 DEF OnCourse

(* The page's own moves and the route's leave a call as it was.            *)
LEMMA PageKeepsTypes ==
  ASSUME OnCourse, Loads \/ PageMoves,
         UNCHANGED <<call, stage, seen, acted, status, asked, calls>>
  PROVE  TypeOK' /\ Vetted'
<1> USE BrowserAssumption DEF OnCourse, TypeOK, Vetted
<1>1. NoLoading \in Loading /\ \A host \in Hosts : To(host) \in Loading
  BY DEF Loading, NoLoading, To
<1>2. loading.stage # "none" => loading.to \in Hosts
  BY DEF Loading, NoLoading
<1>3. CASE Routes /\ UNCHANGED still
  <2>1. CASE RouteRefuses \/ FetchFails
    BY <1>1, <1>2, <1>3, <2>1 DEF RouteRefuses, FetchFails, Refuse, NoLoading
  <2>2. ASSUME NEW location \in Hosts, FetchRedirects(location)
        PROVE  TypeOK' /\ Vetted'
    <3>1. CASE Refuse(location)
      BY <1>1, <1>3, <2>2, <3>1 DEF FetchRedirects, Refuse, NoLoading
    <3>2. CASE /\ Guard(location) /\ UNCHANGED refused
               /\ loading' = [to |-> location, stage |-> "redirected"]
      BY <1>3, <2>2, <3>2 DEF FetchRedirects, Guard, Loading
    <3> QED BY <2>2, <3>1, <3>2 DEF FetchRedirects
  <2>3. CASE FetchAnswers
    <3>1. loading' = [to |-> loading.to, stage |-> "fulfilled"] /\ loading.to \in Allowed
      BY <1>2, <2>3 DEF FetchAnswers, Guard, Loading, NoLoading
    <3> QED BY <1>3, <2>3, <3>1 DEF FetchAnswers, Loading
  <2>4. CASE Follows
    BY <1>1, <1>2, <1>3, <2>4 DEF Follows, To
  <2> QED BY <1>3, <2>1, <2>2, <2>3, <2>4 DEF Routes
<1>4. ASSUME NEW content \in Views, Commits(content), still' = FALSE
      PROVE  TypeOK' /\ Vetted'
  BY <1>1, <1>2, <1>4 DEF Commits, NoLoading
<1>5. ASSUME NEW content \in Views, PageChanges(content), still' = FALSE
      PROVE  TypeOK' /\ Vetted'
  <2>1. page' = [host |-> page.host, content |-> content]
    BY <1>5 DEF PageChanges
  <2>2. page' \in [host : Hosts, content : Content] /\ page'.host = page.host
    BY <2>1
  <2>3. changes' \in 0 .. MaxChanges
    BY <1>5 DEF PageChanges
  <2> QED BY <1>5, <2>2, <2>3 DEF PageChanges
<1>6. ASSUME NEW host \in Hosts, PageNavigates(host), UNCHANGED still
      PROVE  TypeOK' /\ Vetted'
  BY <1>1, <1>6 DEF PageNavigates, To
<1> QED BY <1>3, <1>4, <1>5, <1>6 DEF Loads, PageMoves

LEMMA PageKeepsDecisions ==
  ASSUME OnCourse, Loads \/ PageMoves,
         UNCHANGED <<call, stage, seen, acted, status, asked, calls>>
  PROVE  Decided' /\ IrreversibleIsAnswered'
<1>1. IrreversibleIsAnswered'
  BY DEF OnCourse, IrreversibleIsAnswered
<1>2. still' => still /\ page' = page
  BY DEF Loads, PageMoves, Routes, RouteRefuses, FetchFails, FetchRedirects, FetchAnswers,
         Follows, PageNavigates
<1>3. still' => (Permitted(call)' <=> Permitted(call))
  BY <1>2 DEF Permitted, Resolves, NeedsConfirmation, Denied, Hit, Suggested
<1> QED BY <1>1, <1>2, <1>3 DEF OnCourse, Decided

(* Starting, refusing and answering a call leave the page alone.           *)
LEMMA CallKeepsPage ==
  ASSUME OnCourse, UNCHANGED browserVars
  PROVE  Vetted'
BY DEF OnCourse, Vetted, browserVars

LEMMA ObserveKeeps ==
  ASSUME OnCourse, NEW c \in Calls, Observe(c)
  PROVE  OnCourse'
<1>1. TypeOK'
  BY DispatcherAssumption DEF Observe, OnCourse, TypeOK, browserVars, Stages, Statuses
<1>2. Vetted'
  BY CallKeepsPage DEF Observe
<1>3. Decided' /\ IrreversibleIsAnswered'
  BY DEF Observe, Decided, IrreversibleIsAnswered, browserVars
<1> QED BY <1>1, <1>2, <1>3 DEF OnCourse

LEMMA AnswersKeep ==
  ASSUME OnCourse, NotResolved \/ PolicyAsks \/ PolicyDenies
  PROVE  OnCourse'
<1>1. /\ UNCHANGED <<browserVars, call, seen, still, acted, calls>>
      /\ stage' = "idle" /\ status' \in Statuses
  BY DEF NotResolved, PolicyAsks, PolicyDenies, Answers, Statuses
<1>2. asked' \in Asked \cup {NoGesture}
  <2>1. CASE PolicyAsks
    <3>1. call \in Gestures
      BY <2>1 DEF PolicyAsks, NeedsConfirmation, OnCourse, TypeOK, Calls, AutomationCalls
    <3>2. /\ seen.focus \in Controls \cup {NoControl}
          /\ page.content.under \in Controls \cup {NoControl}
      BY DEF OnCourse, TypeOK, Content
    <3>3. Hit(call) \in Controls \cup {NoControl}
      BY <3>1, <3>2, Zenon DEF Hit, Gestures
    <3> QED BY <2>1, <3>1, <3>3 DEF PolicyAsks, Asked, Gestures
  <2> QED BY <2>1 DEF NotResolved, PolicyDenies, OnCourse, TypeOK
<1>3. TypeOK'
  BY <1>1, <1>2 DEF OnCourse, TypeOK, browserVars, Stages
<1>4. Vetted'
  BY <1>1, CallKeepsPage
<1>5. Decided' /\ IrreversibleIsAnswered'
  BY <1>1 DEF Decided, IrreversibleIsAnswered
<1> QED BY <1>3, <1>4, <1>5 DEF OnCourse

LEMMA AuthorizedKeeps ==
  ASSUME OnCourse, Authorized
  PROVE  OnCourse'
<1>1. TypeOK'
  BY DEF Authorized, OnCourse, TypeOK, browserVars, Stages
<1>2. Vetted'
  BY CallKeepsPage DEF Authorized
<1>3. Permitted(call)' <=> Permitted(call)
  BY DEF Authorized, browserVars, Permitted, Resolves, NeedsConfirmation, Denied, Hit, Suggested
<1>4. Decided' /\ IrreversibleIsAnswered'
  BY <1>3 DEF Authorized, browserVars, OnCourse, Decided, IrreversibleIsAnswered
<1> QED BY <1>1, <1>2, <1>4 DEF OnCourse

LEMMA ReportKeeps ==
  ASSUME OnCourse, NEW ok \in BOOLEAN, Report(ok)
  PROVE  OnCourse'
<1>1. stage' = "idle" /\ status' \in Statuses /\ refused' = {}
  BY DEF Report, Answers, Statuses
<1>2. TypeOK'
  BY <1>1 DEF Report, OnCourse, TypeOK, Stages
<1>3. Vetted' /\ Decided' /\ IrreversibleIsAnswered'
  BY <1>1 DEF Report, OnCourse, Vetted, Decided, IrreversibleIsAnswered
<1> QED BY <1>2, <1>3 DEF OnCourse

(* What was permitted on this very page, if it sets off something the page *)
(* calls irreversible, was confirmed or declared and approved.             *)
LEMMA PermittedIsAnswered ==
  ASSUME OnCourse, stage = "authorized", still,
         Reached # NoControl, page.content.labels[Reached] = "irreversible",
         call.actor = "AUTOMATION" => call.control # NoControl
  PROVE  IF call.actor = "HUMAN" THEN call.confirmed
         ELSE call.mandate.declared = "irreversible" /\ call.mandate.granted
<1>1. page.content = seen /\ Permitted(call) /\ call \in AutomationCalls \cup Gestures
  BY DEF OnCourse, TypeOK, Decided, Calls
<1>2. "irreversible" # Gone /\ NoRisk \notin Tiers
  BY BrowserAssumption, NoRiskAssumption DEF Tiers
<1>3. CASE call \in Gestures
  <2>1. call.actor = "HUMAN" /\ call.kind \in {"click", "key"}
    BY <1>3 DEF Gestures
  <2>2. Hit(call) = Reached
    <3>1. CASE call.kind = "click"
      <4>1. Reached = page.content.under
        BY <2>1, <3>1 DEF Reached
      <4> QED BY <1>1, <1>2, <2>1, <3>1, <4>1 DEF Hit
    <3>2. CASE call.kind = "key"
      <4>1. Reached = page.content.focus
        BY <2>1, <3>2 DEF Reached
      <4>2. Hit(call) = seen.focus
        BY <2>1, <3>2 DEF Hit
      <4> QED BY <1>1, <4>1, <4>2
    <3> QED BY <2>1, <3>1, <3>2
  <2>3. Suggested(Hit(call)) = "irreversible"
    BY <1>1, <2>2 DEF Suggested
  <2>4. Highest({"elevated", "irreversible"}) = "irreversible"
    <3>1. /\ Highest({"elevated", "irreversible"}) \in {"elevated", "irreversible"}
          /\ Rank("irreversible") <= Rank(Highest({"elevated", "irreversible"}))
      BY HighestIsHighest DEF Tiers
    <3> QED BY <3>1 DEF Rank
  <2> QED BY <1>1, <2>1, <2>3, <2>4 DEF Permitted, NeedsConfirmation
<1>4. CASE call \in AutomationCalls
  <2>1. call.actor = "AUTOMATION" /\ call.control # NoControl /\ call.kind = "click"
        /\ call.control \in Controls /\ call.mandate \in Mandates
    BY <1>4 DEF AutomationCalls
  <2>2. Reached = call.control /\ Hit(call) = call.control
    BY <2>1 DEF Reached, Hit
  <2>3. Suggested(Hit(call)) = "irreversible"
    BY <1>1, <2>2 DEF Suggested
  <2> DEFINE request == Request(FALSE, "irreversible", call.mandate.declared, NoRisk)
  <2>4. Allows(request, call.mandate.granted)
    BY <1>1, <2>1, <2>3 DEF Permitted, Denied
  <2>5. /\ request \in Requests /\ ~request.reads /\ request.control = "irreversible"
        /\ call.mandate.granted \in BOOLEAN /\ call.mandate.declared \in Tiers \cup {NoRisk}
    <3>1. call.mandate.granted \in BOOLEAN /\ call.mandate.declared \in Tiers \cup {NoRisk}
      <4>1. CASE call.mandate \in [capability : {TRUE}, declared : Tiers, granted : BOOLEAN]
        BY <4>1
      <4>2. CASE call.mandate = [capability |-> FALSE, declared |-> NoRisk, granted |-> FALSE]
        BY <4>2
      <4> QED BY <2>1, <4>1, <4>2 DEF Mandates
    <3>2. "irreversible" \in Tiers
      BY DEF Tiers
    <3> QED BY <3>1, <3>2 DEF Request, Requests
  <2>6. Declared(request) = "irreversible" /\ call.mandate.granted
    BY <2>4, <2>5, IrreversibleNeedsGrant
  <2>7. call.mandate.declared = "irreversible"
    BY <1>2, <2>6 DEF Declared, Request, Tiers
  <2> QED BY <2>1, <2>6, <2>7
<1> QED BY <1>1, <1>3, <1>4

LEMMA DispatchKeeps ==
  ASSUME OnCourse, Dispatch
  PROVE  OnCourse'
<1> USE BrowserAssumption DEF OnCourse, TypeOK
<1>1. call \in Calls /\ stage = "authorized"
  BY DEF Dispatch
<1>2. Reached \in Controls \cup {NoControl}
  <2>1. /\ page.content.under \in Controls \cup {NoControl}
        /\ page.content.focus \in Controls \cup {NoControl}
    BY DEF Content
  <2>2. /\ call.kind \in {"click", "key", "navigate"} /\ call.actor \in {"AUTOMATION", "HUMAN"}
        /\ call.control \in Controls \cup {NoControl}
    BY <1>1 DEF Calls, AutomationCalls, Gestures
  <2> QED BY <2>1, <2>2 DEF Reached
<1>3. acted' \in [control : Controls \cup {NoControl}, tier : Tiers \cup {Gone},
                  still : BOOLEAN, reached : BOOLEAN]
  <2>1. Reached # NoControl => page.content.labels[Reached] \in Tiers \cup {Gone}
    BY <1>2 DEF Content, Labels
  <2>2. "safe" \in Tiers
    BY DEF Tiers
  <2> QED BY <1>2, <2>1, <2>2 DEF Dispatch
<1>4. loading' \in Loading /\ (loading' = loading \/ loading'.stage = "routed")
  <2>1. \A host \in Hosts : To(host) \in Loading /\ To(host).stage = "routed"
    BY DEF To, Loading
  <2>2. call.kind = "navigate" => call.host \in Hosts
    BY <1>1 DEF Calls, AutomationCalls, Gestures
  <2> QED BY <2>1, <2>2 DEF Dispatch
<1>5. TypeOK'
  BY <1>1, <1>3, <1>4 DEF Dispatch, Starts, Stages
<1>6. Vetted'
  BY <1>4 DEF Dispatch, Starts, Vetted
<1>7. Decided'
  BY DEF Dispatch, Decided
<1>8. IrreversibleIsAnswered'
  <2> SUFFICES ASSUME acted'.still, acted'.tier = "irreversible",
                      call.actor = "AUTOMATION" => call.control # NoControl
               PROVE  IF call.actor = "HUMAN" THEN call.confirmed
                      ELSE call.mandate.declared = "irreversible" /\ call.mandate.granted
    BY DEF Dispatch, IrreversibleIsAnswered
  <2>1. still /\ Reached # NoControl /\ page.content.labels[Reached] = "irreversible"
    BY DEF Dispatch
  <2> QED BY <1>1, <2>1, PermittedIsAnswered
<1> QED BY <1>5, <1>6, <1>7, <1>8

LEMMA DispatcherKeeps == OnCourse /\ [DispatcherNext]_dispatcherVars => OnCourse'
<1> SUFFICES ASSUME OnCourse, [DispatcherNext]_dispatcherVars PROVE OnCourse'
  OBVIOUS
<1>1. ASSUME NEW c \in Calls, Observe(c) PROVE OnCourse'
  BY <1>1, ObserveKeeps
<1>2. CASE Execute
  BY <1>2, AnswersKeep, AuthorizedKeeps, DispatchKeeps, ReportKeeps DEF Execute
<1>3. CASE (Loads \/ PageMoves) /\ UNCHANGED <<call, stage, seen, acted, status, asked, calls>>
  BY <1>3, PageKeepsTypes, PageKeepsDecisions DEF OnCourse
<1>4. CASE UNCHANGED dispatcherVars
  <2>1. Permitted(call)' <=> Permitted(call)
    BY <1>4
    DEF dispatcherVars, browserVars, Permitted, Resolves, NeedsConfirmation, Denied, Hit,
        Suggested
  <2> QED BY <1>4, <2>1
    DEF dispatcherVars, browserVars, OnCourse, TypeOK, Vetted, Decided, IrreversibleIsAnswered
<1> QED BY <1>1, <1>2, <1>3, <1>4 DEF DispatcherNext

-----------------------------------------------------------------------------
(* Every reachable state has its declared shape.                           *)
THEOREM DispatcherTypeCorrect == DispatcherSpec => []TypeOK
<1>1. OnCourse => TypeOK
  BY DEF OnCourse
<1> QED BY DispatcherStarts, DispatcherKeeps, <1>1, PTL DEF DispatcherSpec

(* Whatever the page and its servers do, whoever acts, the session never   *)
(* is on a host off the allowlist.                                         *)
THEOREM SessionStaysOnList == DispatcherSpec => []NeverOffList
<1>1. OnCourse => NeverOffList
  BY DEF OnCourse, Vetted, NeverOffList
<1> QED BY DispatcherStarts, DispatcherKeeps, <1>1, PTL DEF DispatcherSpec

(* On a page that has not changed since it was observed, nothing it calls  *)
(* irreversible is set off unconfirmed by an operator, or undeclared or    *)
(* unapproved by automation.                                               *)
THEOREM IrreversibleAlwaysAnswered == DispatcherSpec => []IrreversibleIsAnswered
<1>1. OnCourse => IrreversibleIsAnswered
  BY DEF OnCourse
<1> QED BY DispatcherStarts, DispatcherKeeps, <1>1, PTL DEF DispatcherSpec

(* A refused navigation off the allowlist leaves the list only with a call *)
(* answered "denied", however the route and the calls interleave.          *)
THEOREM RefusalsAreReported == DispatcherSpec => RefusalIsReported
<1> DEFINE Reports == ~(refused \subseteq refused') /\ ~(refused \subseteq Allowed)
                        => status' = "denied"
<1>1. OnCourse /\ [DispatcherNext]_dispatcherVars => [Reports]_dispatcherVars
  <2> SUFFICES ASSUME OnCourse, DispatcherNext,
                      ~(refused \subseteq refused'), ~(refused \subseteq Allowed)
               PROVE  status' = "denied"
    OBVIOUS
  <2>1. PICK ok \in BOOLEAN : Report(ok)
    BY DEF DispatcherNext, Execute, Observe, NotResolved, PolicyAsks, PolicyDenies, Authorized,
           Dispatch, Starts, Loads, PageMoves, Routes, RouteRefuses, FetchFails, FetchRedirects,
           FetchAnswers, Follows, Commits, PageChanges, PageNavigates, Refuse, browserVars
  <2>2. ~(Destinations(ok) \subseteq Within(call))
    BY DEF Destinations, Within
  <2> QED BY <2>1, <2>2 DEF Report, Answers
<1> QED BY DispatcherStarts, DispatcherKeeps, <1>1, PTL DEF DispatcherSpec, RefusalIsReported

(* A navigation that succeeds has arrived where its capability may go.     *)
THEOREM NavigationsArriveWithin == DispatcherSpec => ArrivesWithinDomains
<1> DEFINE Arrives == stage = "dispatched" /\ stage' = "idle" /\ call.kind = "navigate"
                        /\ status' = "ok" => page.host \in Within(call)
<1>1. OnCourse /\ [DispatcherNext]_dispatcherVars => [Arrives]_dispatcherVars
  <2> SUFFICES ASSUME OnCourse, DispatcherNext, stage = "dispatched", stage' = "idle",
                      call.kind = "navigate", status' = "ok"
               PROVE  page.host \in Within(call)
    OBVIOUS
  <2>1. PICK ok \in BOOLEAN : Report(ok)
    BY DEF DispatcherNext, Execute, Observe, NotResolved, PolicyAsks, PolicyDenies, Authorized,
           Dispatch
  <2>2. ok /\ Destinations(ok) \subseteq Within(call) /\ landed # {}
    BY <2>1 DEF Report, Answers
  <2> QED BY <2>2 DEF OnCourse, Vetted, Destinations
<1> QED BY DispatcherStarts, DispatcherKeeps, <1>1, PTL DEF DispatcherSpec, ArrivesWithinDomains
=============================================================================
