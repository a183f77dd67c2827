--------------------------- MODULE ApprovedReplay ---------------------------
(***************************************************************************)
(* What a person's approval of a capability lets an unattended run do:     *)
(* the artifact and the approval record on disk (catalog/store.py,         *)
(* catalog/approvals.py, `cua catalog approve` and `revoke`), the run that *)
(* loads both and binds the artifact to a deployment (cli/main.py,         *)
(* _replay_once; domain/tenant_binding.py), the gates                      *)
(* (policy/irreversible.py) and every way automation reaches the           *)
(* chokepoint: a step, a remedy, a step of a remedy's capability, a model. *)
(*                                                                         *)
(* A document is a content and the content its hash is of.  A bound        *)
(* content is a base and what was applied to it.  One capability version   *)
(* is followed; the artifact may be edited on disk at any time.  The       *)
(* command line only substitutes; a binding that overrides is what the     *)
(* executor's interface accepts besides.                                   *)
(***************************************************************************)
EXTENDS Chokepoint, Sequences

CONSTANTS Contents,    \* what the artifact may say
          Plan,        \* Contents -> its steps
          Slotted,     \* contents with a placeholder to substitute
          Remedies,    \* the step lists of the capabilities remedies run
          Unsealed, NoContent

ASSUME ContentsAssumption ==
  /\ Plan \in [Contents -> Seq(StepRequests)]
  /\ Slotted \subseteq Contents
  /\ NoContent \notin Contents
  /\ Remedies \subseteq Seq(StepRequests)

VARIABLES file,     \* the artifact on disk
          record,   \* the approval record beside it
          signed,   \* ghost: the content of the decision in force
          run,      \* one invocation of `cua replay` or `cua catalog invoke`
          last      \* ghost: the last action the run got through the chokepoint

vars == <<file, record, signed, run, last>>

Bindings == {"none", "substituted", "overridden"}

Bound     == [base : Contents, by : Bindings]
Document  == [content : Bound, hash : Bound \cup {Unsealed}]
Artifacts == {d \in Document : d.content.by = "none" /\ (d.hash # Unsealed => d.hash.by = "none")}

NoRecord == [hash |-> Unsealed, state |-> "draft"]
Records  == {r \in [hash : Bound \cup {Unsealed}, state : {"draft", "approved", "revoked"}] :
                r.state = "approved" => r.hash # Unsealed}

Nothing == [by |-> "nobody"]

NoRun(reason) == [phase |-> "idle", ended |-> reason]

Runs ==
  [phase : {"loaded", "ready", "running"}, base : Document, binding : Bindings,
   capability : Document, approval : Records, signed : Contents \cup {NoContent},
   optIn : BOOLEAN, index : Nat \ {0}]

-----------------------------------------------------------------------------
(* Capability.hash_is_valid.                                               *)
HashIsValid(document) == document.hash = document.content

Seal(content) == [content |-> content, hash |-> content]

(* TenantBinding.apply: substitution fills the slots there are, an         *)
(* override changes steps; the result is sealed whatever the base was.     *)
Apply(binding, document) ==
  IF binding = "substituted" /\ document.content.base \notin Slotted
  THEN Seal(document.content)
  ELSE Seal([base |-> document.content.base, by |-> binding])

Bind(binding, document) == IF binding = "none" THEN document ELSE Apply(binding, document)

(* CapabilityApproval.permits_unattended_replay.                           *)
Permits(approval, hash) ==
  /\ approval.hash # Unsealed
  /\ hash # Unsealed
  /\ approval.state = "approved"
  /\ approval.hash = hash

(* AppliedBinding.verify.                                                  *)
Verifies(base, binding, document) ==
  /\ HashIsValid(base)
  /\ HashIsValid(document)
  /\ Apply(binding, base).hash = document.hash

(* IrreversibleGrant._approval_refusal.                                    *)
IsApproved(document, approval, base, binding) ==
  \/ HashIsValid(document) /\ Permits(approval, document.hash)
  \/ /\ binding # "none"
     /\ Verifies(base, binding, document)
     /\ binding = "substituted"
     /\ Permits(approval, base.hash)

(* IrreversibleGrant.refusal, with both replay gates on.                   *)
Granted(document) ==
  /\ run.optIn
  /\ IsApproved(document, run.approval, run.base, run.binding)

(* Slip: the riskiest tier is the last by name.                            *)
MaxRiskByName(steps) ==
  IF \E i \in DOMAIN steps : steps[i].declared = "safe" THEN "safe"
  ELSE IF \E i \in DOMAIN steps : steps[i].declared = "irreversible" THEN "irreversible"
  ELSE "elevated"

(* Capability.max_risk.                                                    *)
MaxRisk(steps) == Highest({"safe"} \cup {steps[i].declared : i \in DOMAIN steps})

(* ReplayExecutor._approval_gate.                                          *)
GateOpen(steps, document) == MaxRisk(steps) = "irreversible" => Granted(document)

(* ApprovalStore.state_for.                                                *)
StateFor(approval, hash) ==
  IF approval.state = "approved" /\ approval.hash # hash THEN "draft" ELSE approval.state

(* Slip: the display trusts the hash the file declares.                    *)
ListedAsDeclared(document, approval) == StateFor(approval, document.hash)

(* CapabilityStore.list asks about the verified hash.                      *)
Listed(document, approval) ==
  StateFor(approval, IF HashIsValid(document) THEN document.hash ELSE Unsealed)

-----------------------------------------------------------------------------
Init ==
  /\ file \in {d \in Artifacts : HashIsValid(d)}
  /\ record = NoRecord
  /\ signed = NoContent
  /\ run = NoRun("none")
  /\ last = Nothing

(* Somebody writes the artifact, sealing it, leaving a hash that was there *)
(* before, or leaving it out.                                              *)
Edit(document) ==
  /\ document # file
  /\ file' = document
  /\ UNCHANGED <<record, signed, run, last>>

(* Slip: a hash the content does not match is approved as it stands.       *)
ApprovableUnverified == file.hash # Unsealed

(* catalog_approve refuses an unsealed artifact and a tampered one.        *)
Approvable == file.hash # Unsealed /\ HashIsValid(file)

Approve ==
  /\ Approvable
  /\ record' = [hash |-> file.hash, state |-> "approved"]
  /\ signed' = file.content.base
  /\ UNCHANGED <<file, run, last>>

(* catalog_revoke refuses nothing.                                         *)
Revoke ==
  /\ record' = [hash |-> file.hash, state |-> "revoked"]
  /\ signed' = NoContent
  /\ UNCHANGED <<file, run, last>>

-----------------------------------------------------------------------------
(* The artifact is read, and refused if its hash does not match; one       *)
(* without a hash is read all the same.                                    *)
Load(binding, optIn) ==
  /\ run.phase = "idle"
  /\ run' = IF file.hash # Unsealed /\ ~HashIsValid(file)
            THEN NoRun("tampered")
            ELSE [ phase |-> "loaded", base |-> file, binding |-> binding,
                   capability |-> Bind(binding, file),
                   approval |-> NoRecord, signed |-> NoContent,
                   optIn |-> optIn, index |-> 1 ]
  /\ UNCHANGED <<file, record, signed, last>>

(* The decision is read later than the artifact, and once.                 *)
LoadApproval ==
  /\ run.phase = "loaded"
  /\ run' = [run EXCEPT !.phase = "ready", !.approval = record, !.signed = signed]
  /\ UNCHANGED <<file, record, signed, last>>

Steps == Plan[run.capability.content.base]

Ends(reason) ==
  /\ run' = NoRun(reason)
  /\ last' = Nothing
  /\ UNCHANGED <<file, record, signed>>

(* Refused before the browser moves, or begun.                             *)
Begin ==
  /\ run.phase = "ready"
  /\ IF GateOpen(Steps, run.capability)
     THEN run' = [run EXCEPT !.phase = "running"] /\ UNCHANGED <<file, record, signed, last>>
     ELSE Ends("refused")

Performed(by, request) == last' = [by |-> by, request |-> request]

(* The page decides what the control of a step is called.                  *)
On(step, control) == [step EXCEPT !.control = control]

StepAllowed(control) == Allows(On(Steps[run.index], control), Granted(run.capability))

PerformStep(control) ==
  /\ run.phase = "running" /\ run.index <= Len(Steps)
  /\ StepAllowed(control)
  /\ Performed("step", On(Steps[run.index], control))
  /\ run' = [run EXCEPT !.index = @ + 1]
  /\ UNCHANGED <<file, record, signed>>

(* PolicyDenied ends the run; for want of an approval if the step is       *)
(* declared at its tier, and else because the page surprised it.           *)
DenyStep(control) ==
  /\ run.phase = "running" /\ run.index <= Len(Steps)
  /\ ~StepAllowed(control)
  /\ LET request == On(Steps[run.index], control)
     IN  Ends(IF Declared(request) = Classify(request) THEN "unapproved" ELSE "denied")

(* A remedy presents no grant and declares nothing but its annotation.     *)
PerformRemedy(control, annotation) ==
  /\ run.phase = "running"
  /\ Allows(Request(FALSE, control, NoRisk, annotation), FALSE)
  /\ Performed("remedy", Request(FALSE, control, NoRisk, annotation))
  /\ UNCHANGED <<file, record, signed, run>>

(* A remedy's capability is bound like the run's and judged by the run's   *)
(* own grant, once for the whole of it and again for each step.            *)
RemedyDocument == Seal([base |-> NoContent, by |-> run.binding])

PerformRemedyStep(remedy, i, control) ==
  /\ run.phase = "running"
  /\ GateOpen(remedy, RemedyDocument)
  /\ Allows(On(remedy[i], control), Granted(RemedyDocument))
  /\ Performed("capability", On(remedy[i], control))
  /\ UNCHANGED <<file, record, signed, run>>

(* Assisted recovery: a model's action carries no risk of its own.         *)
PerformChosen(control) ==
  /\ run.phase = "running"
  /\ Allows(Request(FALSE, control, NoRisk, NoRisk), FALSE)
  /\ Performed("model", Request(FALSE, control, NoRisk, NoRisk))
  /\ UNCHANGED <<file, record, signed, run>>

(* Every other way a run is over, at any point.                            *)
Stop == run.phase = "running" /\ Ends("over")

Next ==
  \/ \E document \in Artifacts : Edit(document)
  \/ Approve
  \/ Revoke
  \/ \E binding \in Bindings, optIn \in BOOLEAN : Load(binding, optIn)
  \/ LoadApproval
  \/ Begin
  \/ \E control \in Tiers : PerformStep(control)
  \/ \E control \in Tiers : DenyStep(control)
  \/ \E control \in Tiers, annotation \in Tiers \cup {NoRisk} : PerformRemedy(control, annotation)
  \/ \E remedy \in Remedies : \E i \in DOMAIN remedy, control \in Tiers :
       PerformRemedyStep(remedy, i, control)
  \/ \E control \in Tiers : PerformChosen(control)
  \/ Stop

Spec == Init /\ [][Next]_vars

-----------------------------------------------------------------------------
(* The action was a step of a capability a person had signed at exactly    *)
(* this content, or at the base it was substituted into, by a decision in  *)
(* force when the run began, and the caller had opted in.                  *)
Reviewed ==
  /\ last.by = "step"
  /\ last.request.declared = "irreversible"
  /\ run.optIn
  /\ run.signed = run.capability.content.base
  /\ run.capability.content.by # "overridden"

Acted == last # Nothing /\ ~last.request.reads

(* Nothing the page or the step calls irreversible is done unattended      *)
(* unless it was reviewed (policy.yaml, replay_gates), whatever happens to *)
(* the files meanwhile.                                                    *)
IrreversibleWasReviewed ==
  Acted /\ "irreversible" \in {last.request.control, last.request.declared} => Reviewed

(* Automation acts on no control riskier than the artifact said, whoever   *)
(* proposed the action (PolicyEngine.authorize).                           *)
NoSurprises ==
  Acted => \/ last.request.control = "safe"
           \/ Declared(last.request) # NoRisk
              /\ Rank(last.request.control) <= Rank(Declared(last.request))

(* A run never gets as far as a declared irreversible step and is then     *)
(* refused for want of an approval: the gate before the first step and     *)
(* the one at the dispatch agree (ReplayExecutor._approval_gate).          *)
GateCoversRun == run.phase = "idle" => run.ended # "unapproved"

(* What the catalog lists as approved is what the gate would let through   *)
(* (CapabilityStore.list and IrreversibleGrant).                           *)
ListingMatchesGate ==
  Listed(file, record) = "approved" <=> IsApproved(file, record, file, "none")
=============================================================================
