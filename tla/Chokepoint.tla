----------------------------- MODULE Chokepoint -----------------------------
(***************************************************************************)
(* What policy lets automation do (src/src/cua/policy/engine.py, risk.py,  *)
(* config.py) under the dispositions the repository ships                  *)
(* (src/config/policy.yaml): three signals of risk, the highest wins, and  *)
(* each tier is handled in its own way.                                    *)
(*                                                                         *)
(* A request says whether the action only reads, the tier its control's    *)
(* name suggests, the risk the step declares and the one the action itself *)
(* is annotated with, NoRisk standing for None.                            *)
(***************************************************************************)
EXTENDS Naturals

CONSTANT NoRisk

Tiers == {"safe", "elevated", "irreversible"}

ASSUME NoRiskAssumption == NoRisk \notin Tiers

Rank(tier) ==
  CASE tier = "safe"         -> 1
    [] tier = "elevated"     -> 2
    [] tier = "irreversible" -> 3

Highest(tiers) == CHOOSE t \in tiers : \A u \in tiers : Rank(u) <= Rank(t)

Request(reads, control, declared, annotation) ==
  [reads |-> reads, control |-> control, declared |-> declared, annotation |-> annotation]

Requests == [reads : BOOLEAN, control : Tiers, declared : Tiers \cup {NoRisk},
             annotation : Tiers \cup {NoRisk}]

(* A step always declares a risk: safe, unless it says otherwise.          *)
StepRequests == {r \in Requests : r.declared # NoRisk}

(* `declared_risk or action.risk`.                                         *)
Declared(request) ==
  IF request.declared # NoRisk THEN request.declared ELSE request.annotation

(* RiskClassifier.classify.  Every action automation may originate is of   *)
(* the safe tier by its type.                                              *)
Classify(request) ==
  IF request.reads THEN "safe"
  ELSE Highest({"safe", request.control, Declared(request)} \ {NoRisk})

(* Slip: any declaration will do, whatever it says.                        *)
AllowsIfDeclared(request, granted) ==
  CASE Classify(request) = "safe"         -> TRUE
    [] Classify(request) = "elevated"     -> Declared(request) # NoRisk
    [] Classify(request) = "irreversible" -> Declared(request) = "irreversible" /\ granted

(* PolicyEngine.authorize for AUTOMATION: allow, allow_if_declared and     *)
(* allow_if_approved.  `granted` says whether the run presents a grant and *)
(* the grant does not refuse the capability.                               *)
Allows(request, granted) ==
  CASE Classify(request) = "safe"         -> TRUE
    [] Classify(request) = "elevated"     -> Declared(request) = "elevated"
    [] Classify(request) = "irreversible" -> Declared(request) = "irreversible" /\ granted
=============================================================================
