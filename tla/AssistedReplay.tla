--------------------------- MODULE AssistedReplay ---------------------------
(***************************************************************************)
(* Replay with one step corrected by a model                               *)
(* (src/src/cua/assist/recovery.py): run, and if it fails for want of a    *)
(* control or of a state, let the model choose one policed action in its   *)
(* place and resume the replay after it.  There is no broker.              *)
(***************************************************************************)
EXTENDS ReplayExecutor

VARIABLES attempted,   \* outcome.attempted
          corrected    \* the step the model performed, 0 if none

assistedVars == <<executor, attempted, corrected>>

ASSISTABLE == {"target_not_found", "target_ambiguous", "precondition_failed"}

IsAssistable ==
  /\ ~attempted
  /\ result.status \in {"failed", "needs_human"}
  /\ result.code \in ASSISTABLE

-----------------------------------------------------------------------------
AssistedInit ==
  /\ Idle
  /\ attempted = FALSE
  /\ corrected = 0

(* AssistedReplay.run is called once.                                      *)
Runs ==
  /\ result = NoResult
  /\ Run
  /\ UNCHANGED <<attempted, corrected>>

Replays == Step /\ UNCHANGED <<attempted, corrected>>

(* No step is named, the model is unreachable or proposes nothing usable,  *)
(* the risk is too high, or the dispatch is refused: the result stands.    *)
AssistDeclined ==
  /\ IsAssistable
  /\ attempted' = TRUE
  /\ UNCHANGED <<executor, corrected>>

(* Slip: replay picks up at the step the model has performed.              *)
NextIndexSame == result.step

(* Slip: ... or one step too far.                                          *)
NextIndexBeyond == IF result.step < Len(Plan) THEN result.step + 2 ELSE result.step + 1

(* The action stands in for the step, and replay picks up after it.        *)
NextIndex == result.step + 1

AssistActs ==
  /\ IsAssistable
  /\ result.step # 0
  /\ attempted' = TRUE
  /\ corrected' = result.step
  /\ Resume(NextIndex, result.outputs, 0)

AssistedNext == Runs \/ Replays \/ AssistDeclined \/ AssistActs

(* One thread: a replay under way goes on.                                 *)
AssistedSafety == AssistedInit /\ [][AssistedNext]_assistedVars

AssistedSpec == AssistedSafety /\ WF_assistedVars(Replays)

-----------------------------------------------------------------------------
(* Success still covers the plan, the corrected step being done by the     *)
(* model (AssistedReplay.run).                                             *)
AssistedSuccessCoversPlan ==
  result.status = "success" => (covered \cup {corrected}) \ {0} = 1 .. Len(Plan)

(* The assist is asked once, so it refreshes the bounded recoveries of a   *)
(* task once: with and without it, they stay a bounded number              *)
(* (max_recovery_attempts_total; recovery.py resumes without carrying the  *)
(* count over).                                                            *)
RecoveriesBounded ==
  spent <= IF attempted THEN 2 * MaxRecoveryTotal ELSE MaxRecoveryTotal

(* The step the model performed is not performed again by replay: no       *)
(* double submission (the reason resume starts at step_index + 1).         *)
CorrectedStepIsNotRepeated ==
  [][Dispatched /\ ~Nested => Top.index # corrected]_assistedVars
=============================================================================
