----------------------------- MODULE Evaluation -----------------------------
(***************************************************************************)
(* What `cua eval` measures of a capability and what an approval may make  *)
(* of it: the suites and the harness (evals/suites.py, evals/harness.py),  *)
(* the scores (evals/scorers.py), the evaluation on disk (evals/report.py, *)
(* domain/evaluation.py) and `cua catalog approve --from-eval`             *)
(* (cli/main.py, catalog/approvals.py, domain/approval.py).                *)
(*                                                                         *)
(* One capability version is followed.  The suites run for minutes; the    *)
(* artifact on disk may be edited and sealed again under them.  A suite    *)
(* is a process that may be killed; a later one finds what it left.        *)
(***************************************************************************)
EXTENDS Naturals, FiniteSets

CONSTANTS Contents,    \* what the artifact may say
          Masked,      \* contents that declare their input sensitive
          Cases,       \* the members a suite asks about
          Truth,       \* [Cases -> the status and the answer of a correct run]
          Behaviours,  \* how one replay may go: its decisions, status and answer
          Repeats,     \* what --repeats may be
          NumSuites,   \* the suites, in the order their files sort
          MaxBegun,    \* bound: suites begun
          Unsealed, NoSuite, NoEvaluation

Suites == 1 .. NumSuites

ASSUME EvaluationAssumption ==
  /\ Masked \subseteq Contents
  /\ Repeats \subseteq Nat \ {0}
  /\ NumSuites \in Nat /\ MaxBegun \in Nat
  /\ IsFiniteSet(Cases)
  /\ Contents \cap {Unsealed, "the bound copy"} = {}
  /\ \A c \in Cases : Truth[c].status \in {"success", "business_outcome"}
  /\ \A b \in Behaviours :
       b.status \in {"success", "business_outcome", "needs_human", "failed"}

VARIABLES file,         \* the artifact: its content and the content its hash is of
          suite,        \* the suite that is running
          begun,        \* suites begun so far
          traces,       \* [Suites -> how many repeats have left a trace on disk]
          evaluations,  \* [Suites -> the evaluation document on disk]
          approval      \* the content the approval on disk pins

evaluationVars == <<file, suite, begun, traces, evaluations, approval>>

Artifacts == [content : Contents, hash : Contents \cup {Unsealed}]

HashIsValid(document) == document.hash = document.content

(* load_capability: a wrong hash is refused, a missing one is not.         *)
Readable(document) == document.hash = Unsealed \/ HashIsValid(document)

-----------------------------------------------------------------------------
(* Scores.  A run is an index and a case; its record says the inputs as    *)
(* they were written to disk, where a sensitive one is masked.             *)
Inputs(on, run) == IF on \in Masked THEN "masked" ELSE run[2]

(* wrong_action_count.  Inputs the truth has no entry for are passed over; *)
(* an answer where there is none, and none where there is one, count too.  *)
IsWrong(on, run, b) ==
  /\ on \notin Masked
  /\ LET expected == Truth[run[2]]
     IN  \/ /\ b.status = "success"
            /\ expected.status # "success" \/ b.answer # expected.answer
         \/ /\ b.status = "business_outcome"
            /\ expected.status # "business_outcome" \/ b.answer # expected.answer

(* Slip: a directory is opened for append as it is found.                  *)
FoundInDirectory(run, kept) == IF run[1] <= kept THEN <<"an earlier run">> ELSE <<>>

(* fresh_run_dir empties the directory of a run id.                        *)
LeftInDirectory(run, kept) == <<>>

(* decision_trace: each step's decisions, and how the run ended.  What a   *)
(* successful run returned is not a decision.                              *)
DecisionTrace(b) ==
  [decisions |-> b.decisions, status |-> b.status,
   code |-> IF b.status = "success" THEN "none" ELSE b.answer]

(* determinism_holds.                                                      *)
Determinism(on, records, kept) ==
  LET trace(run) == <<LeftInDirectory(run, kept), DecisionTrace(records[run])>>
      pairs == {p \in (DOMAIN records) \X (DOMAIN records) :
                  p[1] # p[2] /\ Inputs(on, p[1]) = Inputs(on, p[2])}
  IN  IF \E p \in pairs : trace(p[1]) # trace(p[2]) THEN "fails"
      ELSE IF pairs = {} THEN "unmeasured" ELSE "holds"

(* CapabilityEvaluation.stability_score >= 0.95.                           *)
IsStable(records) ==
  LET usable == {run \in DOMAIN records : records[run].status \in {"success", "business_outcome"}}
  IN  100 * Cardinality(usable) >= 95 * Cardinality(DOMAIN records)

(* What really happened.  misled: a run told its caller something that is  *)
(* not so.  differ: what replay decides is not a function of the member.   *)
(* divided: two callers asking about one member were told two things.      *)
Facts(records) ==
  LET runs == DOMAIN records
      told(run) == <<records[run].status, records[run].answer>>
      went(run) == DecisionTrace(records[run])
  IN  [misled  |-> \E run \in runs :
                     /\ records[run].status \in {"success", "business_outcome"}
                     /\ told(run) # <<Truth[run[2]].status, Truth[run[2]].answer>>,
       differ  |-> ~\E decided \in [Cases -> {went(run) : run \in runs}] :
                      \A run \in runs : went(run) = decided[run[2]],
       divided |-> \E x, y \in runs : x[2] = y[2] /\ told(x) # told(y)]

(* evaluate.                                                               *)
Scored(on, records, kept) ==
  [runs        |-> Cardinality(DOMAIN records),
   wrong       |-> \E run \in DOMAIN records : IsWrong(on, run, records[run]),
   stable      |-> IsStable(records),
   determinism |-> Determinism(on, records, kept),
   facts       |-> Facts(records)]

(* Harness.run: everything a suite can come to, by what it is on, how      *)
(* often it repeats and how many traces it finds.                          *)
Scores ==
  [on \in Contents |-> [n \in Repeats |-> [kept \in {0} \cup Repeats |->
     {Scored(on, records, kept) : records \in [(1 .. n) \X Cases -> Behaviours]}]]]

-----------------------------------------------------------------------------
EvaluationInit ==
  /\ file \in {d \in Artifacts : HashIsValid(d)}
  /\ suite = NoSuite
  /\ begun = 0
  /\ traces = [s \in Suites |-> 0]
  /\ evaluations = [s \in Suites |-> NoEvaluation]
  /\ approval = Unsealed

(* Somebody writes the artifact, sealing it, leaving the hash that was     *)
(* there, or leaving it out.                                               *)
Edit(document) ==
  /\ document # file
  /\ file' = document
  /\ suite' = IF suite = NoSuite THEN suite ELSE [suite EXCEPT !.disturbed = TRUE]
  /\ UNCHANGED <<begun, traces, evaluations, approval>>

(* A suite binds the artifact it reads to the port of the application.     *)
SuiteStarts(s, n) ==
  /\ suite = NoSuite
  /\ begun < MaxBegun
  /\ begun' = begun + 1
  /\ Readable(file)
  /\ suite' = [name |-> s, repeats |-> n, on |-> file.content, disturbed |-> FALSE]
  /\ UNCHANGED <<file, traces, evaluations, approval>>

Kept == [traces EXCEPT ![suite.name] = IF suite.repeats > @ THEN suite.repeats ELSE @]

(* The hash reported is read after the runs; without one it is the hash of *)
(* the bound copy, which names nothing on disk.                            *)
SourceHash == IF file.hash = Unsealed THEN "the bound copy" ELSE file.hash

SuiteEnds ==
  /\ suite # NoSuite
  /\ Readable(file)
  /\ \E score \in Scores[suite.on][suite.repeats][traces[suite.name]] :
       evaluations' = [evaluations EXCEPT ![suite.name] =
         [hash |-> SourceHash, score |-> score, on |-> suite.on, disturbed |-> suite.disturbed]]
  /\ traces' = Kept
  /\ suite' = NoSuite
  /\ UNCHANGED <<file, begun, approval>>

(* The artifact read again is tampered with, a run raises, or the process  *)
(* is killed, which may be while it writes the document: one that cannot   *)
(* be parsed is as good as none.                                           *)
SuiteIsLost ==
  /\ suite # NoSuite
  /\ \/ UNCHANGED evaluations
     \/ evaluations' = [evaluations EXCEPT ![suite.name] = NoEvaluation]
  /\ traces' = Kept
  /\ suite' = NoSuite
  /\ UNCHANGED <<file, begun, approval>>

-----------------------------------------------------------------------------
(* Slip: evidence of any content of this version will do.                  *)
MeasuredAnything(hash) == {s \in Suites : evaluations[s] # NoEvaluation}

(* evaluation_for: the documents of this hash,                             *)
Measured(hash) ==
  {s \in Suites : evaluations[s] # NoEvaluation /\ evaluations[s].hash = hash}

(* the first of those with the most runs.                                  *)
Best(found) ==
  CHOOSE s \in found :
    \A t \in found : \/ evaluations[s].score.runs > evaluations[t].score.runs
                     \/ evaluations[s].score.runs = evaluations[t].score.runs /\ s <= t

Evidence == evaluations[Best(Measured(file.hash))]

(* CapabilityApproval.recommend.                                           *)
Recommended(score) == ~score.wrong /\ score.runs >= 5 /\ score.stable

(* catalog_approve.                                                        *)
Approve(fromEval) ==
  /\ file.hash # Unsealed
  /\ HashIsValid(file)
  /\ fromEval => Measured(file.hash) # {} /\ Recommended(Evidence.score)
  /\ approval' = file.hash
  /\ UNCHANGED <<file, suite, begun, traces, evaluations>>

EvaluationNext ==
  \/ \E document \in Artifacts : Edit(document)
  \/ \E s \in Suites, n \in Repeats : SuiteStarts(s, n)
  \/ SuiteEnds
  \/ SuiteIsLost
  \/ \E fromEval \in BOOLEAN : Approve(fromEval)

EvaluationSpec == EvaluationInit /\ [][EvaluationNext]_evaluationVars

-----------------------------------------------------------------------------
(* An evaluation says what its runs did, whatever earlier suites left on   *)
(* disk (fresh_run_dir tells how that went wrong twice): it calls replay   *)
(* non-deterministic if and only if the decisions were not a function of   *)
(* the member.  Outputs are no decisions, so that runs which return one    *)
(* member's balance and then another's are deterministic; but where two    *)
(* callers were told two things of one member, determinism fails or a      *)
(* wrong action is counted.  A capability that masks its input is scored   *)
(* blind.                                                                  *)
EvaluationSaysWhatHappened ==
  \A s \in Suites :
    evaluations[s] # NoEvaluation /\ evaluations[s].on \notin Masked =>
      LET score == evaluations[s].score
      IN  /\ (score.determinism = "fails") = score.facts.differ
          /\ score.facts.divided => score.wrong \/ score.determinism = "fails"

(* An approval on the evidence rests on at least five runs of the very     *)
(* content it pins, none of which told what is not so, if nobody wrote     *)
(* the artifact while they ran (evaluation_for: callers making an approval *)
(* decision must pass the hash).                                           *)
ApprovedOnItsOwnEvidence ==
  [][Approve(TRUE) =>
       \E s \in Suites :
         LET e == evaluations[s]
         IN  /\ e # NoEvaluation /\ e.score.runs >= 5
             /\ e.disturbed \/ e.on = file.content
             /\ e.on \in Masked \/ ~e.score.facts.misled]_evaluationVars
=============================================================================
