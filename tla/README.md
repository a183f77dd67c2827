# Specifications of the computer-use automation system

TLA+ models of `src/src/cua`, the checks TLC makes on small instances of them and
the theorems TLAPS proves about them. Paths such as `broker.py:117` are relative to the
package directories of `src/src/cua`; `PROJECT.json` maps each definition to the lines it
translates.

To run a check: `tlc -config X.cfg MCX.tla`, as `PROJECT.json` pairs them. To run the proofs: `tlapm XProofs.tla`.

## 1. The system

A model discovers how to reach a goal in a back-office application; the trace is compiled
into a *capability* (a document of steps); a person reviews and approves it; from then on it
is *replayed* without a model. Where a replay meets something it cannot handle it asks for a
person: an operator takes over the live browser session in a web console, and gives it back.
Every action, whoever proposes it, passes one *chokepoint* that asks policy.

    model -> discovery agent -> recorder -> capability (YAML) -> catalog, approvals
                  |                                                   |
                  v                                                   v
            chokepoint: dispatcher + policy engine  <---------  replay executor <- assisted recovery
                  |      ^                                            |  NEEDS_HUMAN
                  v      | operator's gestures                        v
            surface driver          operator console  <------>  session broker: lease, queue, handoff

### Inventory

| Component | State it keeps | Operations | Talks to | What makes it correct |
|---|---|---|---|---|
| Lease (`hitl/lease.py`) | holder, control state, epoch, operator, expiry | escalate, claim, release, resume, reclaim_expired, assert_held | broker; executor reads its epoch | its fields agree; every transition opens a new epoch; a hold ends |
| Intervention queue (`hitl/intervention.py`) | requests: state, operator, actions, delta | open, claim, release, resolve, abandon, pending | broker, console | one taker per request; what was settled stays as recorded |
| Session broker (`hitl/broker.py`) | lease, queue, handoff record, escalation snapshot | escalate, claim, human_action, confirm_action, release, sweep, resume | dispatcher, evidence | the three objects tell one story after every call and every refused call |
| Console (`hitl/console/server.py`, `hitl/session_thread.py`) | thread pool, event loop, session thread and its work queue | claim, state (sweep), release + resume, live (gestures) | broker from several threads | every call is answered; gestures land in a held session; no session is lost |
| Replay executor (`replay/executor.py`, `classify.py`) | index, attempts, recovery count, outputs, epoch, parent run | run, resume, step loop, recovery, nested capability, checkpoint | dispatcher, broker | ends; respects its recovery total; success covers the plan and returns what was read |
| Re-anchoring (`hitl/reanchor.py`) | none | reconcile, diff_snapshots | executor, broker | nothing is repeated or left out after a handoff |
| Assisted recovery (`assist/recovery.py`) | one attempt per run | run | executor, model, dispatcher | the corrected step is neither repeated nor skipped |
| Discovery agent (`agent/loop.py`, `agent/stop.py`) | budget, trace, outputs, history | run | model, dispatcher | ends; budget is hard and adds up |
| Recorder (`recorder/compile.py`) | none | compile_capability | discovery, serde | the capability does again what the run did |
| Chokepoint (`runtime/dispatcher.py`, `policy/*`) | none (tokens are single-use) | observe, execute, authorize | everything that acts | what is dangerous needs what policy says it needs; nothing leads off the allowlist unreported |
| Catalog, approvals, bindings (`catalog/*`, `domain/approval.py`, `domain/tenant_binding.py`) | artifact and approval files | list, load, approve, revoke, apply, verify | command line, executor | an approval covers exactly what was reviewed |
| Targeting (`targeting/*`) | none | resolve, synthesize | dispatcher, agent | a description finds its own control or refuses; one of several is never picked silently; drift is reported |
| Predicates, waits, classification (`domain/predicates.py`, `replay/wait.py`, `replay/classify.py`) | none | evaluate, wait_for, classify | executor | an answer is not taken for a failure, nor a page that did not load for an answer |
| Binding, inputs, transforms (`replay/*`) | none | bind, validate, transform | executor | a reference that cannot be resolved is refused |
| Evidence (`evidence/*`, `domain/run_record.py`) | append-only trace, the filed record | emit, build record, reconcile | everything that acts | wherever the trace is cut, it accounts for what was done, by whom and under which grant |
| Redaction, secrets (`policy/redact.py`, `policy/secrets.py`) | none | text | every sink | — |
| Surface drivers (`surfaces/*`) | the browser, where frames landed and were refused | observe, dispatch, route | dispatcher | no navigation escapes the guard; what was refused is reported once |
| Perception (`perception/*`) | none | build a snapshot, fold a name | drivers, targeting | — |
| Evaluation (`evals/*`, `domain/evaluation.py`) | run directories, the evaluation on disk | run a suite, score, write | replay, approvals | a score is of what was run; an approval rests on runs of what it pins |
| Mock bank (`apps/mock_bank`) | session cookie, armed faults, the frame's page | sign on, search, record, sub-account, arm | the browser | faults are used up by the requests they fail |
| Command line, scripts, site | files | commands, reports | all of the above | — |

### What is hard here

- *Threads.* Claims and resumes run on pool threads; sweeps, releases and gestures on the
  session thread; the WebSocket waits on the event loop. The broker and its parts have no lock.
- *Time.* Holds lapse; a call to the session thread is given up after 30 seconds while its
  work stays queued; a run overruns its duration between any two steps.
- *Order of two changes.* The queue is changed before the lease agrees; a release and its
  resume are two calls; an artifact and its approval are two files read at two moments.
- *Carrying state across a handoff.* Outputs, recovery counts and the index survive only if
  every result and every resume passes them on.
- *What was checked and what is done.* The page runs by itself between an observation, the
  decision made on it and the input: it renames controls, moves them, navigates. An operator
  confirms one thing and the page shows another.
- *Slow and failing pages.* A click returns before its page is there; a fault may hit any
  request, a re-authentication's included; one screen can satisfy an answer, a recovery rule
  and an expectation at once.
- *What is on disk when.* The act comes before its event, the claim before its event; a suite
  runs for minutes while the artifact it measures may be edited; a suite begins in the
  directories an earlier one left.
- *What was recorded and what is there.* A control described today is looked for tomorrow on a
  page that has other rows, other names, other controls of the same name.

`PROJECT.json` lists these as hazards, each at its line, with the properties that catch them
or the reason none does.

## 2. The modules

| Module | Models | Notes |
|---|---|---|
| `SessionTypes` | actors, screens, deltas | shared by the modules about a session |
| `Lease` | `lease.py` | operators on one `lease` variable |
| `InterventionQueue` | `intervention.py` | operators on `requests` |
| `SupervisedSession` | nothing in the code: the **promise** | automated, waiting, held, returned |
| `SessionBroker` | `broker.py` | composes Lease and InterventionQueue, one call at a time; refines SupervisedSession |
| `Console` | `server.py`, `session_thread.py` | Lease and InterventionQueue again, with the broker's calls cut into the steps threads can interleave |
| `ReplayExecutor` | `executor.py` | a stack of one or two runs |
| `AssistedReplay` | `assist/recovery.py` | extends ReplayExecutor |
| `SupervisedRun` | executor + broker as `cli/demo.py` wires them | extends ReplayExecutor, instantiates SessionBroker |
| `Recorder` | `recorder/compile.py`, `recorder/naming.py`, `replay/inputs.py`, `replay/bind.py` | pure operators on a trace, by position |
| `Discovery` | `agent/loop.py`, `agent/stop.py`, `discover` in `cli/main.py` | extends Recorder |
| `Chokepoint` | `policy/engine.py`, `risk.py` under `config/policy.yaml` | pure operators on a request |
| `ApprovedReplay` | artifact and approval files, `_replay_once`, the gates | extends Chokepoint |
| `Targeting` | `targeting/*`, the descriptor in `domain/target.py` | pure operators on a page |
| `DriftingPage` | one target recorded by `agent/loop.py` and replayed by the dispatcher on a page that changes | extends Targeting |
| `Browser` | the route and the landed/refused lists of the Playwright driver; the page itself | extends Chokepoint |
| `Dispatcher` | `runtime/dispatcher.py` with both profiles of `policy/engine.py`, `policy/allowlist.py` | extends Browser |
| `Screens` | `domain/predicates.py`, `replay/wait.py`, `replay/classify.py` | pure operators on a screen |
| `MockBank` | `apps/mock_bank`, shown in the driver's one content frame | extends Screens |
| `ReferenceCapabilities` | the capability documents of `tests/fixtures/capabilities` and `evidence/capabilities` | extends MockBank |
| `FaultMatrix` | `executor.py` again, running these documents on the screens MockBank shows | extends ReferenceCapabilities |
| `Evaluation` | `evals/*`, `approvals.py`, `catalog_approve` | suites, edits and approvals of one capability version |
| `Evidence` | `evidence/*` under the dispatcher, the executor and the broker | extends Lease |
| `SessionBrokerProofs`, `ConsoleProofs`, `TargetingProofs`, `EvidenceProofs`, `FaultMatrixProofs` | theorems | each extends its component's module |
| `LifecycleProofs` | theorems of discovery and of evaluation: how a capability comes to be and to be approved | extends Discovery and Evaluation |
| `ReplayProofs` | theorems of the executor, of assisted and of supervised replay | extends AssistedReplay and SupervisedRun, which share the executor; instantiates `SessionBrokerProofs` |
| `ChokepointProofs` | theorems of approved replay and of the dispatcher | extends ApprovedReplay and Dispatcher, which share the policy engine |
| `MC*` | instances for TLC | |

A comment that begins with **Slip** introduces the mutated form of the definition that
follows it, a mistake that could plausibly have been made in that code. No specification
uses a slip; each property is shown to fail when one replaces its definition, so each
property says something about the code.

### How state and actions correspond to the code

*Lease, queue, broker.* `lease` is a record of the dataclass's fields; the clock is replaced
by a deadline that is `none`, `ahead` or `passed`, and `HoldLapses` moves it on (a claim with
a zero or negative `hold_for` is born `passed`). `requests` maps the ids that may ever be
issued to their requests. A snapshot is the screen it was taken of, a delta a pair of screens
or `NotCaptured`. A call that raises before changing anything is not a step; a claim that
raises *after* changing the queue (`ClaimOverflows`) is one, with the roll-back of
`broker.py:128-136` as part of it.

*Console.* `caller[c]` says where a thread is and what it has read, `inbox` is the work
queue of the session thread, `session` what that thread is doing. `queue.claim` and
`lease.claim` are each cut between their check and their write, since nothing protects that
interval; the handler on the event loop blocks it, so nothing else is accepted meanwhile. The
console is served after its run has ended (`cua console`), so the initial state is the one an
escalation leaves.

*ReplayExecutor.* `frames` is the `_State` of the run and, above it, that of a capability a
remedy runs. `at` is where the loop is. What a predicate, a resolution, a policy decision or
the surface answers is not modelled: for each answer there is an action. `spent`, `covered`
and `read` are ghosts: what was really attempted, done and read for the task, however often
it was resumed. `_fail` is `Fails`, with every place that calls it an action of its own.

*Discovery.* One step for the check at the top of the loop, one for observing and asking, one
per way a turn can end. `trace` holds the steps with what compilation can tell apart: the
tool, the label (or the output's name), the text, and whether it worked. `spent` is a ghost:
the sum over the `llm_call` events. `click` stands for every tool without a text of its own.
`ReplayOf` is what a compiled capability makes of a call: a refusal by `validate_inputs`, with
the pattern and type the compiler inferred from each text, or what its steps then type. Of a
text only its kind is kept (`Numerals`, `Identifiers`, `Decimals`, `Numbers`).

*Chokepoint and ApprovedReplay.* A request says whether it only reads, what tier the name of
its control suggests, the risk its step declares and the one on the action. A document is a
content and the content its hash is of, so a stale hash is a hash of other content. `Edit` is
external: anybody may write the file, with the right hash, an old one or none. `signed` is a
ghost: the content of the decision in force; `last` the action last let through.

*Targeting and DriftingPage.* A page is the sequence of its nodes in document order; each has
a role, a name, a row or none, a scope (frame, region) and a hint. A generator of
`candidates.py` is the set of positions it returns; `Nth` turns a place in its list back into
a position. `Resolve` is total: the exception is `Refused`. `AnchorFor` and
`SynthesizeDescriptor` follow `synthesize.py` case by case. In DriftingPage discovery records
one target, and resolves it at once whatever that shows (`loop.py:323,366`); then the page
changes by one node at a time, and each replay resolves again.

*Browser and Dispatcher.* `loading` is the navigation under way and how far the route is with
it; `landed` and `refused` are the driver's two lists. A call is observed for, resolved,
decided on, dispatched and reported in separate steps, and the page changes, navigates and
loads between any two of them. A control carries the tier its name suggests instead of a
name. `Reached` is what the input goes to on the page as it is then, `Hit` what policy took it
to be. `still`, `acted` and `asked` are ghosts: whether the page stayed as observed, what the
input reached, and which control a confirmation was asked for. `Observe` is the caller's: the
executor, the agent and the broker all observe and then execute.

*Screens, MockBank, FaultMatrix.* A screen is a url, a transport status and a set of nodes; a
pattern is the set of what it matches. The frame's `request` is answered by `Serve` at any
time after it was made; until then `content` is the old page, and it can still be used.
`failing` holds the urls whose last answer was an error, from which the status is made as
`driver.py:186-200` makes it. `stack` is `frames` of ReplayExecutor cut down to an index and
its attempts; `held` is the screen the loop looked at last and `seen` the one of the wait's
turn before. A deadline may pass at any time while a wait is unsatisfied; `hurried` is a
ghost that says one passed before the application had answered, `midway` one that says a
fault was armed during the run. The capabilities are those of `tests/fixtures/capabilities`
with the sign-on they name, one that waits for a predicate, and one as the recorder compiles it.
Each carries the actions it allows itself, which its remedies are checked against (`Permits`). A
record may leave a value blank: a control that reads as nothing is no value (`ReadsNothing`).

*Evaluation.* A suite is begun, may be disturbed by an edit, and ends or is lost; what its runs
come to is any assignment of behaviours to cases, scored as `scorers.py` does; a behaviour is the
decisions, the status and the answer, of which determinism looks at the first two and, unless the
run succeeded, the code (`DecisionTrace`). `Facts` is the reference definition of what the runs did,
kept beside the score. A wrong hash makes the artifact
unreadable, a missing one does not.

*Evidence.* `trace` keeps the events that say who did what and by whose leave, `surface` is what
was really done. `Dispatcher.execute` is cut at each event it writes, and between the act and its
event; a claim is cut between the lease and its event. The record says of each dispatch what
`build_run_record` gathers from the events before it. The process may die in any state: nothing is repaired on a
restart, so what a crash leaves is `trace` as it stands there.

## 3. What is checked

| Run | What it shows | Instance and why it is enough |
|---|---|---|
| `SessionBroker` | one story, final audit record, holds end, refinement of the promise | two operators (so that the wrong one can be named), two ids one after the other (so that a settled request can be disturbed by the next), two screens; epochs up to 9 let both interventions be claimed, lapse and be claimed again. 12,346 states |
| `Console` | every call answered, gestures land while held, orderly behaviour keeps the story and the promise | two pool threads, the loop, two operators, one intervention (a served console never gets a second), two claims, one time-out, one poll in flight. Two claims are the least that race, and a third thread would find the two others' states. 203,814 states |
| `AssistedReplay` | success covers the plan, the step the model performed is not repeated, recoveries stay bounded with the assistance, the run ends | a step of each kind with and without assertions, one rule with an action, one with a capability that recovers in turn; total 3 is less than the rules together allow, so both limits are hit. It contains every run of ReplayExecutor without resumes. 5,628 states |
| `SupervisedRun` | automation acts only when entitled; success covers the plan and returns what was read; one request per escalation | the same capability under a broker with two interventions, three runs or resumes, so that a resumed run can escalate and be resumed again. 334,403 states |
| `Discovery` | the budget adds up, is hard, the run ends; a compiled capability refuses a call or does what its run did with the arguments in place of the texts, and reproduces its run unless one of its texts is a number it refuses | one named control and an unnamed one; an account number, a number too short for the inferred pattern, a price and a text the goal does not have; four turns: enough for two inputs of one text, one field with two texts, a refused text and all five limits. 2,010,329 states |
| `ApprovedReplay` | nothing irreversible unreviewed, no surprises, gates and listing agree | three contents: harmless, irreversible, and a changed irreversible one; all bindings; two remedies. 276,504 states |
| `Targeting` | descriptions find their control or refuse, nothing is picked by its place, other names are drift | all pages of up to three of twelve kinds of node, and every one-node change of them: a label, a value and a control, two equals and a third, a frame and a region, names that fold together or to nothing. 138,884 states |
| `TargetingOrdinal` | **disagreement**: a position that means another control | as above |
| `Dispatcher` | the session stays on the allowlist, what is irreversible is answered for, refusals are reported, navigations arrive within the domains | two controls that swap names, disappear or move under the pointer, three hosts (one outside the capability's domains, one off the list), two calls and two spontaneous changes: enough for a question, a change and a confirmation, and for a refusal between two calls. 1,743,876 states |
| `FaultMatrix` | whatever is armed and however long pages take, the caller is told the truth about the member it asked about or that it is not known; each fault of the documented matrix leads to the documented answer | five members: one for each thing a record can say, and one whose status is blank; each fault armed once or for ever, in any combination before a run, and one more during it; valid and wrong secrets, with and without a session; four capabilities. 1,414,336 states |
| `Evaluation` | whatever earlier suites left, replay is called non-deterministic exactly when its decisions were not a function of the member, and two answers about one member are seen by one score or the other; an approval on the evidence rests on enough runs of what it pins | two cases, five ways a run can go that differ in decisions, in status and in the answer alone, one or three repeats (two and six runs, on either side of the five an approval needs), two suites, any edits. 790,404 states |
| `Evidence` | nothing past policy, and the reconciliations agree; the record tells who did what and under which grant, missing at most the act in flight; what is filed when a run ends tells, in its place, all that automation did | two controls (interchangeable: symmetry), one operator, two runs, three actions, two claims: enough for a refusal on a stale epoch, a hold that lapses, a second hold and a run that begins while a person holds. 293,416 states |

Bounds are named where they cut: `MaxEpoch` (no claim at that epoch or later) and
`MaxActions` (gestures counted per hold) in SessionBroker; `MaxClaims`, `MaxTimeouts`, one
poll in flight and one counted gesture per hold in Console; `MaxRuns` in SupervisedRun;
`MaxNodes` and `MaxChanges` in DriftingPage; `MaxBegun` (suites) in Evaluation; `MaxRuns`, `MaxCalls`,
`MaxEpoch` and one claim in flight in Evidence; one arming during a run in FaultMatrix; predicates
nested at most two deep (`NestingBound`) in Screens, which is as deep as a document has them; `MaxChanges` (of the page by itself) and
`MaxCalls` in Dispatcher.
`MaxRecoveryTotal`, `MaxSteps`, `MaxTokens`, `MaxUnchanged` and `MaxDenials` are the program's own limits, at small
values. `CHECK_DEADLOCK FALSE` is given where the system may really stop: a broker whose ids
are used up, a console nobody calls, a task whose runs are over, a discovery run that ended, a page
whose changes and calls are used up, a session whose runs, actions and claims are.

### Fairness

- *SessionBroker*: weak fairness of `HoldLapses`, `Sweep` and `Resume`. Time passes; the open
  console page polls `/api/state`, which sweeps (`server.py:135-149`); the release endpoint
  calls `resume` itself. No person is obliged to do anything.
- *Console*: a thread that has work runs. Arrivals, time-outs and lapses may never happen.
- *AssistedReplay*: weak fairness of a replay under way: it is one thread, and each turn of
  its loop ends. Nothing obliges a caller to start one or the model to answer.
- *Discovery*: the same for the loop, so that `EveryDiscoveryEnds` rests on the count of turns alone and not on the clock.

The other specifications make no liveness claim and state no fairness.

## 4. What is proved

For all values of the constants, from the named assumptions on them:

| Module | Theorems | Argument |
|---|---|---|
| `SessionBrokerProofs` | `BrokerTypeCorrect`, `LeaseIsCoherent`, `BrokerTellsOneStory` | One inductive invariant, `TypeOK /\ LeaseCoherent /\ OneStory`. None of the three is inductive alone: that a sweep leaves exactly one claimable request needs that the held one was the handoff's, and that needs the lease's fields to agree. |
| | `BrokerImplementsPromise` | Under the same invariant each action maps to the promise's step, or to a stutter (gestures, automation's actions, the overflowing claim). `ObservedFromTheQueue` says what the queue shows in each lease state; the epoch maps to the generation, so no hold is taken for another. |
| | `SettledRequestsAreFinal` | The action property, step by step, from the invariant. |
| `ReplayProofs` | `RecoveriesStayWithinTotal` | `Counted`: the run's stack is well formed and whichever frame is on top carries the count of the whole task. Needed because a nested run starts from its parent's count and writes its own back. |
| | `OneRunReturnsAllItRead` | `Stacked` says where each frame can be, and every step then has one of few shapes (`Shaped`: it ends short, succeeds, or goes on by staying, performing or moving on), shown once and used by all that follows. `Keeping`: what a run carries is what its task has read. |
| | `AssistedRecoveriesBounded` | `AssistedCounted`: `Counted` with a base, what was spent before the replay under way began. The base is 0 until the model has been asked and at most the total after, and the model is asked once. |
| | `AssistedSuccessIsWhole`, `CorrectionIsNotRepeated` | `AssistedInv`: what lies behind a run was done for its task or is the step the model performed (`Covering`), and that step is behind every run that follows (`Corrected`). |
| | `SupervisionIsByTheBroker` | Each step of a supervised run is a step of SessionBroker or leaves the session alone, so the broker's inductive invariant, taken from `SessionBrokerProofs` by INSTANCE, holds in it and is not proved again. |
| | `SupervisedSuccessIsWhole`, `OneRequestIsLeft`, `OnlyTheEntitledAct` | `SupervisedInv`: the broker's invariant, `Covering`, and `Entitled`: a run whose session is away stands before the check of its epoch. That no step skips the check is what makes automation act only when entitled. |
| | `ResumedRunsReturnAllTheyRead` | `Keeping` under resumes, from the hypothesis `ReadingsAreRedone`: no reading step declares a postcondition, or a run that cannot re-anchor does not ask for a person. Without it the property is false (see "a refreshed budget" below). The steps of a compiled capability satisfy it. |
| `LifecycleProofs` | `BudgetAlwaysMatchesTrace`, `RefusalsAreStalls`, `BudgetStaysHard`, `PolicyWallIsUnreachable` | `Accounted`: budget and trace agree, refusals are stalls, and a call is made only below the token limit. The last theorem assumes `MaxUnchanged <= MaxDenials`, as the defaults have it. |
| | `CompiledRunsAreReproduced` | Traces of any length. An input is found by the text it stands for because, of the names lifted with a text, one was lifted last (`NamesAreFound`, by least and greatest elements of sets of positions); so each compiled step types the argument of an input observed with its text (`ValuesAreBound`), which for the run's own texts is that text. The reference that the code takes where two inputs share a text is one of those the property allows; that the other input is then ignored is in section 5. A text is refused only as a number of a kind the compiler does not expect (`LiftedFromCompiled` finds the step that typed it). |
| | `EvaluationsAreTrue`, `ApprovalsRestOnTheirOwnRuns` | `DifferenceIsFound`: runs of one member that decide two things are a pair that is compared, since nothing of an earlier suite is in a trace; `DivisionIsSeen`: of two answers about one member at most one is the true one, so the other is counted wrong or the decisions differ. `Grounded`: a score on disk was made of the runs of one suite, of the content the document names unless somebody wrote the artifact under them. Of the documents about one content one has the most runs (a largest element, which exists since each counts its runs). |
| `ChokepointProofs` | `NothingIrreversibleUnreviewed`, `NothingSurprises` | `Signed`: a decision that approves names the content it was taken about; a run under way carries an artifact, its product under the binding, and such a decision. With `GrantedWasSigned`, a grant that policy accepts then leads back to what a person signed, although the files may have changed since. |
| | `TheGateCoversTheRun`, `TheListingMatchesTheGate` | `Gated`: a run under way passed the gate with the artifact it carries. `GateCoversStep`: what the gate makes of all steps at once is at least what policy makes of each as it comes. The listing and the gate read the same two files by different code and ask the same of them. |
| | `DispatcherTypeCorrect`, `SessionStaysOnList`, `IrreversibleAlwaysAnswered`, `RefusalsAreReported`, `NavigationsArriveWithin` | Two facts carry the rest: a loading that has passed the guard is on the allowlist and the page is where it landed last (`Vetted`), and while the page has stayed as observed what was permitted is permitted of the page as it is (`Decided`). `PermittedIsAnswered` then says what the chokepoint asked for, with `IrreversibleNeedsGrant`. A navigation answered ok has landed, so its page is among the destinations judged. |
| `TargetingProofs` | `ResolutionTypeCorrect`, `DescriptionsFindTheirControl`, `OtherNamesAreReported` | Pages of any length. What a rung offers is part of the pool (`CandidatesInPool`), and the n-th of a finite set of positions is one of them (`NthExists`); the latter is shown by taking a smallest counterexample, since induction is not available. By a unique name the first rung offers exactly the recorded node; by the label of a row, the node itself is always among the candidates, so a single candidate is it. Below the second rung every choice counts as drift from the first. |
| | `NothingIsPickedByPosition` | A page read backwards offers at every rung the same nodes in the opposite places (`RungsIgnoreOrder`), so where no ordinal and no "adjacent to" is asked for, the same rung decides, with a single candidate or none. |
| `ConsoleProofs` | `GesturesAreHeld` | `Shape`, which every console keeps, orderly or not: whom each piece of work is for, and that the session thread begins a gesture only in a held session and nothing takes the hold away before it lands. |
| | `BetweenCallsOneStory`, `OrderlyConsoleKeepsPromise` | `Story` is what a thread may still rely on at each place between its reads and its writes (`Relies`, `SessionRelies`), and where queue and lease disagree, which thread is on its way to settle it (`Settling`). It is claimed of orderly consoles only: no overlapping claims, no call given up. Quiet, nobody is on the way, so the objects agree. |
| `EvidenceProofs` | `NothingGotPastPolicy`, `TakeoversAreAuditable` | Traces of any length. What a record says of a dispatch depends on earlier events only, so appending keeps it. The invariant says which epochs were people's (`Holds`), what the call in flight has written (`UnderWay`), that each act's decision is on disk (`Granting`), that the dispatches list the acts in order but for the one in flight (`Listed`), and that nothing of automation's comes after what was filed at its end (`Kept`). |
| `FaultMatrixProofs` | `Truthful` | Any members, records and printed values, any faults armed before and during the run, and pages that take as long as they take. Replay goes on only when the page it acted on has been answered (`NoneInFlight`): the waits of these documents compare the screen with the one acted on, which is still there, whole, until the answer. So what is pressed and read is on the page that is there; a page that tells something of a member is about the one asked about (`ContentTells`), since every request is (`RequestTells`); what lies behind the run has been read from such a page (`ReadSoFar`), and the form has been sent at most once, after which no page denies it (`OpenedOnce`). A value that reads as nothing ends the run, and so does a remedy the capability does not allow itself; neither is told as an answer. A negative answer is given from such a page, with no request under way that could still change what it says. |
| | `Matrix` | `Tracked`: a look-up with one fault armed, or none, is in one of five stages (about to ask for its first page; told that the application is down; in front of a notice; signing on again, step by step of the remedy; on the way to its answer), each with the page that is there, what is typed in it, what is still armed and how often the remedy was tried. Needed because the matrix says nothing before the end. Each step leads from stage to stage, or ends the run as what was armed owes (`Owed`), which for a record with a blank value is ACTION_FAILED. The waits are where this could go wrong: a navigation is noticed by the number of nodes only, so the pages are counted (`SearchForms`, `SignOnForms`, `Refusals`, `Records`). |

The assumptions say that the "none" values are none of the real ones, that limits are natural
numbers, and of Evaluation that the cases are finitely many and that the bound copy and a missing
hash are no content of an artifact. `BankAssumption` says what kinds of record there are
and that an empty field is no member's number (inputs match `^[0-9]{4,10}$`), and
`PrintedAssumption` that no page prints, as a value, one of the texts screens are told apart by: with a
member whose status read "No records found", `text_present` would take its record for the page that
says so. A value may be blank, except the date, which the server fixes (`server.py:39`). SupervisedRun assumes what the broker assumes. `ReadingsAreRedone`,
`MaxUnchanged <= MaxDenials` and `MaxRecoveryTotal # 0` are hypotheses of their theorem alone. The last is
needed: nothing in `policy/config.py` forbids a total of 0 (the default is 6), and with it a page that
fails once already exhausts the recoveries.

Only model-checked: the liveness properties (`EveryHoldEnds`, `EveryCallReturns`,
`EveryReturnResumes`, `EveryRunEnds`, `EveryDiscoveryEnds`), which are outside what the proof
system handles. Every invariant and every action property of a passing run is proved.

`RecoveriesWithinTotal` is proved of the executor alone, in runs without resumes; with them it
is false (see "a refreshed budget" below), and `RecoveriesBounded` is what remains of it under
assistance.

## 5. Where code and documents disagree

The first has a run that shows it.

1. **A position counted in one list and looked up in another** (`TargetingOrdinal`). The
   last-resort descriptor keeps a name that is not unique beside an ordinal counted over all
   controls of the role; the resolver applies the ordinal to the candidates of that name. With
   the buttons edit, save, save, the first save is recorded as number 1 and found as the
   second. `synthesize.py:133-134` says the ordinal means on replay what it meant at discovery.
   Discovery sees it (`descriptor_verified`), warns the model, and acts on the other control.

Met while modelling, without a run of their own.

Sessions and replay:

- *Two overlapping claims*: `broker.claim` reads the request's prior state, then `queue.claim` and
  `lease.claim` each check and later write, all on pool threads. The claim the lease refuses puts
  the request back to open while the other operator holds the session; `control-transfer.md:48-49`
  says a failed claim leaves no trace. `QuietOneStory` excludes it with `overlapped`.
- *A confirmation of something else*: `confirm_action` (`broker.py:190`) observes and hit-tests again, so after a
  change of the page the confirmation sets off whatever irreversible control is there now.
  `ws.js:75-76`: "what is confirmed is what was shown".
- *A release that times out*: the release endpoint gives up after 30 seconds
  (`session_thread.py:78-81`) and never calls `resume`; the work runs later, and nothing takes
  the session out of RESUMING. `QuietOneStory` holds of sessions without time-outs only.
- *A resume that navigates*: `_execute` loads the entrypoint when `start_index == 0`
  (`executor.py:361`), which a resume at the first step has; its docstring (`executor.py:229`)
  says it does not.
- *A refreshed budget*: a resume that cannot re-anchor answers from a fresh `_State`
  (`executor.py:252-256`), so the next resume starts with no recoveries spent and no outputs;
  `executor.py:245-247` says a resumed run cannot refresh its budget and returns everything it read.
  With a reading step that declares a postcondition, and "unexpected_state" among the triggers, TLC
  finds `SuccessReturnsAllRead` violated: the second resume skips the reading its postcondition shows
  done. Capabilities as compiled declare none there (`ReadingsAreRedone`).
- *An annotation nobody reads*: `declared or action.risk` (`risk.py:77`) never gets to the second,
  since the executor passes the step's risk, which is `safe` by default; `action.py:76` calls it
  one of the three signals.
- A key automation presses without a target goes to whatever has the focus and is classified as
  if it went nowhere (`press_key`'s target is optional, and without one `risk.py:66` has no name to look at);
  `IrreversibleIsAnswered` leaves it out by its last condition. An operator's Enter in a focused
  text field is likewise about the field, not about the form it submits.
- The server accepts `confirm: true` for a gesture it never asked about (`server.py:217`); the
  console's own page never sends one.
- `driver.py:112-114,314-322`: `_vetting` is zero between the hops of a redirect and the wait for
  it is bounded, so a refusal or a landing a moment later is not in the report of the click that
  caused it. A refusal is reported by the next call, which is then answered "denied" for it; a
  landing on a host that is allowed but outside the capability's domains is not reported at all.
- `synthesize.py:96-98` skips data to find a label further left; `adjacent_to` then reads the
  first cell after that label, which is the datum skipped. Discovery notices as above.
- `candidates.py:97,214`: a name that folds to nothing is matched by every node without a name.
- `assist/recovery.py:124` resumes with the outputs of a FAILED result, which carries none:
  what was read before a PRECONDITION_FAILED is lost (`executor.py:245`: "a resumed run returns
  everything it read").
- `assist/recovery.py:120` passes no `prior_recovery_attempts`: the correction refreshes the budget, once (`RecoveriesBounded`).
- `broker.py:140,211`: the delta is taken against the screen of the escalation, also for a
  second hold after a lapse, while the docstring of `release` speaks of what the operator did.
- `broker.py:271`, `intervention.py:30-31`: a claim that falls between a sweep's two changes
  leaves a paused session whose request is claimed. `QuietOneStory` excludes it with `overlapped`.
- `stop.py:31-32,64-67`: with the default limits the stall limit is always met first, so a policy wall is
  never reported (theorem `PolicyWallIsUnreachable`).
- `loop.py:119-120`: "One nudge, then treat it as a dead end"; the code nudges until
  `max_unchanged_steps`.
- `capability.py:361`: a goal-met run that used one control twice compiles to two steps of one
  id, and the command raises instead of writing a draft. `discovery.py:92-99` names "a field typed
  twice" among what compilation leaves out, but the filter keeps it.
- *A capability that refuses its own text*: whatever is typed as digits is lifted under
  `^[0-9]{4,12}$` (`naming.py:80-90`, `compile.py:244`), so a run that typed 123, an amount of 500 or a
  signed number compiles to a capability that answers INPUT_VALIDATION_FAILED to that text;
  `naming.py:83-86` calls the pattern deliberately loose on length. `ReplayReproducesRun` says which
  texts are refused, and the short number of the Discovery instance is one.
- *An argument nobody types*: two fields typed with one text become two required inputs, and both
  steps refer to the one declared last (`compile.py:306`); the docstring of `_lift_inputs`
  (`compile.py:211-212`) names an argument that is accepted and ignored as what it avoids.
  `ReplayReproducesRun` asks for the argument of some input observed with the text.
- `compile.py:228-229`: a second goal value typed into a field of the same (or no) label stays a literal.

Screens and faults:

- *A remedy that is not allowed*: `open_subaccount.yaml:189-196` declares a reload for a gateway error
  ("Re-fetch and continue"), and line 203 leaves `reload` out of `allowed_actions`; `engine.py:133-139`
  denies it and the run ends FAILED with POLICY_DENIED at the first 502 (`executor.py:641-651`), as it
  does in FaultMatrix. `config/policy.yaml:37-39` tells of the same omission in the global list.
  `AsTheMatrixSays` speaks of the two look-ups, which allow it; `TheTruthOrNothing` holds of all.
- `error-taxonomy.md:23-31` gives the order "precondition/checkpoint" first; `classify` asks the
  declared outcomes first, then the recovery rules, and says so. The code's order is the one
  `AsTheMatrixSays` needs.
- What a wait looks at is not classified. A predicate wait or a postcondition that a negative
  answer's screen does not satisfy ends in TIMEOUT or PRECONDITION_FAILED, and the answer is not given.
- A session that expires at the submit itself: signing on again shows the search form, which the
  next step does not expect, so the run ends in UNEXPECTED_STATE, where `design/error-taxonomy.md:98` and
  `runbooks/run-a-replay.md:36` say re-authenticated and SUCCESS. `AsTheMatrixSays` asks for an
  answer when the expiry is armed before the run, which the first step meets.
- A wait for a navigation counts urls and nodes (`wait.py:65-70`): a page with the url and the number of nodes of the
  last is not noticed. The default wait, for two like looks, is satisfied by the old page.
- `{$output}` in a predicate is looked up among the inputs only (`predicates.py:272-281`).
- `RecoveryRule.scope`, its backoff and `Outcome.terminal` are read by nothing; the attempts of all
  rules of a step are one count, compared with the limit of whichever rule fires.
- A capability as compiled reads the date by its exact text, which holds for one day.

Evaluation:

- Determinism leaves the outputs out (`scorers.py:131-155`): two runs of one member that decide alike and
  return two balances are deterministic. `EvaluationSaysWhatHappened` says what is true: decisions
  only, and of two answers about a member of the truth table one is counted as a wrong action.
- `recommend` never looks at determinism, although `approval.py:72` names
  `is_trustworthy`, which does, as its threshold; nor at dispatches that were not authorized.
- `suites.py:123,212` read the artifact's hash after the runs: an edit meanwhile credits them to
  another content. `ApprovedOnItsOwnEvidence` excludes it with `disturbed`.
- `evaluation_for` takes the document with the most runs: a smaller one of the same content with a
  wrong action is not looked at.
- Sensitive inputs are masked before they are scored, so no answer is ever found wrong for them.

Evidence:

- A `resolve` whose call then failed, was denied or has to be confirmed stays pending
  (`record.py:105`) and is attached to the next dispatch without a target of its own, which may be a
  person's. `TakeoverIsAuditable` asks for the control only where there is one.
- `recorded_strategy` is emitted nowhere, so the drift score of a record is always 0.
- A release's event counts gestures that were refused among its actions, the record only those dispatched.
- The bus numbers events without a lock while a claim's event is written by a pool thread, so two
  events may have one number.
- `run_record.json` is written when the run ends, so what the operator did afterwards is in it only
  after a resume has written it again; the console serves that file. `TakeoverIsAuditable` promises
  automation's acts only.
- A torn last line makes `read_events`, and so every record of that trace, raise.

The console's page (not modelled):

- A poll under way when the operator claims answers with the state before, and disconnects the
  live view; the old socket's `onclose` then clears the new one (`ws.js:31-34`, against its
  comment at 6-8).
- A page that loads slowly overwrites the clean-up of the next: listeners are kept and keys sent twice.
- Confirmation dialogs stack, so one OK may answer several; keys typed meanwhile are forwarded.

## 6. What is not modelled

- In the broker and the console a gesture is authorised by the lease alone; what policy then
  makes of it is in Dispatcher, which has no lease.
- In Dispatcher: frames other than one, URLs beyond their host, the patterns of the allowlist,
  the restrictions on action types, `reload` and `scroll`, the single-use token, double clicks.
- In Targeting: the match modes CONTAINS and REGEX, cells nested in cells, the vision rung (which
  has no generator), the ambiguity score and the fingerprint, which decide nothing.
- Folding of text and the syntax of patterns in predicates. In ReplayExecutor the checking of
  supplied inputs and the transforms, which answer arbitrarily there; Recorder has the checking for
  inputs as the compiler declares them, so without defaults and enumerations.
- In FaultMatrix: the menu frame and what is outside the content frame, tenant variants, run
  durations, what policy says of the steps (every step of these capabilities is allowed; a reload
  is asked about), and a step that acts
  while a request is under way, which the waits of these capabilities exclude.
- In Evaluation: figures that are reported and decide nothing; a single capability version; the
  browser and the application behind a run, which are in FaultMatrix.
- In Evidence: snapshots, screenshots, timings, outputs; the queue's requests; two bus writers at once.
- How a snapshot is read from a browser, and the desktop driver, which is a stub.
- Redaction and secrets: text substitution and look-ups in the environment, without a state.
- Generated tests (`recorder/codegen.py`), parsing, printing, scripts and the site.
- The console's page: it holds no authority, and Console lets any call come at any time.
- Shutdown of the session thread; screenshots; origin checks of the console.
- A page that changes under the executor's whole run: there any answer is possible at any
  observation. The page itself changes in Dispatcher and DriftingPage.

## 7. Plan

Done: (1) lease, queue, broker, promise; (2) console; (3) executor; (4) assisted and supervised
runs; (5) recorder and discovery; (6) chokepoint and approved replay; (7) targeting on a drifting
page; (8) the dispatcher on a live page; (9) screens, the back office and the fault matrix;
(10) evaluation and approval on its evidence; (11) the evidence trail; and the proofs of every
safety property.

Next, in this order:

1. **The lease at the dispatcher**: the operator's calls of Dispatcher under the broker's lease,
   with the confirmation carried between two of them, a hazard no property covers yet.
2. **Several frames** in Browser: a navigation in one, an observation stitched from all.
3. **FaultMatrix as an instance of ReplayExecutor**: the screens' answers are among those the
   executor is specified with; a refinement would say so.
