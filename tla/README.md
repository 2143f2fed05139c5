# TLA+ models and proofs of LBAH

LBAH ("load-bearing agent harness") wraps an LLM agent: the agent proposes, the
harness decides, executes, records and verifies. These modules model what the
harness promises of that (what it lets through, what it commits to, what its logs
and files retain), whatever the agent, its tools and the test commands do. Paths
below are relative to `src/lbah/` unless they start with `src/`.

Contents: [1 The system](#1-the-system), [2 Modules](#2-modules),
[3 Runs](#3-runs), [4 Proofs](#4-proofs),
[5 Abstractions and limits](#5-abstractions-and-limits),
[6 Disagreements](#6-disagreements),
[7 Not modelled](#7-not-modelled).

## 1 The system

There are two harnesses with a design in common: a *ledger* of concerns or
variables, an append-only *log* of events the ledger should be the projection of, and
*gates* between a proposal and its execution. Around them stand evaluations that run
one of the harnesses many times and leave directories of files. Within a harness
nothing is concurrent: one thread calls the agent, the workspace and the verifier in
turn. What makes them hard is everything outside that thread (agents that answer
anything or raise; commands and tests that write files, fail or do not start), the
number of places that change one ledger, the double bookkeeping of ledger and log, and
for the evaluations several processes on one directory, killed at any point.

### The coding harness (`coding/`)

| Component | State | Operations | What must hold |
|---|---|---|---|
| Run loop (`runner.py`) | step counter, trace, last checks | propose, apply to the ledger, execute, observe, gate a finish, verify at the end of the budget, fail closed | a success is of a verified tree; a marked diff is never returned; the run ends |
| Ledger (`ledger.py`) | concerns by id, observations | `from_task`, `append_concern`, `apply_action`, `apply_observation`, `unresolved` | nothing recorded is lost; feedback is answered by the agent or by tests, not by another finish |
| Event log (`events.py`) | events numbered by `seq` | append, `project`, fork, bootstrap from a ledger | folding the log gives the ledger |
| Certificate and mirror (`certificates.py`) | none | events from a before and an after of the ledger; gates and decision of a result | log and ledger agree after each mutation; the certificate never allows what the run refused |
| Workspace (`workspace.py`) | files, baseline snapshot | edit, command, diff, modified files, `restore_baseline` | result and diff are the tree's; a wipe leaves no diff |
| Verifier (`verifier.py`) | none | five checks, hardened tests | the verdict is about the tree the tests left |
| Recursive run (`recursive.py`, `task_tree.py`) | children's results | run each child, validate, reduce into the ledger, hand over | no success without every child; no report lost |
| Tournament (`tournament.py`) | candidates, target | run candidates in copies, select, copy files, verify again | only a verified candidate reaches the target, whole or known to be part |
| Capture and replay (`core/replay.py`, `coding/replay.py`) | two streams of envelopes with a cursor each | capture, serve on a matching request, mismatch | a replay does what the run did, or stops |
| Agents (`agents.py`) | counters | script or model to actions | an answer that is no action costs a step, not the run |

Interactions: the runner calls the agent with a state that contains the ledger and
`workspace.inspect()`; it applies the action to the ledger and mirrors the difference
into the log; it executes the action in the workspace, where `finish` calls the
verifier, which runs the tests *in that workspace* and then reads files and ledger; the
observation goes back to ledger and log, and to the next prompt. The result gets a
certificate computed apart from the verdict. The tournament and the recursive runner
construct such runs and pass ledgers and workspaces on.

### The concern harness (`core/`, `modules/`, `environments/`)

| Component | State | Operations | What must hold |
|---|---|---|---|
| Loop (`core/runner.py`) | step, environment state, last payloads | turn: propose, audit, decide, execute or refuse, merge surfaced variables | no unsound proposal executed; every run ends; one ending |
| Ledger (`core/ledger.py`) and log (`core/events.py`) | variables, events | merge, refresh, project, fork, lineage, diff | log equals ledger; lineage and diff tell the truth about it |
| Gate modules (`modules/`) | none | transport, orchestration, proxy, reopen, validators, gauge probe | a gate's failure weighs as the decision assumes; the probe's verdict is earned |
| Decision (`core/certificates.py`) | none | gates to a certificate, `decide_from_gates` | hard failures cannot be averaged away |
| Environments (`environments/`) | their own step and done flag | execute, block, done | see loop |

### The evaluations

| Component | State | Operations | What must hold |
|---|---|---|---|
| SWE-bench evaluation (`coding/swebench*.py`) | working copies, files of an output directory | prepare, plant a leak, seal, run, test, classify, write, be killed and start again | no run starts on a leftover; a verdict is about the patch that is submitted; summaries come last |
| Experiment arms (`src/scripts/run_*.py`, `coding/official_swebench.py`) | a directory for each arm, the working directory they share | prepare, generate, grade, probe, move the report, reuse, summarize | files of one arm are of one launch; no arm gets another's report |
| Candidate matrix (`coding/swebench_candidates.py`) | one directory, rewritten | generate, package file by file, grade, select from reports | the manifest is never newer than its files; more reports are never worse |
| Contamination probes (`coding/contamination/`) | a ledger an agent may edit, rows, a results file | perturb, commit again, compare, publish | the flag follows the policy, not the wording |
| Autoresearch (`eval/autoresearch.py`) | trials, best point, event log, two files | measure the baseline, gate each point, promote, write | the promotion is the best that passed; the log tells it |

`PROJECT.json` lists all components with their status, and under `hazards` what can go
wrong in each at which line, with the properties that would notice it.

### Hard behaviours

- *Order of verification*: tests run before the checks that read the tree and may write
  to it; hardened tests run after them; the contamination gate after a verified finish.
- *Derived state*: log events are derived from ledger differences, several fields of a
  concern can change together, and several mutations happen in one turn; a verdict and
  its certificate are derived from different evidence.
- *Error paths*: an exception of the agent or of an action costs a step, one of the
  verification at the end of the budget costs the run, one of a file copy leaves a
  half-patched target, a failed model call leaves no envelope, a validator that raises
  has failed.
- *Crashes*: evaluations are killed between two files and started again over what is
  there.
- *Budgets*: every refused, blocked or failed turn has to consume a step.
- *Numeric decisions*: products of weighted means next to hard thresholds; thresholds
  computed in doubles and compared with literals.

## 2 Modules

```
 Workspace ── Verifier ──┬── Tournament                   VerifiedCommit (abstract)
                         │                                      ▲ refines
 CodingLedger ── CodingEvents ──┬── CodingRun ──┬── RecursiveRun│
                                │       └───────┼───────────────┘
                                └── CodingLog   └── FinishCertificate
 Gates ── HarnessLoop          Replay          SweBenchEval
 ExperimentArms ──┐
 CandidateMatrix ─┴── Experiments
 ConcernEvents ── GaugeProbe ── Contamination ──┐
                                 Autoresearch ──┴── MCGaugeProbe
```

(A line is EXTENDS, from left to right; Experiments and MCGaugeProbe put modules
without common state side by side.) Names of operators and variables are the
source's where TLA+ allows it; `map` in `PROJECT.json` gives the lines of each
definition. Definitions commented "Variant:" are plausible wrong versions of the
definition after them: no specification uses them, and each is there to be put in its
place, to see that a property notices.

**Workspace, Verifier.** A tree is a function from files to contents, with values for a
missing and an undecodable file. The snapshot's treatment of those two, the comparison
of texts by `modified_files` and of lines by `diff`, and the file by file
`restore_baseline` are modelled as they are, since they differ. The result of a test
run is a pair of outcome and tree, `TestRuns[t]` any set of them.

**CodingLedger, CodingEvents, CodingLog.** The ledger is a function from ids to
concerns, with one operator for each method. `MirrorDelta` is
`mirror_ledger_delta` followed by projection; `CodingLog` keeps the actual sequence of
events next to it and shows the two equal, so `CodingRun` can do without the sequence.

**CodingRun.** `CodingHarnessRunner.run_with_ledger`. `pc` is the point in the loop:

| `pc` | Code | Actions |
|---|---|---|
| `propose` | top of the loop | `Propose`, `ProposeMalformed`, `ProposalError`, `ExhaustBudget` |
| `execute` | `_execute` and the observation | `ExecuteRead`, `ExecuteEdit`, `ExecuteCommand`, `ExecuteTests`, `ExecuteFinish` |
| `gate` | after a finish | `GateBlock`, `Accept`, `Refuse` |
| `exhausted` | verification after the loop | `VerifyAtBudget` |
| `fail_closed` | before the return | `FailClosed`, `ReturnAtBudget` |

The action after the proposal contains everything the code does up to the next
choice: ledger, mirror, trail and counter together.

**VerifiedCommit** says what a run promises someone who sees the tree and the verdict
alone: one verdict, an accepted tree is acceptable *as it stands*, whatever leaves is
submittable, nothing moves afterwards. CodingRun implements it under the mapping
`commit <- tree`, `verdict <-` the result. Where another module starts a coding run
(Tournament, SweBenchEval) it uses what VerifiedCommit lets out of one.

**FinishCertificate** adds to CodingRun what the trace validators read off the trace and
the certificate made of it when the result is made: `Enter` accompanies an executed
action, `Certify` a return, both conjoined with CodingRun's own step. Verdict and
decision are reached from different evidence, and the properties relate the two.

**Tournament** takes any VerifiedCommit outcomes as candidates and models selection,
copying, the two verifications of the target, and the copy that raises half-way.

**RecursiveRun** extends CodingRun by the phase before it: children's reports are
validated and reduced into the ledger, and the parent's log is bootstrapped from the
ledger they left.

**Replay** runs a captured run and then its replay. A request is the step, the last
observations and whether files are modified; the request, not the action, decides what
is served.

**Gates, HarnessLoop.** The concern harness. The gates are operators from ledger,
proposal and history to lists of weighted verdicts (`ValueGates` and `HandoffGates` of
transport, `ProxyGates`, `ReopenGates`, and `Valid` of the validators); the decision is
theirs, in exact integer arithmetic (products are cross-multiplied). One turn of the loop
is one action, per decision. The five shipped environments are constants of the model
(`ToolUseEnv` to `BrowserEnv`), any of which a behaviour may start in. `Merge` is `merge_variables`,
which refreshes a variable in place and puts a new one at the end, as a mapping from the
positions of the new ledger.

**SweBenchEval** is one process of `lbah code swebench --official` and the one started
after it was killed: `pc` names the step of `prepare_swebench_workspace`,
`run_swebench_instance` or the writing of a file, one action each, and `files` records
which attempt wrote each file.

**ExperimentArms** is a directory for each arm and several launches at once, in four
scripts that differ in what they probe, where they look for a report and whether they may
reuse another experiment; a file is represented by the number of the launch it is
about. **CandidateMatrix** is the same for the one directory a matrix is rewritten in:
`writing` is the place in the sequence of writes, four for each candidate (predictions,
instance ids, command, subset manifests) and the manifest. **Experiments** lets both go on at once, a
step of one leaving the other alone.

**ConcernEvents, GaugeProbe, Contamination.** The log with `project`, branches, `lineage`
and `diff`; over it the probe, which changes leaves and looks for them in lists and dicts, with the
commitment as a function of what the ledger carries; over that the paired tasks, the dual probe, the heuristic on diffs
and the read-set probe, while the agent rewrites texts of the ledger.

**Autoresearch** is the search over the grid, point by point and gate by gate, by
processes that follow one another in the same directory.

## 3 Runs

Passing runs. All are exhaustive; none takes more than a few minutes. Each also
checks the type invariant of its modules. A property that is a conjunction of named
parts is listed with its parts in brackets; each part is stated with a comment in its module.

| Run | Instance | Shows |
|---|---|---|
| `coding_run` | 2 files, 5 contents, undecodable and missing files, tests that may fail, not start or write a file, an action of every kind, 3 steps, contamination gate on | `CommitIsVerified`, `SubmissionIsSound` (`NoMarkedSubmission`, `ResultIsTheTree`), `ImplementsVerifiedCommit`, `Termination` |
| `coding_ledger` | 1 file, marker included, 4 steps, 10 actions that create, overwrite, reopen and close concerns, some with ids the harness uses itself | `MirrorAgrees`, `LedgerRemembers`, `FeedbackOutlivesFinish`, `EveryTurnObserved`, `CertificateAgrees` (`AllowedIsSuccess`, `SuccessSkippedNothing`) |
| `coding_log` | the same kinds of change, 4 turns | `LogAgrees` (`LogProjects`), `BranchProjects` |
| `recursive_run` | 2 children, 3 and 4 possible reports, then a run of the parent of 3 steps | `ChildrenAreHeard` (`SuccessNeedsChildren`, `HandoverMirrors`), `ReportsSurvive`, `RTermination` |
| `tournament` | 2 candidates of any tree over 2 files, 3 penalties, tests that write or do not start | `OnlyVerifiedApplied`, `WinnerUndominated`, `SuccessIsVerified`, `TargetIsWinners` (`PatchApplied`, `CopyIsFileByFile`, `FailedPatchStays`) |
| `replay` | 4 turns, 2 adapters, 2 actions, calls that fail anywhere | `ReplayIsFaithful` (`ReplayIsPrefix`, `StreamsAgree`, `QuietRunReproduced`), `Termination` |
| `harness_loop` | 5 environments, 2 modes, 3 variables of which 2 may be surfaced, 3 surfaces of which one is unknown, 12 proposals that fail each of the gates, 6 steps | `LogProjectsLedger`, `ExecutedIsSound`, `TurnsSettle` (`ReopensSettle`, `OneEnding`), `Termination` |
| `swe_bench_eval` | 2 instances, 5 edits, 3 sets of options, tests that reformat the source, 2 processes | `RunStartsFresh`, `ResultsAreSound` (`SolvedOnReportedTree`, `PatchIsAgentsWork`), `SummariesComeLater`, `SuiteEnds` (with `EveryPatchSubmitted`) |
| `experiments` | 2 arms, 2 instances, 3 scripts, 2 prepares, 2 launches; a matrix of 2 candidates written twice with 1 fault | `CompleteArmAgrees`, `OwnReports`; `ManifestIsSound` (`ManifestIsLast`, `StrictIsComplete`), `SelectionIsSound` (`SelectedWasPredicted`, `MoreReportsNoWorse`) |
| `gauge_probe` | a log of 3 events over 2 variables worth one of 2 leaves, a list of one or None, and a branch 1 event longer; 1 pair of tasks whose agents write 2 texts each; 6 points searched by 2 processes | `QueriesAgree` (`LineageExplains`, `DiffNamesOnlyTouched`, `DiffMissesOnlyUncompared`, `LedgerRoundTrip`); `VerdictsAreEarned` (`VerdictIsEarned`, `TrackingIsPresence`); `ProbesAreExact` (`FlagIsPolicy`, `HeuristicAgrees`, `ReadsAreExact`), `PublishedScores`; `SearchIsSound` (`PromotedIsBest`, `DetectorIsForAll`, `EveryPointTried`, `DecisionsReplay`, `FilesAgree`) |

Violations: `harness_reopen` and `leak_allowed_paths`, section 6.

Why the bounds are enough to be interesting.

- *Steps*: with the four of `coding_ledger` a run can fail a finish, answer it, be blocked
  and still exhaust its budget in the middle of a proposal; the three of `coding_run` are
  enough for an edit, a command or tests that copy it on, and a finish that is refused, and
  so for the wipe with markers left by each of them. Four are not enough for
  `unnecessary_tool_use` on a successful run, since four tools leave no step to finish
  in. In `harness_loop` six exceeds the limits of three environments and lets two
  variables go stale, be surfaced again and be reopened before the budget ends.
- *Files*: one the agent works on and one that is generated, outside `allowed_paths` in
  `coding_run`, is what the order of tests and checks can get wrong. `coding_ledger` needs
  the trees only for the verdicts and has one file.
- *Candidates, children*: dominance is a relation of two; the second child meets what the
  first left.
- *Replay*: four turns hold two calls of each of two adapters interleaved, and an edit
  with a request after it; a window of two makes requests of different turns coincide but
  for their step.
- *Evaluations*: the second process meets everything the first can leave; the second
  launch, matrix and arm are what can be mixed up with the first. One fault tells a
  complete matrix from an incomplete one. `head_to_head` is left out of the `experiments`
  run: its definitions here are `wrap_matrix`'s.
- *Log*: three events declare a variable and revise it twice, or two variables and a
  revision that names its variable in the payload alone; the probe's properties quantify
  over all commitments of an agent in every state. The probe reads the log and no
  branch; only a log of leaves has one (`BranchesInLeaves`), since fork, lineage and diff ask of values no
  more than whether they are equal.

Symmetry is used where ids or values are interchangeable: the instances of `experiments`, the
leaves of `gauge_probe`. Neither run checks liveness. Elsewhere ids, contents and texts
have different roles.

Fairness. Each specification with a liveness property has weak fairness of its whole
next-state relation and nothing more: one thread that is not stuck. What it asks of the
code's surroundings is that calls return: test and shell commands have timeouts
(`coding/workspace.py`, `coding/swebench_eval.py`), agents and model adapters are
external and a hung one is not a behaviour of the harness. Liveness does not depend on
*which* action is taken: agents may refuse to finish forever, and the budget ends the run; every
step of an instance may fail, and the suite ends. `CodingLog`, `Tournament` and the
evaluations other than SweBenchEval state no liveness.

Deadlock is checked in all passing runs but `experiments` and `gauge_probe`, where
nobody need give another command: their behaviours stop when the bounds on launches,
matrices, events and processes are used up. Elsewhere a finished run stutters in an
explicit `Terminated` or `Done`.

## 4 Proofs

TLAPS checks the following for all values of the constants that satisfy the named
assumptions of the modules: any number of steps, files, concerns, candidates, children,
arms, launches, instances and matrices, any set of actions or proposals, any tests.

**`CodingRun_proofs`**, the run:
`TypeCorrect`, `CommitVerified`, `GateIsSound` and `ResultFaithful` (together `SubmissionSound`), `MirrorFaithful`,
`FeedbackOutlives`, `Remembers` and `Refinement`, which are the safety properties of
CodingRun and the refinement of VerifiedCommit.

The properties are not inductive as they stand. `CommitIsVerified` speaks of the
return, and what makes it true happened when the finish was executed, a gate and an
observation earlier. The inductive invariant adds the missing link:

    IInv == /\ TypeOK /\ MirrorAgrees /\ BudgetLeft
            /\ CommitReady /\ CommitIsVerified
            /\ NoMarkedSubmission /\ ResultIsTheTree

`BudgetLeft` says that inside a turn the budget is not used up (so the counter stays in
range), `CommitReady` that when the gate or the end of the budget is about to return a
success, the tree is verifiable and no high concern is open *now*. The second part is
the subtle one: between the verification and the return the finish's own observation
is applied to the ledger, and `VerifiedFinishLemma` shows that an observation of a
verified finish opens no concern. `RestoreLemma` shows that a restored tree has no
modified file, whatever the snapshot could not read. The proof has a lemma for each action.

`MirrorFaithful` rests on `MirrorDeltaLemma`: mirroring a change into a projection
that agrees with the ledger gives one that agrees with the changed ledger, in every
field but evidence, of which it has a subset. That the ledger forgets nothing
(`Remembers`) rests on `Extends` lemmas for each ledger operator. `FeedbackOutlives`
is proved action by action; of the finish it needs that a verified one has no open
high concern and a failed one closes nothing. `Refinement` maps `ExecuteFinish` to work
on the tree and `Accept` and `ReturnAtBudget` to accepting a tree that
`CommitReady` says is acceptable.

**`CodingRun_proofs`**, the certificate (FinishCertificate): `TurnsObserved`, and `CertificateFaithful` from `CertificateSound`,
`SuccessLooked` and `CertificateTypeCorrect`. The number of observations is bounded by `TurnInv`, which
counts them at each point of a turn. The certificate's invariant is

    CInv == IInv /\ GateReady /\ Verdict /\ Certified

where `GateReady` (a verified finish at the gate has no failed check) makes `Verdict` (a
result is a success exactly when it lists no failed check) inductive, and `Certified` says
from which checks the gates were computed. `SuccessLooked` combines it with
`CommitIsVerified`: a verified ledger has no open high concern, so none without evidence.
The steps of CodingRun need no new proof, since every action of FinishCertificate
is one of them with more conjuncts.

**`Tournament_proofs`**: `OnlyVerifiedReachesTarget`, `SuccessfulTargetVerified`,
`WinnerIsBest`, and `TargetAccounted` from `TournamentTypeCorrect`, `CopyIsComplete`,
`HalfCopyIsKnown` and `AppliedStaysApplied`. The invariant `TInv` adds
`CandidatesSound` (verified candidates are verifiable), `WinnerSelected` (the winner
is first in the sort), `CopyProgress` (files not in `todo` already read as the winner's)
and `ChecksSound` (what no failed check means, at each point). `WinnerIsBest` needs that
the sort has a first element, which `SelectLemma` gets from three least elements in
succession (score, size, order), and that the score is monotone: `ScoreMonotone`, with
the integer share 180/n of `ShareLemma`, and the floor at 0. `LeastNat` (`Naturals_proofs`) derives
the least element of a set of naturals from the well-foundedness of inclusion on finite sets.
`HalfCopyIsKnown` adds that `todo` is empty once the copy is over (`PartialCopy`),
`AppliedStaysApplied` where the target's tree came from (`Origin`).

**`CodingRun_proofs`**, recursive runs (RecursiveRun): `ChildrenAccounted` from `RecursiveTypeCorrect`, `ChildrenNeeded`
and `HandoverFaithful`, and `ReportsRemembered`. A state of `RInv` is in one of three phases: the children at work on the ledger alone, a run ended
by its children, or a parent's run, for which `IInv` holds. The parent's steps then
need no proof of their own (`NextInv`, `NextExtends`); what is shown is that the
hand-over establishes `IInv` from any ledger the children may leave, and that ledger and log
record the same observations as long as the loop runs.

**`CodingRun_proofs`**, the log (CodingLog): `LogAlwaysAgrees` and `BranchAlwaysProjects`, for
any sequence of changes of the ledger. The projection is a fold, a recursive function of the
length of the log, and the argument has three steps. `AfterConcat`: what a log does is what
its second part does to what the first has done. `DeltaLogLemma`: the events of one change,
concern by concern, do to a projection what `MirrorDelta` does at once; concerns do not mix,
so an induction over the concerns of the change suffices, and it holds for any order of
them. `BranchLemma`: a branch starts from the declarations of the task's ledger and skips
those of the candidate, and still projects to the same concerns. This last one is not
inductive by itself, since skipping a declaration is harmless only if the projection
already has that very concern: the invariant `LInv` has `FreshFrom`, that the log declares
only concerns its projection does not have and revises only those it has, so that nothing but
the declarations of the first ledger can be skipped.

**`Experiments_proofs`**, the matrix: `ManifestSound` from `ManifestComesLast` and `StrictComplete`,
`SelectionSound` from `SelectedPredicted` and `MoreReports`. `MInv` says of the place in the writing which files are of the newest
matrix already (`Written`), that none of a candidate's four files is older than what is written after it, wherever the
writing is killed (`Ordered`), that a matrix being written or named by the manifest was not refused
(`Accepted`), and that files settle when a matrix is finished (`Settled`). `Graded` says
that a report speaks of lines its matrix had. `OutcomeLemma` gives the properties of the
selection (the first of the four statuses that some candidate has, and a candidate that has it),
from which both theorems about summaries follow; a further report adds to the candidates with each
status but `missing`, so the selected one does not step back.

**`Experiments_proofs`**, the arms: `CompleteAgrees`, `ReportsStay`, `ExperimentsTyped`, for any
number of arms, instances and launches at once. The invariant `AInv` says of a launch
that it resolves only what it was asked for (`LaunchesSound`), and of each arm what the
files of its directory can be (`ArmSound`): while a launch is at work on an arm the generation
in its directory is the launch's and no prepare has changed the instances (`DirSound`), a
complete arm has every file of one launch (`CompleteSound`), and a report in an arm's
directory is the arm's own and not newer than its predictions (`OwnReport`). The two modules share no variable, so `ExperimentsTyped` is the
conjunction of their invariants.

**`SweBenchEval_proofs`**: `AlwaysTyped`, `RunsStartFresh`, `AlwaysSound`,
`SummariesAlwaysLater`, `DoneIsSubmitted`. The invariant

    EInv == Typed /\ Placed /\ Prepared /\ Tested /\ ResultsAreSound /\ Saved

says of the place in an evaluation which instance is being worked on (`Placed`), what its
working copy can contain there, whatever an earlier process left in it (`Prepared`), that
the verdict at hand is about the tree it was tested on (`Tested`), and which files of the
output directory the current process has written already (`Saved`); `ResultsAreSound` is the
property the run checks, inductive with the others. Two facts carry the proof: sealing and
preparing leave a working copy of which nothing but the agent's edits differs, and a process
that starts again works through all instances before it writes the first summary.
`DoneIsSubmitted` is the safety half of `SuiteEnds`: a suite that is over has submitted
every patch. That it is ever over is liveness, and only model-checked.

**`HarnessLoop_proofs`**: `AlwaysHInv`, `TurnsAlwaysSettle`, `LogAlwaysProjects`,
`ExecutedAlwaysSound`, for any environment, set of proposals and number of steps. Two
invariants:

    HInv == /\ TypeOK /\ OneEnding
            /\ Ids(ledger) \subseteq DOMAIN projection
            /\ (pc = "run" => endings = 0)
    DInv == /\ Distinct(ledger) /\ Projected
            /\ reopens + Cardinality(Stales) <= Len(InitialVars) + surfaced

`DInv`'s last conjunct is the argument for `ReopensSettle`. A turn that reopens refreshes a stale
variable, so what is spent on reopening is paid by the variables that were stale; another one
comes only from what the adversary surfaces at the end of a turn. It is the number of stale
variables, not the number of reopens, that a single step relates to the one before.
`DInv` is inductive only if no two variables of the first ledger have the same id, and
`TurnsAlwaysSettle` and `LogAlwaysProjects` have `Distinct(InitialVars)` as a hypothesis. Both are false
without it: `by_id` refreshes the first variable of an id and leaves the second stale
(`core/ledger.py:25`), and the log's dictionary keeps the last (`core/events.py`). The
deterministic mapper gives every success criterion, anti-proxy and the instruction an id of
its own (`modules/concern_mapper.py`); a ledger a model maps may repeat one.
`ExecutedAlwaysSound` holds of every ledger. That `Merge` preserves distinctness rests on
`FirstsDistinct` and `MergeDistinct`: the new variables are taken at the first position of their
id, and `GreatestNat` (`Naturals_proofs`) gives the last position the projection reads (`LastOf`).

**`Replay_proofs`**: `AlwaysRInv`, `ReplayFollows`, `ReplayAlwaysFaithful`, for any number of
calls and adapters. The invariant

    RInv == TypeOK /\ Captured /\ Followed

says of the capture that turns, calls and failures add up (`Counted`), what the request of
each envelope was (`Asked`), that the tools ran in the order of their turns (`InOrder`) and that
a run that ends early ends with a verified finish (`Ended`); and of the replay that it has executed a
prefix of the tools, all those of the turns it has passed (`Followed`). An envelope answers only in its own
turn because a request holds the loop counter, and nothing is answered after a mismatch
because the window of recent observations, never empty, then holds the error: that is
`ReplayFollows`, which needs no hypothesis, so however many adapters share a log, strict
matching never lets a replay do what the run did not. That a quiet run
comes out whole needs `Reproducing` as a second invariant, and the hypothesis
`SameWorkspace`: the request also lists the modified files, so it is false of a replay
without a workspace whose run has edited something (section 6).

**`GaugeProbe_proofs`**, the log (ConcernEvents): `QueriesAlwaysAgree`. `FoldLemma` says what one event
does to a ledger, `ProjectionsLemma` that the projections of a log follow its events one by one; by induction
along the log then `PrefixLemma` (logs that begin alike project alike as far as they do),
`FieldLemma` (a field holds what the last event that sets it says), `LineageLemma`,
`UntouchedLemma` (a variable no event names stays what it was) and
`RoundTripLemma` (a finite ledger put into a log comes out again). The four queries follow from these for
any log of the invariant `LInv`, whose branch began as a part of it and which declares whole variables.

**`GaugeProbe_proofs`**, the probe: `VerdictsAlwaysEarned`, for any ledger a log comes to, any
carriers an agent reads and either form it writes them in. A value is a leaf, a list or dict of leaves
(`Composites`), or None. `SwapLemma` says that the change of a value changes exactly the carriers that
have it as a leaf, and `BundleLemma` the same of the whole bundle (`Moves`). The assumption
`GaugeAssumption` says what a list or dict is and that the sentinel is no value; the hypothesis
`Distinguishable`, that no value is a text that shows values and that what an agent adds of its own has
no variable's name. `ValuesLemma` shows that every variable of a ledger is worth a value or None, so that
a sweep compares values with values.

**`GaugeProbe_proofs`**, the search (Autoresearch): `SearchAlwaysSound`, for any grid, any measures and any
number of processes that overwrite each other's files. The invariant `SInv` says that the point a
gate has let pass is the one at hand (`SampledInOrder`), that the trials are of the points passed
over, one of each and in order (`OnePerPoint`), what each promoted trial has shown
(`AllDeserved`), that the best is the first of the best of them (`BestIsFirst`), that the notes tell the
trials, and what the files can be of (`FilesOfRuns`). That the default baseline equals no point of the grid is
`LiteralLemma`: a point with its middle threshold has another last one. A process that starts
on the files of another is in a state of `Fresh`, as is the first one.

**`GaugeProbe_proofs`**, the contamination slice (Contamination): `ProbesAlwaysExact` and
`PublishedScoresAlways`, for any texts the agents write, any number of pairs of tasks and of updates.
`SweepLemma` says what a sweep does to a text, which is no list or dict (`TextIsLeaf`, from `TextAssumption`).
From it `FlagLemma`, of any ledger whose concerns are texts (`Legible`): the leak's policy is flagged
exactly while the leak is not rewritten yet, and the derived one only where issue and leak are one text
that asks for no sum, since it moves with the leak in no other case, and with the issue in all. What part of the
issue the derived policy quotes is any function, `Fingerprint`. `SurfaceLemma`: another form leaves a ledger
legible and changes no leak; `PredictedLemma`: a read is predicted only if it holds the issue's text. The invariant
`SliceInv` adds that each row is `Scored`, and that a ledger no update has touched is the one the
task begins with, without which the rows of untouched runs would say nothing. No assumption
on `None` is needed: with a text that is `None` only the one variable is overridden, and the lemmas hold of that too.

**`Naturals_proofs`** has what these rest on. The library's induction rules take an operator
as a parameter, which the installed provers cannot instantiate. `LeastNat` does without: a
non-empty set of naturals has a least element. From it come `InductUpTo`, induction along 0..N for a *set*
of numbers, and `Recursion`, that a function with given start and step exists, by which a
recursive definition over a sequence is shown to satisfy its equations. So what the folds of
CodingLog, ConcernEvents and Autoresearch compute is proved for sequences of every length.

Assumptions used: those declared in the modules. They say that a task's ledger is a
ledger, that actions are well typed, that the repository and the suite are finite, that
`TestRuns` and `HardenedRuns` give sets of outcomes and trees. TLC evaluates them in the
runs of modules that extend them.

Only model-checked: all liveness (`Termination`, `RTermination`, `SuiteEnds`), which needs
fairness and ENABLED. Every other property that a passing run checks is stated by a theorem.

## 5 Abstractions and limits

Coding harness:
- An action has at most one `ledger_update`; an update or a child's report brings at
  most one item of evidence. Updates apply one after the other in the code, by the
  operator that is modelled.
- Concern levels are hundredths; evidence is a set, except where the *last new* item
  matters (`LastNew`); texts and messages are classes.
- Ids added by a task's metadata are distinct and fresh.
- A file stands for every path with its role; `disallowed_paths` are not in `Files`. Files differ by content
  class: which contents hold a marker, and which contents have a skip or xfail line more than
  which (`Weakening`, a set of pairs), are constants, and newline normalisation is abstracted to
  `Lines`.
- A command and `run_tests` may leave any tree, the configured tests of the verifier a
  tree of `TestRuns`.
- `agent.observe` raising, budgets of tokens and time, and the text of feedback are not modelled.
- The trace is what the four validators read off it. Whether the patch uses what was read, and
  whether the last finish cites an output nobody saw, is a choice. Two readings of
  the code matter: `result_ignore` expects matches of a search to be dictionaries where the
  workspace gives strings, so a search never counts; and any edit counts as one after the read, an
  earlier or a failed one too.
- Candidates of a tournament are VerifiedCommit runs; the tournament's copies of the
  repository and their ignored directories are external. An empty file the winner
  creates is not copied, because `modified_files` does not list it: `PatchApplied` is
  stated up to that reading.
- Children of a recursive run return a report or raise; what makes a report invalid is
  folded into its `ok`.
- Replay leaves out the contamination gate and the verification at the end of the
  budget, which capture nothing. A replay with a workspace is assumed to have the same
  root and the same edits. After a failed model call the recorded and the replayed
  observations differ by construction, so a replay only promises a prefix.
- Envelopes are served by `call_index`, which each adapter counts for itself, and in log order
  where it is equal (`core/replay.py:174`). The calls of two adapters that did not alternate come back in
  another order, and a strict replay stops there: `QuietRunReproduced` is of one adapter, although the
  ordering is called unambiguous for several (`core/replay.py:97`).

Concern harness:
- Levels and freshness are tenths, weights twentieths. Every variable has a concrete value
  of its own, so a payload is the set of variables it carries, and a trace of handoffs the
  set each mentions.
- A failed proxy check of the environment is one flag of a proposal, `shortcut`, with
  the weight of a hard failure. The gauge probe is off by default in the loop and has a
  module of its own.
- `ask_user` is in the schema and `decide_from_gates` never returns it; the
  commitment controller is constructed and never called. Neither is modelled.
- Variable ids of the first ledger are distinct in the runs and a hypothesis of two theorems
  (section 4). With repeated ids `by_id` finds the first and the log's projection keeps the
  last; the operators model both.
- In ConcernEvents the fields of a variable are one that `diff` compares and one that it
  does not; events name variables as callers in the repository do, by `variable_id`, by the
  payload, or both.
- A commitment in GaugeProbe is a function of the carriers the agent reads, shown or encoded.
  A leaf is compared whole and never searched for in a longer text; lists and dicts hold leaves,
  no further lists. The code compares leaves alone (`core/events.py:343`), so a variable whose value is
  itself a list or dict is never replaced and the probe blocks whatever is committed:
  `VerdictIsEarned` says so of them, and section 6 what the documentation says. The
  tasks in the repository have strings.

Evaluations:
- A working copy has one source, the tests, the carrier and what is under `.git`. `git`,
  the official grader and Modal workers succeed or fail as a choice. A kill may come between any two
  file writes; a single file is written at once, and so are the subset manifests of a candidate, which
  one call writes.
- In ExperimentArms a file is the number of the launch that made it. Prepares do not
  overlap launches of the same experiment. Outside the leak control matrix no patch with a marker is
  generated in a probed arm, as the finish gate lets none through.
- Texts in Contamination are what the code looks for in them; the beginning of the issue that a
  commitment quotes (`coding/contamination/probe.py:123`) is any function of the text. A live agent's
  diff is any diff.
- In Autoresearch what an evaluation measures is any of `Measures`; rates are percent, and one
  unit in the last place stands for the doubles that differ from a literal. Scores are integers here, so an
  improvement is any greater score; the code's margin of 1e-9 (`eval/autoresearch.py:402`) is there
  to keep rounding from being one. The default baseline's
  thresholds are literals, and the grid's are computed, so no point equals it and all
  are tried (`src/docs/results/AUTORESEARCH.md:14` reports eight trials of eight points).

Known behaviours no property covers, because the code promises nothing about them: a
malformed `ledger_update`, a child or a candidate that raises, or a test command that
cannot start at the end of the budget raise out of the run and leave tree and ledger as
they are, a marked tree included; an open `test_k` concern of a failed `run_tests` is
closed only by the agent's own update; a success may carry a certificate that asks for a
revision or blocks (`AllowedIsSuccess` is one direction only), and nothing compares the
two; without a report every prediction of an arm counts as resolved
(`coding/official_swebench.py:249`); an arm of the leak control matrix may be given the report
of a launch of another arm that lies in the working directory
(`src/scripts/run_leak_control_matrix.py:161`); one worker that raises loses the generations of all
(`src/scripts/modal_lbah_swebench_tournament.py:198`); an event on an id nobody has declared
can make every later projection of the log raise (`core/events.py:176`).

## 6 Disagreements

Two are runs, whose one property states what a document or comment says and which TLC
violates; `PROJECT.json` has the quotations.

- `harness_reopen`: the "recheck" a stale variable forces is executed as an ordinary
  action and ends the task in four of five environments (`core/runner.py:145`;
  `src/docs/EVIDENCE.md:89`).
- `leak_allowed_paths`: adding the leak carrier to "no restriction" leaves the carrier
  as the only path an agent may edit (`coding/contamination/inject.py:331`).

Five more were found while modelling and are described here only:

- A concern that changes status and gains two items of evidence in one action keeps one
  of them in the log (`coding/certificates.py:225`), though the ledger is said to be the
  log's projection (`coding/events.py:64`). `MirrorAgrees` is therefore stated up to
  evidence, of which the log has a subset.
- A change of a last line break is modified for the check and has no diff
  (`coding/verifier.py:109`; `src/docs/LBAH_CODE.md:453`), so a success may have an
  empty diff.
- Hardened tests can put files outside `allowed_paths` into a successful result
  (`coding/tournament.py:243`; `src/docs/LBAH_CODE.md:452`); `SuccessIsVerified` speaks
  of the tree before them.
- Without a workspace a replay stops matching after the first edit, because the prompt
  lists modified files (`coding/runner.py:113`, `coding/replay.py:6`), and the mismatch is
  swallowed as a proposal error (`coding/runner.py:121`). Replay has this as `Kept = FALSE`.
- A variable whose value is a list or dict keeps it in the probe's alternate ledger, where it
  is said to be replaced everywhere it appears (`core/events.py:343` and `:386`), so the
  probe blocks an agent that does read it. `VerdictIsEarned` says what the code does.

## 7 Not modelled

Not modelled, with reasons in `PROJECT.json`: the mapping modules (they produce the first
ledger, and any ledger is allowed), the commitment controller (never called), scoring and
diagnostics (means over finished runs), model and agent adapters and the external
harness (one request at a time, whose failures the loops model), the proxy benches (task
data). Modelled in part: validators other than the four of a coding trace, the texts and success
predicates of the environments, the matching of values in payloads, the other commands
of the command line, the scripts that measure one run after the other.
