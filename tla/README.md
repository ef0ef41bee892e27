# Heat Grid Agent: specifications, model checking and proofs

TLA+ modules for the parts of Heat Grid Agent whose correctness depends on the
order of things, the TLC configurations that check them on small instances, and
theorems about them that TLAPS checks for every value of the constants. Every
definition is translated from the code; `PROJECT.json` maps it to its lines.
`B/` stands for `src/simulator/versions/v2_postgres_react_ops/backend/`, `A/`
for `src/src/heatgrid_ops/agent/`, `P/` for `src/src/heatgrid_ops/priority/`.

1. The system and its parts
2. The modules
3. The runs, their bounds and their fairness
4. The proofs
5. What disagrees with a document, and other observations
6. What is not modelled, and why
7. Plan

## 1. The system and its parts

A FastAPI process (`B/server.py`) serves the operations console, keeps all
shared state in PostgreSQL and runs agent graphs in background coroutines.
Replays run in worker processes of their own. An evaluation scores every
substation; its consumption moves alert episodes and fills `ops_alert_queue`; an
operator, or the automation route, requests an agent run for an alert; the run's
graph writes a result and artifacts; operators review it, talk to it in the
review chat, and may ask for a targeted rerun of some of its stages; documents,
reports, the operations policy and retraining jobs are kept beside it.

| Component | State | Operations | What is hard | What makes it correct | Module |
|---|---|---|---|---|---|
| Agent runs (`B/agent_run_repository.py`, `agent_execution_repository.py`, `agent_budget_repository.py`, `agent_runner.py`) | `agent_runs`, `agent_run_tasks`, parent rows of `agent_budget_ledger`, checkpoints, the registry of coroutines | reserve, reuse, schedule, claim, mark running, complete, settle, release, fail, cancel, expire, resume | leases that expire under a live coroutine, crashes between transactions, unguarded status updates, limited slots | one lease holder; task, budget and result agree; lineages are trees; finished work stays; every run ends | `AgentRuns` |
| Graph v1 (`A/graph.py`, `nodes_*.py`, `assessment.py`) | checkpointed graph state, review tasks, the diagnostic reservation | the nodes and routes of one run | resume behind a checkpoint, an LLM that overrules the policy | no review is bypassed; a diagnosis is charged; the loop ends | `AnalysisGraph` |
| Stage pipeline v2 (`B/agent_graph_v2.py`, `A/graph_v2.py`, `A/v2_stage_runner.py`, `B/agent_stage_repository.py`) | immutable stage snapshots | copy and hydrate the parent's prefix, execute or replay a stage, persist | crashes, redeployments and overlapping attempts between computing and storing | a completed run is one unbroken chain of outputs; stored rows stay; a retry can go on | `StagePipeline` |
| Run actions, daily report (`B/agent_run_artifact_repository.py`) | `agent_run_actions`, artifacts | look, claim, poll, store, complete, fail | a slow claimer is overtaken after ten minutes | one report for every claim | `RunActions` |
| Operator reviews and policy candidates (`B/agent_operator_review_repository.py`, `agent_policy_candidate_repository.py`) | review history, review tasks, run columns, rerun requests, candidates | submit, repeat, decide, complete a run | two reviewers, a request sent twice, a completion at the same time | the run shows its latest review, a task is decided once, a request counts once | `OperatorReviews` |
| Review chat (`B/review_chat_service.py`) | thread, messages, proposals, reviews, document versions, child runs | message, confirm, cancel, expire | row locks held while the LLM is asked, confirmations sent twice, stale proposals | a confirmation acts once, as a whole, on what was seen; what was said is what is done; only what was asked for is changed | `ReviewChat`, `WorkOrderRevision` |
| Incident documents (`B/incident_document_*.py`) | versions, notes, idempotency keys | generate, edit, note, approve | READ COMMITTED, retries, two editors | a key writes once, versions are a log | `IncidentDocuments` |
| Operations policy (`B/operations_policy_repository.py`) | versioned values and shifts | read in two statements, update | a form of half an old policy | no update is lost | `OperationsPolicy` |
| Operations reports (`B/operations_report_*.py`) | report periods and versions | find due periods, finalize, mark overdue, correct | overlapping runs at any hour, a sliding lookback | what is published stays official; nothing due is forgotten | `OperationsReports` |
| Alert episodes and queue (`B/alert_episode_*.py`, `alert_repository.py`) | episodes, consumptions, `ops_alert_queue` | consume an evaluation, materialise a scenario | consumption in any order, policy changes, unique keys that abort it | one active episode, opened and resolved only on confirmation, alert agrees with it | `AlertEpisodes` |
| Priority evaluation (`P/evaluation.py`, `P/inference.py`) | evaluations, results, the active flag | load, request, post, evaluate; score, rank, alert | data that is loaded meanwhile, any `as_of_time`, thresholds on rounded scores | an answer covers what was loaded; the active one is the newest; alerts follow the gate | `PriorityEvaluations`, `PriorityScoring` |
| Replay (`B/replay_*.py`) | `replay_runs`, commands, ticks, windows | claim, apply a command, emit a tick, score a window | leases, crashes, commands racing ticks | no tick skipped, no window scored twice, commands obeyed, runs end | `Replay` |
| Retraining, approval and automation (`B/retrain_*.py`, `automation_routes.py`, `review_repository.py`) | feedback, jobs, candidates, deployments, model files | decide, create, approve, train, promote, reject | training over the production models, several transactions | jobs are trained once, one deployment, models follow it | `Retraining` |
| Migrations (`src/src/heatgrid_ops/db/migrations.py`) | ledger of migrations, schema | baseline, reconcile, apply, verify | migrators of two releases that end early | the ledger is true, a server serves its own schema | `Migrations` |
| Work orders and rendering, RAG, weather, `third_model`, console | none that another component's order depends on | formatting, clients, numerics | - | - | not modelled (section 6) |

How they interact. Coroutines and rows meet one transaction at a time, with any
other actor in between (`AgentRuns`). Two server processes meet through the lease
columns. Readers expire runs while coroutines wait. A child run takes its
parent's stage rows (`StagePipeline`). Reviews, the chat and the run's completion
write the same columns of a run under different locks (`OperatorReviews`,
`ReviewChat`). Evaluations, episodes and alerts meet in the keys of
`ops_alert_queue` (`AlertEpisodes`); the loader, replays and evaluations in the
tables of windows and features (`PriorityEvaluations`). API and replay workers
meet in the version of a run and its queued commands (`Replay`). Status per
component, and why a part is left out, is in `PROJECT.json` under `components`;
the hazards, each at its line, under `hazards`.

## 2. The modules

| Module | Models |
|---|---|
| `FencedTask` | abstract: numbered grants on a task, each superseding the last; finishing happens once and charges the budget in the same step |
| `VersionedRecord` | abstract: logs to which only who has seen the latest entry appends, and in which nothing changes |
| `AgentRuns` | run rows, tasks, leases, ledger, coroutines, servers |
| `AnalysisGraph` | the v1 graph of one run, node by node, with crashes behind every effect |
| `StagePipeline` | the v2 stages of a chain of runs, their rows, checkpoints and redeployments |
| `RunActions` | the daily report of a run |
| `OperatorReviews` | reviews of runs, review tasks, rerun requests, policy candidates |
| `ReviewChat`, `WorkOrderRevision` | the chat's proposals and confirmations; what a message means and what a revision changes |
| `IncidentDocuments`, `OperationsPolicy`, `OperationsReports` | versioned documents, the policy, the reports and their scheduler |
| `AlertEpisodes`, `PriorityEvaluations`, `PriorityScoring` | from data to scores, ranks, episodes and alerts |
| `Replay` | one replay run and its workers |
| `Retraining`, `Migrations` | retraining jobs and model files; migrators and the contract check |
| `MCAgentRuns`, `MCAlertEpisodes`, `MCPriority`, `MCReplay`, `MCWindows`, `MCGraphs`, `MCRecords` | instances for TLC |
| `AgentRunsProofs`, `AlertEpisodesProofs`, `AnalysisGraphProofs`, `PriorityProofs`, `RecordsProofs`, `ReplayProofs`, `ReviewsProofs`, `StagePipelineProofs` | theorems |

`MCPriority`, `MCWindows`, `MCGraphs` and `MCRecords` hold several modules that
share no state. A variable `focus`, chosen at first, says which one a behaviour
exercises; the others stand still. It is one run instead of many, and never a
product of state spaces. The modules that theorems speak of are extended, so that
the run and the theorem name the same definition; the others are instantiated.

Operators marked *seeded fault* sit beside the operator they vary. No
specification uses them; put in its place, each makes TLC report the property it
belongs to (`mutants` in `PROJECT.json`), which shows that the property can fail.

### State and actions, module by module

**AgentRuns.** A run's number is its place in creation order. `status`,
`lineage`, `output`, `age` are columns of `agent_runs` (`age`: ticks since
`updated_at`); `task`, `owner`, `lease`, `attempts` of `agent_run_tasks`;
`ledger` the parent row of the budget; `checkpoint` how far the v1 graph has
come. A fresh `lease_owner` uuid is the attempt number. Per server: `requested`
and `cancelling` (a handler has committed and is about to touch the coroutine),
`pc`, `token` and `graph` of each coroutine. One action per transaction or step
between two awaits: `ReuseRun`, `ReserveRun`, `Schedule`; `AcquireSlot`,
`ClaimTask` (`ClaimRefused`, `GiveUp`, `ClaimConflict`), the graph's steps,
`SettleTask`; `Raise`, `ReleaseTask`, `FailRun`; `CancelRun`, `CancelCoroutine`,
`ReadRun` (expiry), `ReviewRun`, `CreateTargetedChild`; `ServerCrash`,
`CoroutineCrash`, `ServerStart`, `Tick`. Initially: a database behind migration
008, with up to `Legacy` completed runs in any tree it accepts. Abstracted: the
content of a result, token counts (settling is within the limit or not).

**AnalysisGraph.** `graph` is the checkpointed state, `phase` how far an attempt
is in the diagnostic node, `ledger` and `reviews` what it leaves outside the
graph. Every node is an action; `Ends` lets the process die between the node's
effects and the checkpoint. The chat model may answer anything its schema admits
(`Answers`); `Guarded` is what `guard_llm_assessment` makes of it. `DiagnosticModel`
says whether a diagnostic model and its budget are configured; `context` what
evidence there is and whether it fits the diagnosis' token limits; `card` whether a
card and a priority exist. Scores are in hundredths.

**StagePipeline.** `rows[r][k]` is the row of stage `k` of run `r`; run `r` is the
targeted child of `r - 1`. A hash stands for what is hashed. A worker is one
attempt: `Claim`, `ReadParent`, `CopyPrefix`, `Hydrate`, `Begin`, then per stage
`LookUp` or `Record`, `Save` (the checkpoint), at last `Persist`; `Fail` at any
point, `Redeploy` changes the configuration and ends all processes. Any two
attempts may overlap (a lease that expires); `overlapped` remembers at which runs.

**RunActions.** One run's action row, its age (`fresh` or over ten minutes), the
artifact row, and requests that look, claim, wait, generate, store, complete,
fail or vanish. `generated` and `stale` count reports and claims grown old.

**OperatorReviews.** `given[r]` is the review history, `tasks` the review tasks,
`filed`, `current` and `shown` the columns that point to them, `reruns` the
requests for children, `candidates` the policy candidates. A review is two steps,
what it reads behind the advisory lock and what it writes (`BeginReview`,
`RecordReview`); `RepeatReview` is a known key; `CompleteRun` the coroutine;
`ReadCandidate` and `DecideCandidate` are the two steps of a decision.

**ReviewChat.** A message is what the parser makes of it. A proposal is bound to
what was seen: run, review version, document versions. `Blocked` are the problems for
which no rerun is offered. Row and advisory locks are
in the clients' steps, `DeadlockVictim` is PostgreSQL ending one of two that wait
for each other. **WorkOrderRevision** is the parser and the revision itself: a
message is a set of words known by the term lists they are in, a body a sequence
of headings and items; intents, guardrails, targets, the splice of the reply and
the validation are operators on these. A message may have the frame the console
puts round an instruction, with the part it is about as a quoted label: then the
guardrail looks behind the marker only, and the label decides the target.

**IncidentDocuments.** Versions, notes and idempotency keys; a writer's
transaction is the read of the latest version, for an edit the check for an
approval, and the insert, which a unique constraint may refuse.
**OperationsPolicy.** Updates and forms: a form is read in two statements.
**OperationsReports.** Hours of a clock, periods (shifts and days) with their
status and versions; a run computes what is due, marks what is overdue and
finalizes period by period, may be aborted, and overlaps with others.

**AlertEpisodes.** `result[e][u]` is what evaluation `e` says of substation `u`;
`consumed[e]` its position in the order of consumption; `episode[u][e]` and
`alert[u][e]` the rows it inserted; `Consume` is one transaction with the alert's
side effects, disabled where a unique key would abort it.
**PriorityEvaluations.** The loader's statements one by one, whole windows from
replays, requests that are answered from the latest evaluation or make a new one,
posts for any `as_of_time`. **PriorityScoring.** From the models' answers to
scores in ten-thousandths, levels, ranks, alerts and what the consumption takes.

**Replay.** One run's state, position, ticks, windows, lease and queued commands
(those still valid for its version), and workers: `ClaimRun`, a command,
`ReadRun`, `PersistTick`, `BeginWindow`, `CompleteWindow` or `FailWindow`;
`Crash`, `WorkerStart`, `LeaseExpires` at any time, also under a working owner.
`reset` and `seek` are commands like the others; `rewound` remembers that one of them
has moved the run.

**Retraining.** Decisions, feedback, jobs, candidates, deployments, and the
models directory, whose content is named by the job it was trained for, or `Torn`.
Training, restoring and activation may fail (`FailActivation` behind the commit of the
deployment, `FailRestore`), a coroutine may be lost (`LoseJob`). `disturbed` remembers
what of this happened since the last activation that went undisturbed.
**Migrations.** Ledger rows with name, manifest and signature; migrators of two
releases behind one lock, each commit a step; servers that check before serving.


## 3. The runs, their bounds and their fairness

| Run | Instance | Checks | Shows |
|---|---|---|---|
| `lease` | `MCAgentRuns`: 2 servers, 1 alert, 2 runs of which 1 is legacy, 3 attempts, 1 fault, 1 review; 301,425 states | `TypeOK`, `OneLeaseHolder`, `SettledWithResult`, `OnlyHolderEnds`, `ImplementsFencedTask` | under crashes, expired leases, retries and wrong keys the lease is exclusive and only its holder ends the task |
| `live` | 1 server, 2 runs, 1 slot, 1 attempt, 1 fault, fair | `EveryRunEnds` | no run stays active for ever |
| `active` (violation) | 1 server, 2 runs, 2 attempts | `OneActiveRunPerAlert` | an expired run is marked running beside its successor |
| `replay` | `MCWindows`: 2 workers, 3 ticks, windows of 2, 1 crash; answers of the models around every threshold; 1,562,336 states | `TypeOK`, `NoSkippedTick`, `VerdictIsFinal`, `AlertsFollowTheGate`, `RankedByEvidence` | replays with a lost lease; alerts and ranks |
| `replay_one` | 1 worker, 3 ticks, 2 crashes, every kind of command, fair; 1,396,032 states | `TerminalIsFinal`, `RunningRunEnds` | the documented deployment: commands are obeyed and a replay ends, unless a command raises at every claim, or a reset or seek took it back among ticks it had emitted |
| `takeover` (violation) | 2 workers, 2 ticks, fair | `RunningRunEnds` | a worker that lost its lease leaves a tick that stops its successor for ever |
| `priority` | `MCPriority`: 4 evaluations of 1 substation under 2 policies with 1 scenario; 2 evaluations requested and posted over a loader | `TypeOK`, `OneActiveEpisode`, `AlertFollowsEpisode`, `OpensOnlyConfirmed`, `ResolvesOnlyRecovered`, `ResolvedIsFinal`, `AnswerCoversWhatWasLoaded`, `ActiveIsNewest` | episodes and alerts in any order of consumption; answers cover what was loaded |
| `graphs` | `MCGraphs`: 2 runs of 3 stages, 3 attempts of 2 workers, 1 redeployment; the v1 graph with and without diagnostic model; 4 runs of 2 alerts on 1 server; 1,708,565 states | `CompletedRunIsChain`, `ConflictHasCause`, `ReviewNotBypassed`, `DiagnosisCharged`, `LineageTree`, `FinishedRunIsCompleted` | what a run executes, whatever crashes, overlaps and is answered by the LLM; lineages of four runs over two alerts |
| `records` | `MCRecords`: 14 instances with two operators, requests or programs each; 1,723,130 states | `TypeOK`, `IntentIsExplicit`, `RevisionStaysInScope`, `ModelsFollowDeployment`, `ActsAsConfirmed`, `StatusFollowsLatestReview`, `OncePerKey`, `GeneratedOncePerClaim`, `PublishedStaysOfficial`, `NothingForgotten`, `NoUpdateIsLost`, `LedgerIsTrue`, `ImplementsVersionedRecord` | the records operators and programs keep beside a run |
| `own` (violation) | `StagePipeline`: 1 worker, 2 runs of 2 stages, 2 redeployments | `OwnSnapshotsOnly` | a child goes on as its parent |
| `unstored` (violation) | `Retraining` behind migration 007 | `DecisionIsStored` | no decision that yields feedback is stored |
| `streams` (violation) | `PriorityEvaluations`: 1 reader, 2 replayed windows | `StreamsAreSeparate` | the default stream scores replayed windows |

### Bounds, and why they are enough

* `LeaseTerm = 1`, `StaleAfter = 2` ticks: only the order matters, a lease (120 s)
  runs out well before a run goes stale (600 s). One tick decides whether a lease
  has expired, two separate a fresh, an ageing and a stale row.
* Two servers: every property of `lease` is about two coroutines and a row, and a
  third process brings nothing a restarted one does not. Three attempts give a
  first holder, one that takes over and one after a release.
* `live` has one attempt and one slot: what could keep a run active for ever is a
  coroutine that never gets the slot, a lost coroutine, or a status nobody
  changes, and all three occur. More attempts only repeat the first.
* Four runs of two alerts in `descent` (a part of `graphs`): three legacy runs span
  root, child and grandchild (the depth limit), or two lineages, of one alert or of
  two; the fourth is created on any such forest, so it could be too deep, or be given
  a parent of another lineage or alert. `LineageTree` is checked here.
* Four evaluations: the default policy opens on two anomalies or one critical and
  resolves on three normals, so critical and three normals fit, and with the quick
  policy open, resolve (two normals) and relapse. One substation: rows of different
  substations meet only in the abort of a transaction.
* Three ticks with windows of two: a tick without boundary, one with, and one after,
  the last of the dataset. A reset or a seek may take the run back at any of them.
* Three stages: one that is copied from the parent, one that is replayed, one that
  is new; the pipeline's other stages differ in what they compute, not in how it
  is stored. Two values and two configurations tell an output from another.
* Evidence in `analysis`: none, or two documents, which with the other parts of a
  score reach both sides of its threshold (75); `schema` and `bare` also have one and
  three, where the share of documents is capped. Verification is sure, halfway or
  nothing, the card and the priority are there or not.
* Scores in `gate` and `points` stand one below and one at every threshold.
* `wording`: every message of two words, chosen so that each term list and each overlap
  of two lists occurs; some of three words, with items 0 to 3; some that follow an
  earlier request; the console's frame with every label. Three work orders: complete,
  with one section only, and with empty sections before a heading and at the end. Replies of up to two lines, headings among them.
* Reports: moments 32, 44 and 52 with a lookback of 12 hours let a shift fall out
  of the lookback, a day end between two shifts, and two runs overlap over both.
  Two or three clients of everything else: what goes wrong there is one of them
  between two steps of another. `MaxStale = 2` lets a claimer that was overtaken
  overtake in turn.

Some parts of a composed run are restricted, so that the whole ends in minutes; each
restriction is written out beside the part and stands for no code. The parts
complement each other:

* Retraining. `promote`: two jobs and two operators, candidates promoted while
  others are trained or activated; rejection and the automation's mode are left to
  `label`, one job with two operators, the automation and a crash, and `retrain`,
  two jobs of one operator with a crash (`TwoJobs`, `BothJobs`, `FirstOperator`).
* The stage pipeline. `lineage` and `retry`: no two attempts at one run at once
  (`OneByOne`), with a redeployment or with retries; `overlap`: two attempts at once
  at a root; `child`: two at once at a child while the parent is under way
  (`Alike`: all stages compute the same, one configuration).
* `review` and `decide` split `OperatorReviews` in two (`NobodyDecides`,
  `OneReviewEach`). `revise`: of two equal requests the first starts (`FirstFree`).
  `other` has a problem for which no rerun is offered, `rerun` has the others.

The diagnostic configuration (`DiagnosticModel`) is taken not to change during a run: a
server that is restarted without the model could pass by a diagnosis that an earlier
attempt has called and not settled. Symmetry of servers, alerts and workers is used
only in runs without liveness.

`CHECK_DEADLOCK FALSE` is said where the bounds stop the system: all runs ended
and no attempts, reviews and faults left (`AgentRuns`); all requests served
(`MCRecords`); evaluations used up (`Priority`, `Streams`); the composition's parts
finished (`Graphs`). `Windows`, `ReplayOne` and `ReplayTakeover` are checked for
deadlock.

### Fairness, and why the code justifies it

*AgentRuns.* The event loop of a live process schedules its coroutines and
handlers: weak fairness of `Execute`, `CancelCoroutine`, `Schedule`. The
semaphore is FIFO: a coroutine that finds it free again and again gets it, strong
fairness of `AcquireSlot`. `Tick`: time passes. `ReadRun`: the console polls
the status of the runs it shows (`docs/14_AGENT_RECURSIVE_AUTOMATION.md:224`);
without a reader a run that lost its coroutine is never expired. `ServerStart`: a
stopped server is started again; this is an assumption about the operator, not
about the code. No fairness is given to requests, cancellations, exceptions or
faults.

*Replay.* `WF(Work(w))`: a worker process keeps looping and one that ended is
started again, the operator again (`docker-compose.override.yml` starts one
worker). Commands and expiry are not fair.

## 4. The proofs

All for every value of the constants that the named assumptions of the modules
admit. Each proof has an inductive invariant, from which the properties that the
runs check follow.

*AgentRuns* (`AgentRunsProofs`): `TypeCorrect`, `LeaseSafety`,
`SettlementSafety`, `LineageSafety`, `HolderSafety`, `CompletionIsFinal`,
`FencedTaskImplemented`. The invariant is
`Inv == TypeOK /\ Started /\ Leased /\ Stored /\ Rooted`:

* `Started`: a run without a row has no task, request or coroutine. Without it an
  insertion could meet a coroutine that is already there.
* `Leased`: a task has an owner exactly while it is running, owners and tokens do
  not exceed the attempts, and no two coroutines have the same token. A new claim
  therefore gets a number nobody else holds, whatever old coroutines still run.
* `Stored`: a completed task, a final checkpoint and a coroutine behind
  `complete_run` all have a stored result; task and budget are finished together.
  The clause on checkpoints makes a retry that resumes behind the last node safe.
* `Rooted`: rows are numbered densely, and lineages are trees; a child is therefore
  newer than its parent.

`FencedTask` is implemented with `grants` the attempts, `holder` the owner,
`finished` the completed tasks, `charged` the settled ledger rows. Claims map to
`Grant`, release to `GiveBack`, settling to `Finish`, all else stutters.

*StagePipeline* (`StagePipelineProofs`): `TypeCorrect`, `ChainSafety` (a completed
run is one chain of outputs), `SnapshotsStay` (an action property: a stored row is
never changed or removed), `ConflictSafety`. The invariant is
`IInv == TypeInv /\ OwnLinked /\ ReusedIsValid /\ ParentSeen /\ WorkersLinked /\ CheckpointsLinked /\ ResultsLinked`.
What a worker carries, what a checkpoint holds and what a completed run has stored
are each prefixes of a chain: the input of a stage is the output of the one before.
`OwnLinked` says it of rows a run computed, `ReusedIsValid` of rows it copied: their
original is the same stage of the parent, under the same configuration and the
same input. `ParentSeen` carries it over the two transactions between reading the
parent and copying its rows, and holds because rows stay. `ConflictSafety` has no
assumption about who overlaps: an attempt is refused a stored row only behind another
configuration, or where two attempts at a child overlapped and one, reading the parent
later, copied a row behind a stage the other had computed (`CopiedBehind`). Its
invariant `AInv` adds to `IInv` that only overlapping attempts copy behind computed
rows (`CopiedBehindOverlapped`, over `NotStarted` and `Alone`: who copies does so
before there is a checkpoint, unless another attempt goes on), that rows are filled
from the front (`Filled`), and that a copy is the parent's row (`CopiesOfParent`).

*OperatorReviews* (`ReviewsProofs`): `ReviewTypes`, `ReviewSafety`,
`ReviewsAreVersioned`, `DecisionsAreVersioned`. The invariant is
`ReviewInv == RunsOK /\ RequestsOK /\ ReviewedTasks /\ StatusFollowsLatestReview`;
`RequestsOK` says that what a request read behind the advisory lock is still
true when it writes, as nobody else is recording for the same run;
`ReviewedTasks` that a run with a settled review is no longer executing, so that a
completion cannot undo it. Decisions have no lock: `DecisionInv` says that what
was read is the candidate or an earlier version of it, and that versions are
never used again, so the guarded update accepts only who has read the latest one.

*IncidentDocuments, RunActions* (`RecordsProofs`): `DocumentTypes`, `KeySafety`,
`DocumentIsVersioned`, `GenerationSafety`. `DocumentInv == RowsOK /\ WrittenIsCompleted /\ WritersOK /\ OpenScopes /\ OncePerKey`:
a scope's versions and notes belong to a completed key, a transaction at work
holds its key and has written nothing. `ActionInv` bounds the reports generated by
the requests that are generating and the claims that grew old; it needs
cardinalities of sets of requests.

*OperationsPolicy, OperationsReports* (`RecordsProofs`): `PolicyTypes`,
`UpdateSafety`, `PolicyIsVersioned`; `ReportTypes`, `PublicationSafety`,
`NoPeriodForgotten`, `ReportsAreVersioned`. `PolicyInv`: the shifts of a whole form
are no older than its values, so a form that is still current in its values is
current in its shifts. `ReportInv`: every period that was due when a run
looked is either still before the run or has a row; corrections are of
published versions. `NoPeriodForgotten` then needs the arithmetic of periods:
`PeriodIsDue` and the lemmas beside it.

*The abstract log* `VersionedRecord` is implemented by documents, policy, reports,
reviews and decisions, one theorem each: whoever appends has seen the latest
version, and no entry changes.

*AlertEpisodes* (`AlertEpisodesProofs`): `TypeCorrect`, `SingleEpisode`,
`AlertSafety`, `OpeningSafety`, `RecoverySafety`, `HistorySafety`. The invariant
adds to the checked ones `Fresh` (an unconsumed evaluation has inserted nothing,
so inserted rows are new), `Ranked` (positions do not exceed the number of
consumed evaluations, so the next consumption is the last one) and `Evidence`
(the counters of an active episode are at most the length of the current run of
observations). The last turns a counter that reaches the policy's count into a fact
about what was observed; it needs cardinalities of sets of evaluations.

*Replay* (`ReplayProofs`): `TypeCorrect`; `WindowOwnership`, a worker that scores
a window inserted its row and nobody else scores it, and from it `VerdictSafety`;
`TickSafety`, assuming that nobody seeks, from the invariant that all ticks
before the one a worker is about to emit have been emitted (`Contiguous`);
`TerminalSafety` and `EmissionSafety`, assuming one worker, from the invariant that
what the worker has read of the run still holds (`Fresh`).

*AnalysisGraph* (`AnalysisGraphProofs`): `GraphTypes`, `DiagnosisIsCharged`,
`ReviewIsNotBypassed`, `NoRunaway`, for any evidence, any scores and every answer
the schema of the chat model admits. The invariant is
`GraphInv == Typed /\ Rechecks /\ Decided /\ Filed /\ Charged`:

* `Rechecks`: a disagreement of the first verification is met in the first
  iteration and leads only to a second one; so the guard's way out for an exhausted
  loop cannot be taken while the disagreement is unchecked. This is where
  `MaxIterations >= 2` is needed: `settings.py:63` admits 1, and with 1 the
  property fails (section 5).
* `Decided`: behind the last assessment the decision stands on the evidence, which
  no later node changes. Two lemmas about the operators carry it, `PolicyDecides`
  and `GuardDecides`.
* `Charged`: a diagnosis that was called for and not charged still has its
  reservation, its evidence is still diagnosable, and the checkpoint is still
  before the node that charges; the next attempt therefore cannot pass by.
  `Sparing` counts: an attempt that has not called the model yet has one call left.
  `DeathKeeps` says once, for every action, that the end of an attempt disturbs
  nothing.

`NoRunaway` counts nodes: two for every search and for the diagnosis, four for a
revision, so at most `2 * MaxIterations + 15`; 31 for the eight iterations that
are admitted, where `graph.py:181` allows 64. It assumes a chat model that does not
ask for the diagnostic worker, as its prompt tells it; the schema would let it.

*AgentRuns with one server* (`OneServerSafety`): where one process runs, as the
repository documents, a run whose task is completed is completed itself, and a
coroutine fails a run only when its attempts are used up. The hypothesis `OneServer`
is needed: on the instance of `lease`, with two servers, TLC refutes both: a lease that
runs out is taken over while its old holder goes on. `Sole`,
proved over `Inv`, says that the only coroutine of a run holds its lease from the
claim to the end, and that behind a stored result, in this attempt or by its
checkpoint, the run is completed; a cancellation or an expiry in between is
noticed because `complete_run` asks whether it updated a row. Together with
`LineageSafety` this is what `FinishedRunIsCompleted` of the run `graphs` asks.

*PriorityEvaluations* (`PriorityProofs`): `EvaluationInvariance`, `EvaluationTypes`,
`AnswersCoverTheData`, `NewestEvaluationIsActive`. The invariant is
`EvaluationInv == EvaluationTypeOK /\ LoadedInOrder /\ EvaluationsCurrent /\ RequestsSound /\ ActiveIsCompleted /\ LossesCounted /\ OneActiveOfDefault /\ NewestIsActive`:

* `LoadedInOrder`: features come after their window, a window after its substation.
* `EvaluationsCurrent`: an evaluation that is not marked as changed covers all that
  the loader has committed up to its time; a later commit marks it, in the same
  step. A request that is scoring carries the same mark (`ScoredIsCurrent`).
* `KnownIsStored`, `ScoredIsKnown`: what a request knew when it asked stays stored,
  versions only grow, and what it scores or is answered with covers it. An answer
  may thus be newer than the question, and is never older.
* `NewestIsActive`: without a failure some active evaluation is as new as every
  completed one. `LossesCounted` is why the hypothesis is about failures: a commit
  whose acknowledgement is lost leaves none active (section 5).

*PriorityScoring* (`PriorityProofs`): `GateSafety`, `RankSafety`, for any finite batch
and every answer of the models to the millionth, where TLC enumerates the thresholds.
`ScoringInv` says that from each stage on a row is what the stage makes of the answer.
The lemmas are about the arithmetic: a score that is rounded before it is compared
against one that is not, points per band that are monotonic in the evidence, and
ranks, which count the rows before a row in a strict order; so they have no ties
and no gaps (`Cardinality` of nested sets). "At least as strong" (`AtLeast`) has to
include the likeliest bucket: evidence that is nearer in every probability can still
be likeliest in a later bucket and have fewer points. `MCWindows` has answers on both
sides of it.

*Retraining* (`RecordsProofs`): `RetrainingTypes`, `ProductionSafety`. `RetrainingInv`
ties each job to its task, candidate and files (`JobInv`: a job that trains is
running, has a baseline and something to restore; a candidate has files), each
request to what it acts on (`HandlerInv`), and says that at most one deployment is
active (`ActiveInv`). `ModelsInv` follows the production models through training,
restoring and promotion: while nothing is disturbed at most one job or request is at
the models, what it will restore or activate is deployed, and if nobody is there the
models are. It is an invariant except behind a disturbance: an activation or
restoration that fails, a server that dies at the models, or two of them at once. The
property names these and no others, and each can happen in the code (section 5);
`ActivateCandidate` shows that the next undisturbed promotion ends what they left. That
a job is trained once and that one deployment is active holds in any case.

*Migrations* (`RecordsProofs`): `MigrationInvariance`, `MigrationTypes`,
`LedgerSafety`. `MigrationInv == LedgerOK /\ ` one migrator has the lock `/\ MigratorInv /\ ServerInv`:

* `LedgerOK`: the versions with a row are the first ones; a row has the name of its
  version, or of the next one where the lineage was renumbered, and its objects are
  there; a signature is the whole release's or none.
* `MigratorInv`: who works has the lock; all versions before the one it is about to
  execute have rows; between executing a script and inserting its row only the
  checkpoint's row can be missing.
* `Settled`: a migrator of the newest release that is done leaves it whole, and no
  other one changes it from then on.

The releases are the two there are (`MigrationsAssumption`: 18 and 22); the number of
migrators and servers is arbitrary.

*ReviewChat* (`ReviewsProofs`): `ChatInvariance`, `ChatTypes`, `ConfirmationSafety`, for
any number of requests, messages, restarts, and reviews and edits outside the chat.
`ChatInv == ChatData /\ ChatLocks /\ ChatSteps /\ ChatKeys /\ ReviewEffects /\ DocumentEffects /\ RunEffects /\ ScheduledIsLive`:

* `ChatLocks`: the thread and each proposal are locked by one request, and a
  proposal that is being confirmed awaits confirmation.
* `ChatSteps`: what a request has checked under its locks still holds when it
  writes. A draft's message is still new; nobody is confirming a proposal that the
  draft makes stale; the version a review is recorded behind is still the latest.
* The three `Effects` count: every review, document version and run that names a
  proposal as its author is the one this proposal was to leave, and every executed
  proposal has left it. Each is one clause in each direction; once and as a whole
  are then the same statement.

*WorkOrderRevision* (`ReviewsProofs`): `WordingInvariance`, `IntentSafety`,
`ScopeSafety`. `IntentSafety` is for every set of words a message may consist of and
follows the parser's tests in their order. `ScopeSafety` is an action property for
every work order and every answer of the language model: sequences of lines of any
length, any headings in any order, also the same heading twice. Its state invariant
is small (`DraftInv`); the work is in lemmas about sequences, one for each way to
answer: a splice keeps the lines before and behind it (`SpliceOf`, `OthersStay`),
the section that is spliced in is found where it was (`SectionFound`,
`TargetIsSpliced`), a section that was missing is appended apart from the others
(`NewSectionIsApart`), a bounded answer has no heading (`ReplacementHeadless`), an
item is replaced between its neighbours (`ItemReplaced`). Where the answer for a
title begins with a heading, the title becomes a section, so `TitleIsHeading` is
excepted. Where the part was an empty section, the heading behind it is taken into the
replacement (`SwallowsHeading`): the property then says that this heading is all that
goes. The safety section has to have an instruction in force when the message calls it
by its name; under another label it is not guarded (`guarded`). All three are in
section 5.

*Only model-checked.* The liveness properties `EveryRunEnds` and `RunningRunEnds`:
liveness under fairness, and ENABLED, are out of this prover's reach.
`ImplementsVersionedRecord` as one formula: its five kinds of record are proved apart. The
composed `TypeOK` of `MCRecords` and `FinishedRunIsCompleted` of `MCGraphs`: they are
conjunctions over instances, whose parts are theorems of the components
(`RetrainingTypes`, `MigrationTypes`, `ChatTypes`, `ReviewTypes`, `DocumentTypes`,
`PolicyTypes`, `ReportTypes`; `TypeCorrect`, `LineageSafety`, `OneServerSafety`,
`GraphTypes`, `NoRunaway`). Induction over data is out of reach too, so no module
declares a recursive operator and no theorem says what a fold computes. The
violations are counterexamples, and need no proof.

## 5. What disagrees with a document, and other observations

Five runs show the code contradicting a sentence of its documentation; `findings`
in `PROJECT.json` quotes it.

* `active`: `_set_agent_run_status` has no guard (`B/agent_run_repository.py:515`),
  so an expired run is marked running beside its successor.
* `takeover`: `persist_tick` inserts for any worker, moves for the owner only
  (`B/replay_repository.py:150`).
* `own`: the envelope of a copied row carries the parent's run id (`A/graph_v2.py:115`).
* `unstored`: migration 007 requires a column that `_insert_feedback` does not write.
* `streams`: an evaluation takes the latest window, whatever stored it
  (`P/evaluation.py:54`).

Further observations were met while modelling. The models contain what they
are about; none is the subject of a run.

**Runs.** A request without `force_new` gets a cancelled run
(`B/agent_run_repository.py:142`; `docs/14_AGENT_RECURSIVE_AUTOMATION.md:219` speaks
of completed and running ones). A run that waits for the slot can be expired by a
reader (`:295`). Two attempts at a child that overlap, or a configuration that is
rolled back, let the child go on as its parent. Of two attempts at a child that
overlap while its parent is still executing, the later one may copy a row behind a
stage the earlier one has computed; an attempt that comes to it with that stage's
output is then refused the row without any redeployment (`child` in `graphs`). The task status "released" is never
reached.

**Graph v1.** An LLM that answers `diagnostic_worker` loops until the recursion limit
(`tests/test_agent_state_policy.py:94` expects the guard). A crash between
`finish_diagnostic` and the checkpoint loses a diagnosis that was paid. With one
iteration a disagreement ends without a second look. Where no model could be asked, a
run behind a diagnosis may finalize (`docs/15_AGENT_FOUNDATION_HARDENING.md:35`). The
tokens used can exceed the 4,000 that were reserved.

**Alerts, evaluations, scores.** An open critical episode that de-escalates keeps its
level (`src/tests/test_alert_episode_policy_regressions.py:4`). An alert that is
inserted again aborts the whole consumption. A posted evaluation for a future
`as_of_time` stays active; a commit whose acknowledgement is lost leaves none active;
two readers may evaluate the same data; an evaluation between a window and its
features marks the substation "missing". M1 always requires a review. Two paths alert
by different conditions (level, `anomaly_label`). The risk .9199999 is shown as 99.8,
so a "high" may rank above an "urgent"; more near-term evidence can lower the earlier
policy's points. `_evaluation_context` passes an argument (`substation_uid`) that the
callee does not take; the TypeError is swallowed.

**Replay.** Reset and seek move the position and leave the ticks
(`B/replay_worker_main.py:149`): a run that is started again stops at the first tick
it has emitted before, since `persist_tick` then inserts nothing and returns. A seek
or speed that cannot be parsed raises at every claim (`:155`). Windows that failed are
not retried.

**Reviews, chat, documents.** A confirmed "hold" is refused by `record_review`
(`docs/report/08_frontend_handoff_replay_review_agent_ko.md:35`). A rejection for a
draft issue becomes a question, where that document (`:66`, `:104`) has a proposal
with a child. After `schedule_failed` a repeated confirmation succeeds and leaves the
request `schedule_failed`. The chat may write a version over an approved work order,
and from a historical parent. A lock is held while the LLM answers, and two orders of
locks deadlock. An answer for the title that begins with a heading makes the title
that section. An empty section is replaced without an end of line
(`B/review_chat_service.py:1393`, `:1439-1441`), so the heading behind it becomes part
of the replacement's last line. A safety section that the console's request quotes as
보호구 or 주의사항 resolves to 안전 확인 (`:1192`), while the guards of `:458` and
`:1011` look for that name in the label, so an answer without an instruction is saved.
A review recorded while its run executes is undone by the completion. A retry of an
operator review answers "not_routable" though its child exists. `request_hash` leaves
out the run id. Policy candidates are decided again from any status.
`patch_work_order_field` stands unreachable in another function
(`B/incident_document_repository.py:289`), so the PATCH raises; an edit reads the
approval without a lock; approve does not look at "failed"; an early answer of
generate leaves its key `running`. A rewrite of the whole document may drop the safety
section; deleting the last item of a section is refused as unsafe, deleting a middle
one validates the next; a follow-up of a question is always a question; "상황 요약"
contains "요약", and "근거 부족" is never reached.

**Reports.** Nobody runs the scheduler periodically. A failed period that is older
than the lookback stays overdue. A report that takes more than ten minutes is claimed
again, and complete and fail do not ask who claims. A handover memo around the
boundary can miss the official report.

**Retraining, migrations.** A crash, an activation that raises behind the committed
deployment (`B/retrain_routes.py:133-139`, `B/retrain_service.py:73-79`), or a
retraining or promotion during another leave models that no active deployment names
(`docs/14_AGENT_RECURSIVE_AUTOMATION.md:88`, `B/retrain_service.py:91-135`). An
exception after completion marks a job failed whose candidate awaits promotion.
Promote and reject can race and leave a rejected candidate deployed. Loaded models are
cached, so a promotion shows after a restart. The automation checks for a job and
creates one in two transactions. Nothing resumes a running job, and as long as one is
running the automation creates no other. The bootstrap cannot go on after a stop
between 001 and 005 (`src/src/heatgrid_ops/db/migrations.py:250`, `:725`).

**Console.** Late answers land in the group that is shown when they arrive;
`rerunning` is lost on remount; one transient poll error marks an analysis failed; in
`useSensorStream` the failure of a cancelled connection starts the fallback, and polls
may arrive out of order.

## 6. What is not modelled, and why

* *Work orders and rendering, frontend layout*: formatting without a state that
  others depend on. What a revision may change is in `WorkOrderRevision`.
* *RAG, weather*: clients whose answer is one of the graph's inputs; they are
  choices in `AnalysisGraph` and `PriorityScoring`.
* *Third model, training numerics*: computation on arrays, nothing that interleaves
  and no integer arithmetic that a model checker could bound. Their results enter as choices.
* *Console*: a client. Its polling is a fairness assumption; its own ordering is in
  section 5 only.
* *Scripts, notebooks, data, the handoff package*: run by hand, once, over files.
* Partly modelled: token counts of the diagnostic child rows (within the limit or
  not), the review tasks of jobs and candidates (they control nothing), the position of
  `seek` and the value of `set_speed` (any position, one speed), the automation's policy
  texts.

The modules cover the order of things in the server, its workers and its database.
A large part of the repository's lines is in the components named here, and the
map covers about a sixth of all its lines.

## 7. Plan

1. `ReviewChat` composed with `OperatorReviews`: its child runs, and the reviews both
   of them write.
2. The parent's budget with the diagnostic children as counts: children stay within the
   parent's limit for any number of coroutines.
3. `AlertEpisodes` with `PriorityEvaluations`: consumption in the order of evaluation.
4. `Retraining`: what a restart would have to restore for the models to follow the
   deployment behind a crash or a failed activation.
5. The console's stream and run polling as modules.
