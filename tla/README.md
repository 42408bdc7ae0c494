# A formal model of the OpenHands agent research lab

TLA+ modules for the part of the repository that has to be right when
controllers crash, overlap and resume: the campaign runner, its file store, its
schedulers, the workers and the ways controllers are deployed. TLC checks the
modules on small instances; TLAPS proves the central facts for every value of
the constants. Paths below are relative to the repository root.

## The system

A *campaign* is a set of tasks and an attempt budget. A *controller* process
(`src/research_lab/runner.py`) takes the lock of a file store, opens or resumes
a *run* of the campaign, and makes *attempts*: a scheduler picks a task and the
lessons to hand over, a worker returns a contract, a validator scores the
candidate, an improving attempt may promote a lesson, and the attempt is
recorded. Every transition is journaled, so that a later controller can finish
what a dead one left.

| Component | Source | State | Operations |
| --- | --- | --- | --- |
| Campaign runner | `src/research_lab/runner.py` | attempts in memory, attempt in hand, cap | run, resume, reconcile, execute, record |
| File store | `src/research_lab/store.py` | manifest, attempts, lifecycle journal, lessons, report, lock | create_run, append_*, list_*, save/find lessons |
| Schedulers | `src/research_lab/scheduler.py` | none | choose |
| Enterprise worker | `src/research_lab/workers.py`, `openhands.py` | start task, conversation, sandbox (remote) | capacity gate, start, poll, wait, dwell, pause, recover |
| Canvas worker | `src/research_lab/canvas.py` | workspace, conversation (remote) | create, run, wait, recover |
| Git-checkpointed controller | `experiments/in-platform-controller/` | clone and state branch | tick, checkpoint (commit and push) |
| Kubernetes tick | `experiments/agent-canvas-kubernetes/controller/` | store on a volume | tick |
| Contract parser | `src/research_lab/contracts.py` | none | parse |
| Validators, heuristics | `src/research_lab/benchmark.py`, `workers.py` | none | validate, solve |
| Matched comparison | `src/research_lab/comparison.py` | two runs | run both arms, summarise |
| Concurrent pilot | `experiments/enterprise-sandbox-grouping/scripts/` | shared capacity | check, launch in threads |
| Terminal events | `src/research_lab/enterprise_events.py`, `openhands.py` | event stream, records | watch, poll, read the answer |
| Evidence export, CLI, dashboard | `evidence.py`, `cli.py`, `dashboard/` | files | export, parse arguments, render |

Components meet in few places. The runner calls the scheduler with its list of
attempts and the store (for lessons); it calls the worker with a callback that
journals; the worker talks to the platform, whose state outlives the
controller; the store is the only thing two controllers share. In the Git
deployment each controller has its own store and the state branch is shared.

What is hard here: the durable writes of one attempt are many and a crash may
fall between any two; the platform acts before the journal says so; the lists
of attempts and lessons are read once and kept in memory; a resumed attempt is
executed by another process than the one that selected it.

What makes each part correct, and where it is hard:

| Component | Correct if | Hard behaviour |
| --- | --- | --- |
| Runner and store | one controller at a time; the ledger is a prefix of the sequences, each attempt settled once; a resume never finds a ledger it refuses; caps are kept; scores improve on what came before | crash between any two writes, crash of a recovery, memory that may be stale |
| Schedulers | the choice is a function of the attempts, and no task is left behind | ties, tasks without a valid score |
| Enterprise worker | the launch lock holds as far as the gate can see; no answer is lost to a cleanup; no completed attempt leaves its sandbox running; every attempt ends | late starts, lost answers to a POST, a recovery next to the traces of a cleanup |
| Concurrent batch | no worker stops another's sandbox; success leaves nothing running; the batch ends | threads behind one check, starts that no event names |
| Git controller | one author of the branch at a time; a claim is pushed before it is acted on; the branch only grows and stays resumable | overlapping ticks, sandboxes with leftovers, a push refused half way |
| Canvas worker, Kubernetes tick | no attempt runs two conversations, recovery launches none, the lock on launches holds for the campaign's own conversations, the budget is spent, the status file tells the truth | a tick that reads the store before it has the lock; crash between creation, journal and run; conversations that go on when nobody waits |
| API client | a request with effects is sent once, reads are retried within their limit | lost answers, rate limits |
| Contract parser, validators, heuristics | they agree with their reference definitions | malformed and repeated contracts, ties and boundaries |
| Terminal events | a confirmed end is the end; an end is found although nobody was connected; the answer is the last one and whole | a stop hook that resumes the agent, a record and an index that converge late, a paused sandbox |
| Comparison | its running sums are those of the report | attempts that fail or do not improve, a score of 0 |

## Modules

| Module | Models |
| --- | --- |
| `ResearchData` | documents of the ledger, constants and their assumptions |
| `Scheduler` | the two policies as orders on tasks |
| `ResearchLedger` | what the store promises: claims in order, one at a time, each settled once |
| `CampaignRunner` | controllers, store, lock, journal, memory, worker seen from the runner, crashes |
| `GitController` | ticks in sandboxes with a state branch as shared memory: checkout, checkpoint, push, crash |
| `CanvasController` | overlapping jobs of the Kubernetes tick: reading the store, its lock, the runner's attempt, the Canvas worker, the status file |
| `OpenHandsWorker` | the Enterprise worker and its client against a platform that acts on its own: gate, launch, waiting, dwell, pause, crash and recovery |
| `EnterprisePool` | the concurrent batch: workers of `OpenHandsWorker` in threads, the seed, the cleanup, the exit status |
| `ConversationEvents` | how an end and an answer are learnt: the websocket, the records, the index of events |
| `ResilientRequester` | which replies are retried, for which methods |
| `WorkerContract` | which contract is read out of a final text |
| `Benchmark` | the validators and the offline worker's heuristics |
| `Comparison` | the quality figures of an arm |
| `Sums` | sums of sequences of numbers, external to the repository |
| `MCCampaignRunner`, `MCGitController`, `MCCanvasController`, `MCOpenHandsWorker`, `MCEnterprisePool` | small constants for TLC |
| `MCAlgorithms` | bounded inputs of the pure modules, and their reference definitions |
| `ResearchLedgerProofs`, `CampaignRunnerProofs`, `CampaignRunnerHistoryProofs`, `GitControllerProofs`, `CanvasControllerProofs`, `EnterprisePoolProofs` (worker and batch), `ConversationEventsProofs`, `AlgorithmsProofs` | theorems |

`ResearchLedger` is the abstract specification of three others: `CampaignRunner`,
`GitController` and `CanvasController` implement it under a mapping each.
`EnterprisePool` composes `OpenHandsWorker` with the main thread of a batch.
`GitController` and `CanvasController` contain the runner as far as one tick
executes it, over another store each.

### CampaignRunner

Durable variables are the files: `manifest`, `attempts`, `journal`, `lessons`,
`report`. `proc[c]` is the memory of controller process `c`, whose `pc` is the
place in `_run_locked`; a process that returns, raises or dies falls back to
`Idle`, and `flock` is released with it. `launches` and `answer` are the remote
platform: how many conversations were created for an attempt, and the contract
in the last transcript.

| Action | Code |
| --- | --- |
| `Start` | `run` up to `controller_lock` |
| `OpenRun`, `Refuse`, `Load` | `create_run` or the manifest check; `list_attempts`, its checks, the pending attempts |
| `Recover` | the loop of `_reconcile_incomplete_attempts` and the head of `_execute_attempt` |
| `Choose` | the loop over the budget, `scheduler.choose`, `attempt_selected` |
| `Execute`, `Launch`, `JournalLaunch` | `worker_started`, `start_conversation`, `start_task_created` |
| `WorkerRaises`, `WorkerReturns` | the `except` branch; `parse_worker_contract` and `_record_successful_execution` |
| `AppendAttempt`, `MarkRecorded` | `append_attempt`; `attempt_recorded` and `attempts.append` |
| `Finish` | the report |
| `Crash` | the process dies, or an exception outside the caught ones ends it |

Abstractions: a task is its place in the order of ids; a lesson id is the pair
it hashes; scores are numbers where smaller is better; a contract is its
verdict. Fresh ids (`uuid4`) are ids no event has used. Of the lifecycle events
only those are kept whose order or presence anything depends on. The conflict
checks of pending attempts are made together.

### GitController

Each controller `c` has a `sandbox[c]` (a clone: the move of the branch its HEAD
descends from, HEAD's files, uncommitted files) and the memory `proc[c]` of its
tick; `branch` is origin's state branch. A file is a path and the content that
decisions depend on. `Checkpoint` is one call of `GitCheckpoint` with the write
before it: nothing changed, pushed, refused (the tick dies with
`CalledProcessError`), or interrupted before the commit or before the push.

| Action | Code |
| --- | --- |
| `Prepare` | the checkout of main in `prompt.txt`, then `_prepare_state_branch`, including a failing `ls-remote` and a checkout that git refuses |
| `NextTick`, `EndTick` | `persistent_supervisor.py`; a tick that ends or is refused by the runner |
| `CreateRun`, `Recover`, `Choose` | `_discover_run_id` and the runner with `max_new_attempts=1` |
| `Execute` .. `MarkRecorded` | the attempt, each file with its checkpoint |
| `Report`, `Status` | `report.md`; `controller.json`, also when the budget was spent before |
| `Crash` | the tick dies between two checkpoints |

Fast-forward is decided by counting the branch's moves: a clone that descends
from the last move is the only one whose push is accepted. The events of a
worker that only add further checkpoints (`capacity_checked`,
`conversation_ready`, ...) are left out: each is one more push of the same kind.
A launch while the sandbox is lost is `Crash`.

### OpenHandsWorker

The campaign runner sees a worker as three steps; this module opens them.
`phase[a]` is where the worker is in attempt `a`, and the attempt's end once the
runner has recorded it. `journal`, `start` and `seen` are what survives a crash:
the kinds of lifecycle events, the start task and the sandbox they name. `conv`,
`sandbox` and `strategy` are the platform's.

| Action | Code |
| --- | --- |
| `Begin`, `Record` | the runner's loop; `append_attempt` |
| `CheckCapacity` | `capacity_snapshot`, and the `RuntimeError` above the launch lock |
| `Launch`, `JournalStart` | `start_conversation` (a POST, not repeated when its outcome is unknown); `start_task_created` |
| `SeeReady`, `StartFails` | `poll_start_task`; the snapshot in the event `conversation_start_failed` |
| `SeeTerminal`, `WaitFails` | `wait_for_terminal` with its reading of the events; deadline, lost sandbox, failing call |
| `ReadAnswer` | `final_response` and the artifact |
| `Return`, `Dwell` | the controlled dwell and the return |
| `RequestPause`, `Pause` | the `finally` clause |
| `Crash`, `Resume` | the process dies; `recover` or `execute` again |
| `Escape` | an exception that `runner.py:399` does not catch: the process ends, nothing is recorded |
| `Place` .. `LoseSandbox` | external: what the platform does |

A call succeeds or fails for good: which replies are retried is the subject of
`ResilientRequester`, and how an end is found that of `ConversationEvents`. A
call that fails for good raises something that the runner records as a failed
attempt ("broken"), or a `ConnectionError` that it does not catch ("escaped"):
`CallFails` is either, except in `wait_for_terminal`, whose loop treats a
`ConnectionError` as transient. Passing deadlines are choices that are open at
any time, since nothing bounds how late the platform is.

### EnterprisePool

It extends `OpenHandsWorker` with the main thread of the batch.

| Action | Code |
| --- | --- |
| `Open` | the capacity check of the batch |
| `BeginTask`, `TaskStep` | `run_task` in a thread of the executor |
| `SeedReady`, `SeedDone`, `SeedTimesOut` | the loop that watches the seed's journal |
| `ThreadEnds` | an exception that `run` does not catch ends the thread; nobody resumes its attempt |
| `Collect` | the results of the futures; `result()` raises such an exception again, and `main` ends without the cleanup once all threads are done |
| `CleanUp`, `Exit` | pausing what `sandbox_ids_from_lifecycle` names; the exit status |

### CanvasController

`lock`, `opened`, `claimed`, `named`, `record` and `workdir` are the store on
the volume: the runs, the journaled selections, the conversation that an
attempt's `conversation_ready` names, the records, the local workspaces. `job[j]`
is the memory of one tick, `conv` the backend's conversations, `setup` the
deployment.

| Action | Code |
| --- | --- |
| `Plan`, `Refuse`, `Complete` | `main` of `controller_tick.py`: the run to resume or to start, before the lock is taken |
| `TakeLock`, `LockBusy`, `OpenRun` | `controller_lock`; `create_run` or the manifest to resume |
| `Select`, `AppendAttempt`, `Return` | the runner with one attempt: recovery of the pending one or the next one; the record; the report |
| `CheckCapacity` .. `RunConversation` | `CanvasWorker.execute`: gate, workspace, `run: False`, `conversation_ready`, the run request |
| `SeeTerminal`, `TimeOut`, `ReadAnswer`, `CallFails` | `wait_for_terminal`, `final_response`, a call that raises |
| `WriteStatus` | the second reading of the store and the status file |
| `Crash`, `Escape` | the pod is killed; an `OSError` that only the command line catches |
| `Ends` | external: a conversation ends |

A campaign has one task and one policy here, since `CampaignRunner` answers for
the choice. Other users' conversations are a number that each capacity check
finds anew.

### ConversationEvents

`log` is what the agent server keeps; `record` and `indexed` are what the
platform's API shows of it, each late in its own way; `ws` is the watcher of
`enterprise_events.py`, `rest` the polling of `openhands.py`.

| Action | Code |
| --- | --- |
| `Stream` .. `Break` | external: the agent, its answer, its tools that fail, its requests to confirm, the stop hook |
| `RecordConverges`, `Index`, `LeaveSandbox` | external: the platform |
| `Connect`, `Receive`, `SocketFails` | `wait_for_terminal_websocket`, `terminal_signal` |
| `Poll`, `Fetch`, `Scan`, `RequestFails`, `RestTimesOut` | `wait_for_terminal` with `terminal_status_from_events` |
| `ReadAnswer`, `AnswerFails` | `final_response` with `latest_agent_text` and `streaming_agent_text` |

A text is the sequence of events it is made of, so that "whole" and "last" can be
said of it. An agent that stops has said or streamed something. The three kinds
of error event that decide a scan are one kind here: after an `AgentErrorEvent`
the agent goes on (`UseTool`), after the others `Break` may follow. "stuck" goes
as "error" does. `waiting_for_confirmation` ends a wait as well, but not the
conversation: the user may confirm (`Resume`).

The record and the sandbox change only before a poll, which is where either is
read, and the index stands still while `final_response` works on events it has
already; other orders would show the readers nothing else.

### The pure modules

Their operators are the functions of the source, over data that is reduced to
what the functions tell apart: a text is a sequence of tokens, a reply is a kind
with the statuses its message quotes and whether the server did the work,
qualities are counted in fractions of a common multiple. `MCAlgorithms` makes
every input up to its bounds a state.

## Runs

| Run | Instance | Shows |
| --- | --- | --- |
| `runner` | 2 controllers, 2 campaigns, budget 2, remote worker, 2 crashes, fair | one incomplete attempt, dense journal, no resume refused, no launch after a journaled one, every opened run is completed |
| `runner_ledger` | 1 controller, budget 3, 2 scores, both policies, remote worker, 1 crash | even coverage, improvement, the lesson cache, refinement of the ledger |
| `git_race` | 2 controllers, 3 ticks, fresh sandboxes, 1 fault | one author at a time, claims before launches, the branch stays resumable and implements the ledger |
| `git_live` | 1 controller, fresh and reused sandboxes, fair, 1 fault | leftovers of a dead tick do no harm; a tick per attempt and per fault completes the campaign |
| `git_duplicate` | 2 controllers, 2 ticks, no fault | overlapping ticks launch one attempt twice |
| `git_ghost` | 2 controllers, reused sandboxes, 1 fault | a leftover selection can make the branch unusable |
| `canvas` | 2 jobs, 4 deployments, budget 2, 1 crash, 1 fault, fair | one running conversation per attempt, none launched after a journaled one, the campaign's own share of the lock, a truthful status, the budget is spent, refinement of the ledger |
| `canvas_overlap` | the same without crashes and faults | two jobs that start together open two runs |
| `worker` | 2 attempts one after the other, 4 start tasks, 1 crash, 1 fault, fair | pausing before completion, no answer lost to a cleanup, the dwell, every attempt recorded |
| `pool` | 3 tasks, 2 threads, both grouping strategies, 1 fault, fair | how far threads pass the lock together, nobody loses a sandbox to another's cleanup, success means clean, the batch ends |
| `events` | 2 steps, 2 deltas each, 1 fault, fair | a confirmed end is final, the status of a poll is true, the answer is last and whole, an end is found without a deadline |
| `algorithms` | all inputs within bounds | scheduling, quality figures, contracts, retries, validators and heuristics agree with reference definitions |

Bounds. Two controllers are enough for the lock, since a third could only wait
as well. Two crashes let a recovery itself be interrupted. A budget of three
over two tasks makes the scheduler return to a task, so that an improvement can
be judged against an earlier attempt. Two campaigns let a
resume meet a manifest that is not its own; several runs in one store are left to
the proofs, which hold for all runs.
`LessonLimit` is 1 instead of 3, so that the limit cuts.

In the Git runs three ticks let one die, one take over and a third come back to
what both left; `ImplementsLedger` is checked in fresh sandboxes, because a push
from a reused one may carry several files and so several steps of the ledger.

In `canvas` two jobs are enough to overlap, two attempts to leave a conversation
behind while the next one starts, and two runs for the doubled run of overlapping
jobs. The launch lock is 1, so that one conversation too many shows; the one
other conversation fills it. The four deployments are those in which the code
takes different paths: scheduled jobs on a backend that obeys `run: False` or
not, a local workspace, jobs started by hand.

In the worker's runs `LaunchLockAt` is 1, so that one sandbox too many shows.
Three sandboxes let an attempt lose a conversation and start another next to
that of the other attempt. Four start tasks are what `worker` can use up: one
for each attempt, one that a crash makes the next process forget, and one that is
lost with the exception of its own POST. The third task of the pool waits for
a thread while the other two work.

In `events` two steps give the stop hook something to resume; two deltas are the
shortest stream that can be cut; the window of six holds a message from
before a stop hook next to the deltas of the next answer, and is shorter than
the log. The `algorithms` inputs are: histories
of up to 4 attempts over 3 tasks with scores 0 to 2, texts of up to 4 tokens,
scripts of 3 replies for 2 retries, all graphs of 4 nodes in two orders, covers
by 3 sets, packings of 4 items with weights up to one above the capacity, and
candidates with repeated, missing and unknown ids: assignments to any of the
nodes and a node that is not there, up to three sets or bins.

Fairness (`FairSpec`). A process that can step does: the worker calls have
timeouts, so none blocks for ever. The schedule (cron, the supervisor loop)
invokes the controller again and again; an invocation finds the lock free
infinitely often because every process ends, hence strong fairness of `Tick`.
Crashes are bounded, which is the assumption that they eventually stop.
In `GitController` weak fairness of `Prepare` is the schedule that dispatches
ticks, and `MaxTicks` makes it a claim about how many are needed.
In `CanvasController` each job goes on and is scheduled again; the backend need
not end anything, and may be full for ever.
In `OpenHandsWorker` and `EnterprisePool` only the controller's own steps are
fair: every call and every wait has a timeout. The platform may do nothing for
ever, and attempts and batches end all the same.
In `ConversationEvents` the watcher and the controller go on and the index
catches up; neither the agent nor the record need move, and no deadline is
relied on.

### What the runs taught

Three runs end in a counterexample on purpose; `PROJECT.json` quotes the lines
they contradict. Some limits of the code are not properties of their own but
part of how the properties above had to be stated:

- The managed scheduler compares the numbers of attempts before it looks for the
  weakest score, which `docs/design.md:143` does not say.
- A controller that dies between `start_conversation` and `start_task_created`
  launches the attempt's conversation again (`NoLaunchAfterJournal` counts
  launches from the journaled one only).
- The lesson of an improving attempt is saved at `runner.py:492`, before the
  attempt is recorded. A crash in between, with a recovery that fails, leaves a
  lesson whose source did not improve, though by `docs/design.md:43` a lesson is
  retrievable only with a valid, improving attempt. No property asks for it.
- The launch lock of the Enterprise worker can be passed: by threads that saw the
  same count, and by starts that were given up and become sandboxes later
  (`OvershootIsBounded` says by how many). Canvas ticks cannot pass it by
  themselves, since a conversation runs only inside the store lock; they count
  other users' conversations, which may come at any time.
- `pause_sandbox` may raise a `ConnectionError`, which neither the `finally` clause
  (`workers.py:666`) nor `run` (`runner.py:399`) catches. Nothing is recorded and
  the process ends; the next invocation recovers the attempt, reads its answer
  again and pauses again, so `EndedWorkIsKept` and `CompletedIsPaused` hold all
  the same. In a batch the future raises it again (`run-concurrent.py:316`, `:326`):
  `main` ends without its cleanup, and nobody recovers the attempt. The same goes
  for a `ConnectionError` out of any other call but the wait.
- If a wait fails, the sandbox is paused and the controller dies before the
  record, then the recovery takes the requested pause for a finished dwell
  (the exception in `DwellBeforeCleanup`).
- With a local workspace, a Canvas tick that dies between `mkdir` and
  `conversation_ready` makes every later tick fail with a `FileExistsError`
  (`canvas.py:436`), so `TicksComplete` is stated for remote workspaces.
- A scan of a dead sandbox's events (`openhands.py:302`) believes the last end it
  finds, although a later "running" took it back, and any error event, although the
  agent goes on after an `AgentErrorEvent`. `waiting_for_confirmation` ends a
  wait though the user may confirm later. `RestStatusIsTrue` allows these and a
  lagging index, and no other untrue status. `final_response` prefers a `FinishAction`
  from before a stop hook to a later message, and any message or
  `FinishAction` from before it to a later answer that is in its deltas only (the
  exception in `AnswerIsLastAndWhole`). While the index lags, a fragment
  of the answer may be returned (`openhands.py:858`).
- An API error whose text quotes `HTTP 429` next to its own 5xx status is retried
  even for a POST, since errors are told apart by looking for a status in their
  text (`WriteIsDoneOnce` excludes such texts).

## Proofs

Every theorem holds for all values of the constants under the assumptions named
in the modules: sets of naturals for tasks and scores, a positive budget and
launch lock, `None` outside the data, attempts and bounds among the naturals.
`ResearchLedgerProofs` proves the promise of the abstract ledger.

*Runner.* `CampaignRunnerProofs` proves `TypeOK` together with the fact that a
process past its start has an invocation, and in the worker's steps an attempt
in hand, and then the inductive invariant `IInv`. The
properties of the ledger are not inductive: they say nothing of what a process
holds in memory. `IInv` adds three parts. `StoreInv`: every event belongs to a
journaled selection, the selections of a run fill its sequences in order, each
after the one before was recorded, and every record settles a selection.
`ProcessInv`: whoever is past `Start` holds the lock, and knows at each step of
the store what `Position` says. From it follow mutual exclusion, the freshness of
the memory, the prefix property, the single incomplete attempt, that no ledger
is refused on resume, and that `CampaignRunner` implements `ResearchLedger` under
the mapping that takes selections to claims and records to results.

`CampaignRunnerHistoryProofs` adds that the number in a process's memory is the
count of its attempt's events, so that each append takes a free number, and that
a process before its launch has journaled no start task; and what decisions rest
on: the cache is the saved lessons from the first lookup on, a draft is judged
against all of its run, and a pending attempt's task has as few attempts as any.
Mutual exclusion, the freshness of the memory, the prefix property and the
runner's types are shown by proof only.

*Git.* `GitControllerProofs` takes for a hypothesis that every tick starts in a
sandbox of its own (`Fresh`), as the automation does. `IInv` then says that
every clone is a version of the branch (`TreeOK`, `CloneOK`), the one of the
last move being the branch itself, and that each tick knows of its attempt what
its own clone says (`Position`). A push is a compare-and-swap on the branch, so a
tick that lost the race never adds to what it has not seen. One author at a time, a branch
that every later tick accepts, and the refinement of `ResearchLedger` follow. In
a sandbox that outlives its tick, files of a dead tick reach the branch together
with the next push: the first two do not hold there (`git_ghost`), and one push
may be several steps of the ledger. That a selection is on the branch before a
worker starts is proved without the hypothesis.

*Canvas.* `CanvasControllerProofs` proves `IInv`: only the lock's holder is
inside the runner; what a job has in hand is claimed, unrecorded and not yet
named before it names it; on a backend that obeys `run: False` only named
conversations ever ran; and a job that passed the gate still sees room, because
between gate and run nobody else can start one. The bound on running
conversations, one run per attempt, no second launch and the refinement of
`ResearchLedger` follow. That the least free sequence exists is proved from the
well-foundedness of finite sets. For the status file `OneAtATime` says what holds
while jobs do not overlap: there is one run at most, and a plan made before the
lock is still right when the job acts on it.

*Worker and batch.* `EnterprisePoolProofs` proves of the worker `IInv`: what phase, journal,
start task and sandbox of an attempt say of each other (`Placement`, `Paused`,
`Kept`, `Dwelt`), and an account of sandboxes (`Capacity`). `Kept` says that once
the end of a conversation is journaled, the platform shows it for ever, so that an
attempt can leave with a failure only when a call fails for good; an exception
that escapes is never recorded, and the recovery starts from the same `Kept`. The bound on the
overshoot is not inductive, since a sandbox appears long after its capacity
check. `Credits` are the attempts that passed the gate and may still get a
sandbox, `Loose` the start tasks that got one when nobody waited any more; running
sandboxes and credits together never exceed the lock, the other attempts in
flight and the loose tasks. Of the batch it proves who owns which sandbox:
a running sandbox holds a conversation, a conversation belongs to an attempt
unless an attempt fails, ungrouped conversations do not share, and nobody works
while the batch cleans up. It gives that success means clean and that nobody's
sandbox is paused by another.

*Events.* `ConversationEventsProofs` proves `IInv`: what each event in the log tells
of the agent, then and after a stop hook or a confirmation (`EndsOK`); the shape
of steps and streams (`StepsOK`, `SpeechOK`); that a record shows the end or a
request to confirm that was granted since (`HasConfirmed`); and that an observer
concludes something other than these only from the events of a dead sandbox
(`Concluded`), where the last event that decides a scan was a "finished" that is not
over yet or was taken back, an error event after which the agent went on, or was
not the last one of the log (`seen`). That a
confirmed end is final and that the status of a poll is true need no more, for
any window. That the answer is whole needs a window longer than a stream with
the two signals that follow it (`WindowCoversStream`): deltas outside the page
that the client asks for are missing from the text.

*Algorithms.* `AlgorithmsProofs` proves for inputs of any length that each policy
picks exactly one task, the one with the least key of the source; that the
contract which ends a text is read and nothing but the last JSON is; and that a
write is not done twice, for any number of retries.

The loops of the program are functions of how many rounds are done (`Rounds`,
`PartialSums`, `ColorRounds`, `CoverRounds`, `PackRounds`), which the prover can
reason about where it could not about folds. Each theorem about them goes the
same way: the rounds are what their recursion says (`RoundsExist` and its like),
and what holds before the first round and is kept by each holds after the last
(`CountedUp`, from the least round that would break it).

- *Figures* (`FiguresOfTheReport`). `FiguresAgree` is kept by every attempt: the
  best score of each task, the total and the area that `comparison.py` carries
  along are those of the report. It needs that replacing one term of a sum changes
  it by the difference (`SumOfChange`), that a valid attempt replaces the best
  score or leaves it, and that a prefix of the history is not changed by
  attempts that come after it. `FiguresAssumption` asks for numbers as targets.
- *Validators* (`ValidatorsDecide`). A packing is counted by the validator over
  places and by the problem over bins; `PackedOnceInOneBin` shows that they ask
  the same, `BinWeighsItsItems` that a bin without repetitions weighs what its
  items weigh. `NoItemTwice` is why a list as long as the number of its items
  repeats none, for covers too.
- *Offline worker* (`OfflineWorkerSolves`, `ColoringsWithinBounds`). After k
  rounds, k nodes have colors, each at most one more than it has neighbors
  (`Colored`); k sets are popped and none of them holds anything uncovered
  (`Covering`); k items are packed, and a bin is too heavy only if an item in it is
  (`Packing`). At the end nothing is left, so what the worker says is accepted if
  and only if the task can be solved; a cover of nothing counts as one that cannot,
  since the validator rejects an empty universe. `TasksAssumption` asks for a set at least:
  `_set_cover` fails on a task without any. Weights are whole numbers here, which
  the floats of the code add exactly.

Only model-checked: liveness (`RunCompletes`, `CampaignCompletes`,
`TicksComplete`, `AttemptsAreRecorded`, `BatchEnds`, `EndIsFound`), since fairness
and `ENABLED` are beyond the prover; and of `LocalCandidateIsGood` how far covers
and packings are from the best there are (the harmonic bound of greedy covers, the
factors of next fit and of first fit decreasing). Those bounds are known results
about the algorithms rather than about this code; TLC compares every instance with
its optimum. That the candidates solve their tasks, and the bound on colors, is
proved.

## Not modelled, and the plan

Modelled, checked and proved about: the runner with its store, the Git
controller, the Canvas worker with the Kubernetes tick, the Enterprise worker and
the concurrent batch, terminal events, schedulers, contracts, retries,
validators, heuristics and quality figures. What a further step would add: the
two campaigns of the matched comparison, of which only the figures are modelled
(they run one after the other in stores of their own); and for the Git
controller a version of its theorems for sandboxes that outlive their ticks but
hold no files of a dead one.

Left out, because they hold no state of a running campaign: evidence export, the
command line, the dashboard, the task tool comparison (a script that starts
conversations and tabulates results) and the primitives probe except for its
order of watching and polling. Also left out: the wording of reports, hashes of
candidates, merges of main in the Git deployment, deferred cleanup of the batch,
artifacts, automations and secrets.
