# vromvrom-engine: TLA+ models, model checking and proofs

This directory specifies the parts of the engine whose correctness depends on the
order in which things happen: the approval of risky plans, the execution of a plan and
the loan of its tasks to workers, the Git isolation of a session, the guard of the files
tasks write, the backlog and its drain, the executions of the server and how they are
stopped, the way of an utterance to the house, the cascade of models behind its circuit
breakers and the rotation of API keys. It holds TLA+ modules, TLC configurations
(`MC*_*.cfg`) and proofs for TLAPS (`*Proofs.tla`). `PROJECT.json` lists the runs, what
each definition translates, and the hazards; paths below are relative to the repository.

1. [The system](#1-the-system) – 2. [The modules](#2-the-modules) –
3. [The runs](#3-the-runs) – 4. [What the models show](#4-what-the-models-show) –
5. [What is proved](#5-what-is-proved) – 6. [Fairness](#6-fairness) –
7. [Limits](#7-limits) – 8. [Plan](#8-plan)

## 1. The system

A FastAPI server (`gui_server.py`, `api/routes/`) receives a request by HTTP, SSE,
voice or WhatsApp. `services/pipeline_service.py` opens a session and calls
`Engine.run` (`core/engine.py`): rules or a classifier route the request, an LLM
planner writes a plan (a DAG of tasks), a risky plan is stored and waits for a human,
any other is executed on an ephemeral Git branch by `DAGRunner` (`core/dag_runner.py`);
a reviewer and an acceptance contract give the verdict, the branch is merged or rolled
back and the session is closed. Every LLM call goes through a cascade of models, each
behind a circuit breaker.

There is one process. Concurrency comes from coroutines of its event loop (which
interleave at awaits), from threads (synchronous tools, rejections, synchronous LLM
providers), from the user who clicks and edits files meanwhile, and from restarts.
What survives a restart is in SQLite (`core/runtime_db.py`) and in the Git repository.

| Component | State | Operations | What makes it correct |
|---|---|---|---|
| Approval store, routes, resume service | table `hitl_pending_approvals`, session status, engine attributes | store a request and suspend, approve, reject, resume, abandon, cancel | a plan is replayed once, only if the plan the user saw was approved; every decision takes effect; the branch waits |
| DAG runner, healing, map-reduce | statuses in memory and in `dag_tasks`, priority queue, running jobs, retries | launch, wait, record, heal, block, add tasks, time out | dependencies first; nothing twice; memory and table agree; an end without error is the whole plan; it ends |
| Git safety | HEAD, working tree, stash, branches, branch of departure | prepare, commit/merge or undo, restore, checkpoints | the user's work is never destroyed nor committed; accepted work stays; refused work goes |
| Circuit breakers and cascade | state, failures, trips and timeout of each breaker; position of each call | skip, send, escalate, retry, record | a failing model is left alone, longer each time; a model that is back is used again; calls end |
| Key pool | index, cooldowns | hand out, limit, pardon | even rotation; a limited key rests |
| Blocking approval (`core/hitl.py`) | an event and a timeout for each request | wait, approve, reject, expire | a click and the timeout agree on one outcome |
| Backlog and DreamCoder | table of tasks, attempts, branches; providers in flight and in cooldown | add, reserve, update, release, sweep orphans; choose a provider, run, push, settle; decide | a task has one worker; attempts end; nothing is stranded; the user's decision stays |
| File tools | content, a lock and a fingerprint for each path | read, write | no torn reads; no lost update; no refusal for nothing |
| Workers and swarm | registry, heartbeats, dispatched tasks | register, dispatch, answer, expire, fall back | a worker runs one task; a task is redone only if its answer was lost; a worker that is up is used |
| Application state, executions | registry of sessions, requests in flight, status shown | begin, note, end, stop, purge | one execution for each session; a cap; a place never outlives its request; failures are shown |
| Voice: house, discussion, jobs, aborts | calls of Home Assistant, resolvers of an utterance, jobs, abort flags | resolve, check, call, replay, answer, acknowledge, announce, abort | one command, one effect; what is said done was done; a job says one thing; an abort is for those who speak |
| Backups | snapshots of the databases | snapshot, rotate, restore | a snapshot is one state of the database |
| Routing, memory, billing, authentication, providers' adapters, interfaces | texts, statistics, tables | | functions of their inputs; not sequences of steps |

Interactions: the pipeline writes the session status the approval jobs also write; the
engine's `_suspension_request_id` and `_git_branch_courante` are read in a `finally`
after awaits; the intents of one request share an engine; the approval job mounts a new
engine and finalises a branch another run prepared; a task of the DAG adds tasks to the
loop that runs it, or is lent to a worker under the loop's watchdog; calls of all tasks
share the breakers and the key pool; the drain starts only when the registry of
executions shows nobody, and its workers write rows the user decides on; streams of one
conversation share an abort event; a job of a discussion outlives the request that
acknowledged it. The hard behaviours are listed line by line under `hazards` in
`PROJECT.json`.

## 2. The modules

### Approval and ApprovalLedger

`Approval` is the non-blocking human-in-the-loop cycle: `core/hitl_store.py`,
`api/routes/approval.py`, `services/approval_resume_service.py` and what `core/engine.py` and
`services/pipeline_service.py` do around them. `store` holds the rows, keyed as the code keys
them (`dag_<session>_<number of tasks>`: `RequestId`); `session` and `branch` the durable
status of sessions and ephemeral branches; `run`, `job`, `suspension`, `courante`, `loaded`
what a restart loses. A run goes `StartRuns → AskApproval → Suspend → RecordEnd` or ends by
`FinishDirect`; `Approve` and `Reject` commit a decision and spawn a job; `ResumeStart …
ResumeMark` replay the plan, `ResumeRefused/Unreadable/Abandon` refuse it, `CancelClose` and
`CancelGit` run in a thread. The steps between two awaits hold the event loop (`loop`): other
coroutines wait, the thread and a crash do not. `clicked`, `view` and `replays` are what an
observer remembers. A plan and a branch are identified with the run that made them.

`ApprovalLedger` is what the cycle promises of one plan: unseen, waiting, rejected or
approved, running, settled, each once. `Approval!Fate` is the refinement mapping.

### DagRun

`DAGRunner.execute_dag` with the healing of `core/healing.py`, the tool `map_reduce` and the
controls of `Engine.executer_dag_et_controles`. One action goes from an await of the loop to
the next (`Pass`, `Launch`, `BudgetStop`, `Wait`, `Wake`, `TaskSucceeded`, `Record`,
`TaskFailed`, `Healed`, `NotHealed`, `TaskRaised`, `Cleanup`, …); jobs move in between.
`status` is `tasks_status`, `recorded` the successes of `dag_tasks`, `queue` counts each task
in the priority queue, `batch` and `current` are the locals of the loop. `TaskSucceeded` and
`Record` are two steps since the status is set in memory before the awaited write. The plafond
is chosen anew in each pass; the budget may end at any moment (`SpendBudget`); the time limit
of the pipeline may cut the loop (`Abort`), and so does a write that raises when a task is
launched (`LaunchRaises`: it is outside the `try`). A write that raises later (`StepRaised`)
may have been made or not. A `map_reduce` ends with its reduce (`Answer`), by the timeout of
the tool or the watchdog of its task (`GivesUp`); the agent of a corrective task may call it
too (`HealerMapReduce`, `HealerTimesOut`).

### GitSafety

`tools/git_safety.py`. `repo` is the repository (HEAD, uncommitted changes, stash, branches,
commits, branch of departure); one operator per Git command (`Push`, `Pop`, `ResetHard`,
`Commit`, `Checkout`, `Merge`, `Delete`), composed into `Prepare`, `Finalise` and the
checkpoint tools. What may happen besides is chosen at the start of each behaviour (`world`),
so that a property says in which worlds it holds. `Crash` ends the process between any two Git
commands of a call (`PrepareSteps`, `FinaliseSteps`) or between two calls; the session is
lost, the repository is left as it is, and the next session starts from there, as nothing is
put back at start-up. A stash, a checkout, a commit (`Recorded`, whose return codes nobody
reads), a merge and a pop, that of `Prepare` included, may fail in the worlds that say so; the
other commands do not.

### Cascade

`FallbackProvider` (`core/llm/providers/deepseek.py`) and `CircuitBreaker`
(`core/llm/circuit_breaker.py`). A call reads the circuit and sends (`Send`) or passes on
(`Skip`); the answer comes at a later step and is recorded into the circuit as it is by then.
`RateLimited` trips it and sends again through the circuit it has just opened; `Escalated`
throws away an inadequate answer. Time is counted in units of the recovery timeout (`wait`,
`Tick`); the provider of a model comes and goes (`up`).

### KeyPool

`core/key_pool.py` and the requests of `core/gemini_native.py`. Each operation of the pool is
one step under its lock; `Take`, `Limited`, `Rotate`, `RetrySucceeds` and `Pardon` are the
steps of `generate` between them; `TakeUnreported` and `CacheExpired` are the requests that
report nothing. `rejected` and `waiting` are history variables: the 429s still fresh, and for
each key those that were free ever since it was handed out.

### FileGuard

`read_file` and `write_file` of `tools/system.py` on one path, from the threads of the tasks.
A call goes `Look, LockToRead, Read, Stamp` or `LockToWrite, Accept, Open, Fill, Sign`, with
`Undelivered`, `Refuse`, `Vanished` and `WriteFails` as its early ends. The file is empty
("open") between `Open` and `Fill`, as `open(…, 'w')` makes it, and stays "cut" after
`WriteFails`. A content is that state and the set of edits it holds, a fingerprint the content
it was taken from. `Elsewhere` is every program that takes no lock, at any moment, also
between the steps of a write (`Lands`: either version may then stand). `passed`, `blind` and
`lost` are what an observer remembers: which tasks are no longer the last to have read, what
came in during a call, what was overwritten.

### Backlog and Drain

`Backlog` is the table of `core/backlog_db.py`, each transaction one operator, and the
decisions of the user (`api/routes/backlog.py`), which read the row, look for its branch on
origin (`Ask`) and then write (`Decide`). `Drain` is a cycle of DreamCoder
(`agents/dreamer_agent.py`): per slot a worker goes `Pick → Serve → Begin → Prepare → Start →
RunReturns → Push → Record`, or to `Settle → Close` when the run fails, and is cut anywhere
when the window closes (`Interrupt`). `Begin` and `Start` are the two writes that say
`running`, before and after the branch is made. `Candidates`, `Fit`, `OnNetwork` (an AJEAN, in
the probe or not) and `Cascade` are the choice of the provider (`_choisir_provider_tache`,
`core/budget_guard.py`); a cycle without a probe takes every provider for healthy. `Joint` are
the tasks of another project, which wait for each other (`ItsTurn`) where the window does not
reach them. Branches live in the clones and on origin. `Crash` and `RecoverOrphans` are the
end of the process and its start. `decided` is the final status the user gave a task, which
only the end of a task by its worker replaces (`Conclude`), and `early` tells the decisions
taken before the last start write of a worker.

### Executions and VocalAbort

`Executions` is the registry of `core/app_state.py` with the handlers that enter and leave it:
a request is a background run, a chat, a stream or a voice stream, and goes through its
admission, its pipeline, what it notes and its `finally`; a chat may be answered uncounted,
before any admission (`Apart`); the client of a stream may leave before it starts, while it
waits or while a chunk is sent. The methods of `AppState` are operators from one value of the
state to the next (`Begun`, `Ended`, `Refreshed`, `Purged`, `Cleared`), so that a handler
which calls several without waiting is one action. Any entry may have grown too old when a
request comes in (`Enter`). `loose` holds the requests whose place somebody else gave back,
`disturbed` whether a stop, a purge or a departure has ever taken one, `failed` whether a
failure remains to be shown. `VocalAbort` is the shared flags of `core/vocal_abort.py`, which
a stream registers, polls and withdraws.

### Swarm

`core/worker_registry.py`, `core/dag/swarm_dispatcher.py` and `core/worker_daemon.py`: a task
of a plan is lent (`Choose`, `Send`), its answer comes, is refused, is lost or comes too late
(`Answered`, `TimesOut`), it falls back to a local invocation (`Local`), and the watchdog of
the DAG may cancel it anywhere. `reg` is what the dispatcher believes of a worker: its status,
and whether it is `fit` (its last heartbeat is recent and showed a load of 85 % at most);
`current` and `up` are what is true. A heartbeat is two steps, `Ask` and `Hear`; it may time
out although the worker is up, and find it loaded. A dispatch keeps the record it chose from,
which a registration under the same name replaces (`picked.known`).

### HomeCall, VoiceJob and VoiceTurn

`HomeCall` is `execute_ha_service`: the state is read, the command posted, sent once more if
the connection was cut and the effect can be repeated, tried member by member for a group.
`VoiceJob` is a job of `core/vocal_jobs.py` and its task in `core/vocal_host.py`. `VoiceTurn`
extends both with the way of an utterance: in the home mode the cascade `Reads → Relative →
Commands → Everyday → Routes → Knows → Fuzzy → Guesses → Talks`; in discussion `Commands →
Reads → Intends`, under the timeout `TimesOut`; for the other sources `Routes → Knows` or the
light paths, and then the pipeline. `Routes` knows by itself or asks a model (`Classifies`),
and `Awaits` says where a model is waited for without a limit. What a resolver of the home
mode raises is an HTTP error where nothing catches it. Of the house the model keeps which
devices answer and how often each call was carried out (`strokes`).

## 3. The runs

All instances are small on purpose and complete: TLC explores every state.

| Run | Instance | Shows |
|---|---|---|
| `approval_sessions` | three runs, two of which share a session and an identifier; no faults; fairness | a rejected plan stays out, the branch waits, sessions settle, decisions take effect, jobs end |
| `approval_faults` | two runs, time limits, early decisions, unmountable engines, an unreadable plan, one restart | no plan is replayed unapproved or twice (`PlansSound`, the inductive invariant, and `OwnPlanAsApproved`); the ledger is implemented |
| `git_worlds` | two sessions in six worlds: nothing fails; a crash and failed commits; user edits, conflicts, failed checkouts and commits; checkpoint tools; a linked worktree; a crash, user edits, conflicts and failed checkouts | `UserWorkSound`: the user's work is kept and kept private; `VerdictsApplied`: accepted work stays, refused work goes; `Returned`: so does the repository |
| `dag_join` | two roots and a task that needs both, a map-reduce of two fragments, one healing each | `ExecutionSound`: queue, table and memory agree, no task twice, no job left behind; the order; complete ends; no starvation; termination |
| `cascade_two` | two calls over two models; threshold, timeouts and trips up to two | `BreakersSound`: circuits are healthy when closed and count their trips when not; calls end; the first model recovers |
| `keypool_rotation` | three keys, two threads, a cooldown of two ticks | even rotation |
| `fileguard_tasks` | three tasks, one of which only reads; two edits or deletions by another program; writes that fail | no torn read, nothing written over a cut file that was not read, no lost update, no false alarm |
| `drain_cycle` | one cycle, probed or not, two slots, two tasks, two providers, one an AJEAN | providers apart, cooldowns respected, the cycle ends even if its window never closes |
| `drain_user` | one task of another project, two slots, two cycles one after the other, a provider of last resort; a decision of the user, a crash or a worker that dies | `BacklogSound`: one worker for the task, nothing stuck, a completed task has its branch, a run is paid once; the decision stays until the task ends, unless it was taken before the last start write |
| `executions_requests` | three requests of any kind on up to three sessions, a cap of two, two stops or aborts, purges and departures at any time | `PlacesRespected`: nobody loses a place but to a stop, a purge or a departure, one execution for a session, and the cap; `RegistryTrue`: no entry outlives its request, the dreamer stays quiet while a counted request is in flight; failures are shown; a barge-in stops nobody who speaks after it |
| `swarm_workers` | two tasks, one worker that dies, comes back or is registered anew up to twice, heartbeats that time out or find it loaded | `WorkersSound`: one task at a time; `DoneOnce`: done is done, and redone only when the answer was lost or late; tasks end; the worker comes back |
| `voice_house` | an utterance for the house (shutter, group of the salon) and one in discussion or typed (setpoint with its mode), one device that breaks, any number of restarts | one effect of a command; what is said done was done; a job says one thing; everyone is answered |

Why the bounds are enough. *Approval*: the only interactions between plans go through a shared
identifier, a shared session or a shared engine, so two plans that share and one that does not
show them all; one restart reaches each place where a run or a job can be lost, and the
invariant is proved for any number. `TwinsPrepared` leaves out that the branch of a twin could
not be prepared. *DagRun*: a join is the least plan in which one parent finishes while the
other runs or heals; two fragments let one map succeed and one fail; a tool call adds tasks
while the loop is in each of its awaits. `map_reduce` is called at most once by a task.
*GitSafety*: two sessions are what it takes for one to disturb another; changes are one
tracked and one untracked file for each author. *Cascade*: a second model is needed to
escalate and to fail over, a second call to answer late; `failures` and `trips` are counted up
to the value after which nothing depends on them (`Threshold`, `MaxTrips`, where the timeout
is at its maximum). *KeyPool*: with three keys one may be passed over while another is limited
and the third was free all along. *FileGuard*: the fingerprint has one value at a time, so
what a task must fear is one other reader or writer; the theorems hold for any number.
*Drain*: a provider is fought over by two slots, a task by its worker and one other party
(`MaxUpsets`); `MaxAttempts` of two gives a retry with its kept branch; the branches of a task
are limited to two, the one of its row and a new one, and `MaxPicks` ends the reservations of
`drain_user` at three: two attempts and one after a decision. In `drain_cycle` five is more
than a cycle can use (each slot reserves each of the two tasks at most once), so that
`CycleEnds` is about the code's own limits. *Executions*: a third request is what makes one
end between two others; the cap of two lets the third be refused by it. *Swarm*: a second task
meets the worker busy, or idle by mistake; two events are a death and a return, or two
registrations. *Voice*: utterances meet only in the house, and each service brings one
behaviour of its own (not replayable, a group, a call before the call).

## 4. What the models show

Reachable in the models, and kept out of the runs by the constant or the proviso named (change
it to see them):

- *Identifiers of requests collide* (`Approval`, `SessionOf <- SameSession`, `Runs = {r1,
  r2}`): two plans of the same size in one session are one row; the user approves the plan
  shown and the plan stored over it is replayed. `ReplayedAsApproved` fails, hence
  `OwnsRequest` in the properties. Two streams opened within one second share a session.
- *A restart between click and job* (`Approval`, `Faults = {"crash"}`, `MaxCrashes = 1`, one
  run, `FairSpec`) loses the decision: nothing reads approved rows again, and
  `DecisionTakesEffect` fails.
- *Early decision* (`Approval`, `Faults = {"early"}`): the user is notified before the run has
  left; the job closes the session and the run then writes `waiting_approval` over it, for
  ever. `SessionSettled` fails, so `approval_sessions` has decisions come after the run has
  left; `approval_faults` has them early.
- *One engine for several intents* (`Approval`, `EngineOf` constant): the branch stored with a
  request may be that of another intent, and the suspension of one intent leaves the branch of
  another in place. `BranchHeldWhilePending` fails; the runs have an engine for each run.
- *Time limit* (`Abort` in `Approval` and `DagRun`): the verdict of a run is a local that a
  cancellation reaches before it is assigned, so the branch of a run cut short is merged; the
  jobs of its tasks go on, since they are not ended in a `finally`. `NoOrphan` is therefore
  stated outside aborts.
- *Absolved replays* (`Approval`, outcome `absolved`): the acceptance contract absolves the
  statuses `error` and `blocked` only; with a task left `pending` the session is a success and
  its branch is rolled back.
- *A session started while another waits for approval* (`GitSafety`, world `{"suspended"}`) is
  merged into the branch of the other, and destroyed when the other is rejected:
  `AcceptedWorkKept` fails.
- *Overlapping sessions* (`GitSafety`, world `{"overlap"}`): two sessions in one working tree
  destroy each other's uncommitted work and the user's; `UserWorkSafe` fails everywhere but in
  a linked worktree. It also fails when the safety stash itself fails (`{"stash"}`), and when
  the user edits tracked files while a session runs and fails (`{"user_edits"}`): that is why
  `UserWorkKept` names its worlds.
- *A commit that fails* (`GitSafety`, worlds with `"commit"`): nobody reads what `git add` and
  `git commit` return (`tools/git_safety.py:492-495`). The changes follow the checkout, the
  merge has nothing to merge, the branch is deleted and the session is reported as merged: the
  work that was accepted is in no branch, only uncommitted in the working tree, where the next
  session stashes it as if it were the user's. `AcceptedWorkKept` says "in a branch" for the
  other worlds only, and where sessions take turns that the work is not lost. When another
  command fails as well, or the user edits meanwhile, it may be.
- *Checkpoint tools* (`GitSafety`, world `{"tools"}`): `git_rollback_checkpoint` pops the
  newest stash, be it the user's, into the branch of the session, whose failure destroys it.
  `UserWorkSafe` fails.
- *A process that dies during a session* (`GitSafety`, world `{"crash"}`) leaves the
  repository on the ephemeral branch and what the user had not committed in the stash; the
  next session starts from that branch and is merged into it. Nothing is lost (`UserWorkSound`
  and `VerdictsApplied` hold), and nothing brings the user back: `BackHome` fails, and is
  stated for the other worlds.
- *A cycle in a plan is a success* (`DagRun`, `DependsOn <- Cycle`, `MapReducers = {}`): the
  loop leaves by its condition before it reaches the test for a deadlock, and `EndsComplete`
  fails.
- *A plafond of one* (`DagRun`, `MinCap = 1`): the task that called `map_reduce` keeps the
  slot its own maps wait for until its watchdog. `PoolNotStarved` is checked with a plafond of
  two.
- *A map_reduce nobody serves* (`DagRun`, `HealerMapReduce`): the agent of a corrective task
  may call the tool (`core/healing.py:167`), but the loop that would launch its maps waits for
  the healing. The timeout of the tool, 900 s, ends the wait.
- *A write that raises at a launch* (`DagRun`, `LaunchRaises`, `core/dag_runner.py:471` and
  `:482`) leaves `execute_dag` without its cleaning: as after a time limit, the jobs that run
  go on.
- *Placeholder answers* (`DagRun`): the poll of a map-reduce reads the status of the reduce in
  memory, set before its output is written: `answer = "placeholder"`.
- *A paid answer thrown away for an error* (`Cascade`, `PaidAnswerKept`): whether a model is
  left is decided by position, not by whether its circuit is open.
- *Concurrent 429s* (`Cascade`): each trips a circuit that is already open, so the count of
  "consecutive" openings grows by the number of calls in flight, and the timeout with it. A
  success that comes while the circuit is open changes nothing; a circuit that is HALF_OPEN
  lets every call through; the retry after a first 429 goes through the circuit it opened,
  without the backoff the log announces. `Recovers` shows that none of this locks a model out.
- *The success of the retry is reported for the wrong key* (`KeyPool`, `LimitedKeyRests`,
  three keys, `gemini_native.py:707`): the cooldown of a limited key is cleared. A second 429
  on the retry key is never reported (`Fail`), nor is any answer to `generate_structured`.
- *Fingerprints* (`FileGuard`): there is one for each path, not for each task, so a task whose
  reading was repeated by another is neither protected nor excused (`passed`); after a
  modification the old one stays, and the author itself is refused until it reads again;
  programs outside the tools take no lock (`blind`).
- *A write that fails* (`FileGuard`, `WriteFails`, `tools/system.py:310-311`): the file was
  emptied first and stays cut; what it held is gone. Nobody writes over it as if it were
  whole: the fingerprint is that of the file as it was, so the author and all who know that
  file are refused until they read it again (`OverWhatWasRead`). That reading returns the cut
  file as it is, with nothing to tell that it is cut.
- *Cooldowns of last resort* (`Drain`, `LastResort`): the cost cascade offers `deepseek-free`
  and `claude-haiku` without looking at their cooldown (`core/budget_guard.py:571-586`),
  whatever its own comment says (`:151-156`); `CooldownRespected` leaves them out.
- *Decisions undone* (`Drain`, `early`): a worker reserves a task; the user rejects it; the
  worker writes `running` all the same (`agents/dreamer_agent.py:1806`, then `:1855` with the
  branch), since `update_task_status` looks at nothing; a failure that costs no attempt, or
  the end of the window, then finds a running row and puts it back in the queue.
  `liberer_tache` is conditional "pour ne pas écraser un statut final posé entre-temps"
  (`core/backlog_db.py:509`), and does erase it in that order of events. `DecisionStays`
  without its exception for `early` fails in `drain_user`; with it, it says that this window,
  from the reservation to the last start write, is the only one.
- *Rows and users* (`Drain`): `liberer_tache` erases the name of a branch that was kept
  (`core/backlog_db.py:517`); a refusal while `ls-remote` fails erases it too; an interruption
  by the window records no consumption; putting a task back in the queue under its worker lets
  a second worker take it (`meddled`) and may lead the attempts past their maximum; a worker
  that dies before its `try` leaves its row running until the next start (`stranded`).
- *Two cycles* (`Drain`, two `Cycles` open at once): `POST /api/dreamer/trigger` may run a
  second cycle on the same clones. A provider then serves two tasks, one of each cycle, and
  `OneWorkerPerTask` fails: a worker has written its row as failed and is in its last
  `finally` when the window of its cycle closes; another cycle has meanwhile reserved the task
  again; the interruption puts the row back in the queue (`liberer_tache`), and a third worker
  reserves it. `BacklogSound` is proved, and `drain_user` checks it, with cycles that follow
  one another.
- *Departures* (`Executions`, `LeftWaiting`, `LeftSending`): a client that leaves while its
  stream waits frees its session while the pipeline goes on; one that leaves during a send
  frees the entry first and notes its error late, perhaps on the entry of another. After a
  stop, the end of the old execution removes the entry of the new one
  (`core/app_state.py:480`). The purge in `begin_execution` takes the entry of an execution
  that runs for longer than `stale_ttl_seconds`. All are in `loose`, which is empty until the
  first of these events (`Undisturbed`); `PlacesRespected` does not hold for those in it, and
  two executions of one session then do overlap.
- *Activity that does not count* (`Executions`, `Apart`): the discussions and the shortcuts of
  the home of POST /api/execute return (`api/routes/agents.py:549-576`) before `begin_request`
  (`:626`), so the dreamer may start while they are answered. The comments say otherwise: "le
  dreamer doit rester silencieux pendant TOUTE activité utilisateur (chemins légers compris)"
  (`core/app_state.py:185-190`, and `:332-335`), and
  `tests/unit/test_execute_chemins_legers_hors_creneau_t344.py:165-168` refuses any change
  after which "le dreamer se réveille pendant qu'Axel parle à son Tab5". `DreamerQuiet` is
  stated of the requests that are counted; of all requests being answered (`InFlight \union {r
  : pc[r] = "apart"}`) it fails after one step.
- *Silent ends* (`Executions`): a stream that runs out of time shows a success; a success
  noted by the orchestration prevails over a later error; after a stop, a chat that ends last
  hides a failure; a barge-in or a stop shows an idle server while chats are counted in
  flight; the purge in `begin_execution` consumes the memory of a failure. `FailureShown`
  leaves out the failures of requests that lost their place, those of streams that run out of
  time, which are noted nowhere, and the moments at which a request that lost its place is
  still there.
- *Streams that never start* (`NeverStarts`) keep their entry until the purge.
- *Aborts that abort nothing* (`VocalAbort`): a new utterance sets the event of its
  conversation and registers it again without an await between, so the old stream never sees
  it; the first stream that ends removes the shared event; a device is never a key.
- *The stop of the WebSocket* (`Executions`, one request, one key, `MaxStops = 1`): it takes
  `execution_lock` twice (`api/routes/execution.py:118`), an asyncio lock is not reentrant,
  and `RequestsEnd` fails: no session is freed any more.
- *Heartbeats* (`Swarm`): an answer is written over the status a dispatch has set since, so a
  busy worker looks idle and is asked again; its refusal (429) is what keeps
  `OneTaskPerWorker`. With the default of 120 s for both the watchdog of the task and
  `WORKER_TIMEOUT`, the local fallback after a timeout comes when the watchdog does. A local
  invocation that raises is repeated once.
- *Waits without a limit* (`VoiceTurn`, `Awaits`): the classifier of the router
  (`core/router.py:613`, awaited at `api/routes/agents.py:628`) and the specialist of a job
  (`core/vocal_host.py:325`) are under no `wait_for`. Their clients have timeouts of their
  own, which are not part of this code's promise: `EveryoneAnswered` says that an utterance is
  answered unless one of these two never returns.
- *Voice*: the answer of a web or calendar specialist is recorded twice in the conversation
  (`core/vocal_host.py:456`, `api/routes/agents.py:506`); the cascade of the home mode may
  issue another command when the first one timed out and had arrived: `CommandsSound` is about
  one call; in discussion such a call is answered as not executed; a discussion that times out
  asks to rephrase though its command may be done; `comfort` is announced with its mode though
  setting the mode failed; one member of a group is enough for a success.

## 5. What is proved

TLAPS checks every theorem for all values of the constants, from the assumptions named in the
modules (`ApprovalConstants`, `DagConstants`, …: types, non-empty bounds, identifiers that are
not runs, markers that are no value; one session per engine; and, in `ExecutionsConstants`,
finitely many requests, without which a count means nothing). Some results have a hypothesis
of their own, each explained below: `Unshared` and the absence of some faults (Approval),
`Acyclic` and fragments (DagRun), `Alone` (Drain), `TakeTurns` (GitSafety). What they exclude
is real, and section 4 says what happens there. Every strengthening below was an invariant of
a TLC run before it was proved.

**ApprovalProofs.** `TypeCorrect` and `PlansConsistent`: `AllConsistent` is inductive (with
the types), hence `PlansAlwaysSound`. For each plan that owns its identifier it reads its row,
its job, what was clicked, what is shown and how often it was replayed together: a row that is
`pending` has no job and was not clicked on, one that is `approved` has a job that has not
finished or was lost, and so on. The properties of a single variable are not inductive: that a
plan is replayed once needs that the job which replays it exists only while the row is
`approved`, which needs that a row is decided once. `ReplayNeedsApproval` and
`ReplayedAtMostOnce` follow. `LedgerRefined`: when identifiers are unique, `Spec` implements
`ApprovalLedger`, each action mapping to one move of one plan or to a stutter.

The other three say what becomes of a branch and of a session, and assume `Unshared`: each run
has its engine, hence the branch stored with a plan is the one its run made (`BranchesOwn`).
`BranchWaits` and `RejectedAlwaysOut`, unless runs are cut short (`"abort"`, after which the
branch is merged whatever was stored): once stored, a branch is touched by the job of its plan
only, which is there once something was decided (`BranchKept`); so a branch waits as long as
its request does, and is merged by the run that had no request or by the replay that was
approved. `SessionsAlwaysSettled`, unless a decision overtakes the suspension or the process
dies (`"early"`, `"crash"`): a session whose status is not terminal has somebody who will
still write it, a run, the user who has a request to answer, or a job that has not closed it
yet (`Attended`), for any number of plans in a session.

**DagRunProofs.** `ExecutionConsistent`, hence `ExecutionAlwaysSound`: what is queued is
queued once, pending, without a job and has all its parents recorded; what is about to be
recorded was not recorded and has its parents recorded; a map-reduce that was not called has
left no trace. The last is what makes the tasks added by `MapReduce` fresh, the second what
keeps `Record` from queueing a child twice. `DependenciesRespected`, `NeverQueuedTwice`,
`StatusesAlwaysAgree` and `NoJobLeftBehind` are conjuncts or consequences. They hold for any
plan, cyclic ones included, any plafond and any number of retries. `AlwaysEndsComplete` is the
converse of the first: what is ready is queued (`Advancing`), so when nothing is queued and
nothing runs, a task that still waits waits for another one that does; the first of them in
the order of the dependencies (`Acyclic`: the library's theorem on well-founded relations
gives it) has nobody to wait for. It needs that a `map_reduce` has fragments, as the tool
demands at least two. `StarvedOnlyAtOne`: one `map_reduce` is in flight (`OneMapping`) and the
loop waits with a free slot only if nothing is queued (`Waits`), so in any pass whose plafond
is two or more the pool does not starve, whatever the bounds of the plafond.
`_compute_concurrency_cap` may give one, and then it starves.

**ProviderProofs.** `BreakersHold`: the type of the breakers, `ClosedIsHealthy` and
`NotClosedHasTripped` are inductive together, for any cascade and any calls in flight, in
whatever order the answers come: the lemmas `TripType`, `SuccessStep`, `FailureStep` and
`RateLimitStep` say what one record does to a breaker whatever its state; the actions of a
call cite them. `TypeCorrect`, `ClosedCircuitsHealthy`, `OpenCircuitsTripped` and
`BreakersAlwaysSound` follow.

The pool of keys is proved in the same module, as the two have no variable in common.
`RotationAlwaysSound`: that the key about to be handed out does not come before one that was
free all along says nothing of the next one. What is inductive is the place of every key that
was free all along: nearer in the scan than the key it waits behind (`InTurn`). Handing out
the first free key moves the index, and `OrderKept` says that the others come nearer in the
order they had, the end of the ring included.

**EffectsProofs.** `GuardHolds`: the invariant adds to the properties that a task in the
critical section has the lock (`Exclusive`), that the file is open exactly while a task fills
it (`OpenToOne`), and what every task knows (`Known`): an edit that the file holds and the
task's reading does not was made by another program during a call, and so was one that the
fingerprint holds. Without `Known` a write could be accepted on a fingerprint that says
nothing of its author's reading. `Fresh` is the same without other programs: the fingerprint
is the content the last reader has, and a write that is accepted finds that content on the
disk, so what a failed write has cut is not written over unread. `ReadsAlwaysSound`,
`UpdatesKept` and `NeverRefusedForNothing` follow, for any tasks, programs and number of
edits.

The voice is proved in the same module: `VoiceHolds`, hence `CommandsAlwaysSound`,
`AnswersAlwaysTrue` and `JobsAlwaysSound`, for any utterances, services and breakdowns. That
an answer is true needs what is known before the command is posted: a call that goes on after
the look at its device has found it, unless it could not look or the device changed since
(`CallSound`), through the retry and the members of a group; that nothing touches the call of
a turn that was answered, and that a turn which was not has neither answered, recorded nor
created anything (`TurnSound`); that a job is silent until it ends, and has an error in its
row only when it has said no result (`JobSound`).

**SwarmProofs.** `WorkersAlwaysSound` and `DispatchedOnce`, for any tasks, workers, deaths and
registrations. Nothing can be taken from the registry, since a heartbeat overwrites what a
dispatch wrote. What is inductive is about the worker itself and the POST of a task: a worker
that runs a task has it for its only one (`Running`: the 429 is what keeps it), and a task
that is executed here is one whose POST is over and brought nothing, or whose answer is known
to be lost or late (`Executed`).

**ExecutionsProofs.** `PlacesAlwaysRespected`, `RegistryAlwaysTrue`, `AbortsReachTheSpeakers`
and the action property `FailureAlwaysShown`, for any number of requests, sessions and stops.
Until a stop, a purge or a departure takes a place, every request in flight has its own
(`Undisturbed`), and the two properties of places speak of every execution there is;
afterwards they speak of those that have kept theirs, as the code lets the others overlap
(section 4, *Departures*). An entry belongs to a request of its session that has not given it
back (`Owned`), and a request that nobody has robbed of its entry still has it (`Held`): so
two of those that count are never of one session, and there are no more of them than entries,
whose number `begin_execution` bounds (`Capped`, an injection of requests into entries). The
view is recomputed from the entries and from `active_requests`, so it is true because that
counter is exact (`Exact`): the one place where a `finally` that is skipped, or run twice,
would show. A failure is remembered until the server is idle (`Remembers`). Lemmas on the
methods of `AppState` carry the steps.

**DrainProofs.** Of any number of cycles at once: `ProvidersStayApart`, `DecisionsStay` and
the action property `CooldownAlwaysRespected`. `Desk` says what a worker has from where it is,
`Aboard` that the provider it runs on is marked in its cycle. `DecisionsStay` speaks of every
decision but those taken between a reservation and the last start write (`early`): a start
write comes from a worker whose task had no decision when it was reserved, so what it covers
was decided since (`Heard`), and only a running row is released. `BacklogAlwaysSound` assumes
`Alone`, one cycle at a time, as the loop of the dreamer does by itself. It needs that a task
given back by the window while a worker ends it is not reserved by anybody (`Working`), that
attempts are counted before they are tried (`Tried`), that a worker which may still deliver
has its branch in its clone and in the row (`Named`), and that nothing runs but what a worker
has (`Attended`). The hypothesis is not a convenience: the attempt to do without it failed on
`Interrupt`, and TLC has the behaviour (section 4, *Two cycles*).

**GitSafetyProofs.** `UserWorkAlwaysSound`, `VerdictsAlwaysApplied` and `AlwaysReturned`, for
any number of sessions, whatever is edited meanwhile, whichever stash, checkout, commit, merge
or pop fails and wherever a process dies between two commands. `TakeTurns` assumes that no
world lets sessions overlap or leaves one suspended while another runs, unless in a linked
worktree; all other worlds are covered, those of the run and any combination of the rest. Each
Git command, and then each call, is summed up by where a change can be: in the working tree,
put aside, kept by a branch (`Somewhere`). One session is at work at a time (`OneAtATime`), on
a branch that holds what the branch it started from holds and nothing more (`Forest`):
deleting it destroys nothing, and until its own commit is merged its work is in the working
tree (`Traced`) where the verdict finds it. `Tidy` and `Emptied` say which branches and
stashes are there in the worlds where nothing fails, `Alone` whose changes the tree holds, and
`Isolated` that a linked worktree never leaves its branch.

*Only model-checked.* The liveness properties (`DecisionTakesEffect`, `JobsEnd`, `Terminates`,
`CallsEnd`, `Recovers`, `CycleEnds`, `TasksEnd`, `WorkerComesBack`, `EveryoneAnswered`), which
the prover does not reach. Every invariant and every action property of the runs is stated by
a theorem, under the hypotheses above.

## 6. Fairness

Weak fairness of each step of a run and of each job (`Approval`, `DagRun`): asyncio runs every
ready coroutine and the thread pool every submitted call; the time limits of the pipeline, the
watchdog of a task and the timeout of the tool `map_reduce` end what does not end by itself.
Clicks, refreshes, restarts and aborts are never forced. In `Cascade`, time passes and every
request that was sent is answered or times out (the clients set a timeout); a new call
(`Begin`) is not forced: `Recovers` assumes that the first model is asked again, that its
provider stays up and that the calls are not cancelled, and says so in its statement. In
`Drain` each worker goes on; neither the window nor a cooldown is forced to pass, and
`CycleEnds` holds without. In `Executions` each request goes on unless the lock is held for
ever. In `Swarm` each task goes on, a worker that is up works, and the heartbeat asks and
hears (its loop never ends and its request has a timeout); `TasksEnd` does not need the
watchdog. No heartbeat has to succeed: `WorkerComesBack` assumes in its statement that from
some time on the worker stays up, answers and is not loaded. In `VoiceTurn` each turn and job
goes on and a timeout fires; no model has to answer, neither in the discussion and the small
talk (`Models`), nor to the router (`Classifies`), nor to a job (`Awaits`).

`CHECK_DEADLOCK FALSE` is in the configurations of systems that stop when their runs, plans,
requests or sessions are over; the calls of Cascade and KeyPool stop when their users do.
FileGuard, Swarm and VoiceTurn never stop and are checked for deadlock.

## 7. Limits

- Contents are abstract: a plan is the run that wrote it, a change is its author and whether
  Git tracks the file, an answer is adequate or not, an utterance is the services its words
  may be taken for. Prompts, routing, memory, pricing and the texts of messages are not
  modelled.
- In Approval, what comes before the `try` of the resume job is assumed not to raise: an
  exception in rebuilding the tasks or in `load_config`
  (`services/approval_resume_service.py:152`, `:159`) would leave the row approved and the
  session open, like a crash there. A finalisation of Git does not fail (the engine swallows
  its errors; GitSafety has them), and a cancellation whose Git part raises (`:323-325`) has
  closed its session already.
- In GitSafety, sessions start on a named branch: on a detached HEAD, or when `rev-parse`
  fails, no branch of departure is noted (`tools/git_safety.py:308`) and the session returns
  to main. A checkout that fails ends the finalisation: that main is tried after a branch of
  departure which exists and cannot be checked out (`:525-530`) is left out. Sessions take
  turns outside a linked worktree (section 4, *Overlapping sessions*).
- A call of `git_safety` is one step. A rejection finalises its branch in a thread while the
  event loop may prepare another session: that interleaving of Git commands is left to a later
  module.
- One DAG execution at a time: two intents on one engine replace each other's `_current_*`
  attributes and share the rows of `dag_tasks`.
- `record_*` of the breakers take no lock; each is one step here, which they are on the event
  loop. The synchronous `generate()` runs in threads as well, and there they interleave: a
  lost increment delays a trip, and a success recorded by one thread of a HALF_OPEN circuit
  between `_consecutive_trips += 1` and `_state = OPEN` of another
  (`core/llm/circuit_breaker.py:211-213`) leaves a circuit open that counts no trip, which
  `BreakersSound` excludes. It heals at the next trip: the count starts anew.
- A task of a plan calls `map_reduce` once, and what a corrective `gather` leaves running when
  one of its tasks raises is outside DagRun.
- The semantic cache in front of the cascade, the choice of the tier and the statistics that
  order its models are outside: the order is a constant.
- One path at a time in FileGuard: no operation of the tools relates two files. A fingerprint
  tells any two contents apart (above 5 MB it is a time and a size), and what another program
  does to the file is one step.
- Two streams opened in the same second share an identifier (`api/routes/streaming.py:352`);
  streams are apart in VocalAbort, where they share the event of their conversation anyway.
- The creative cycles of the dreamer and the local merge of an approved branch are outside
  Drain; the instant at which a worker dies is any before its `try`. While a task of another
  project waits for its turn (`agents/dreamer_agent.py:3094-3106`) the window does not cut it,
  as in the code, and which of those that wait comes first is any.
- The category of a task that keeps it here is any (`Stay`), and a worker is registered anew
  but never removed. `heartbeat_all` goes through the registry across awaits: a registration
  under a new name breaks off that round.
- Setpoint values are not kept: a relative setpoint is read and then written, and an
  adjustment made in between is lost; a replay may override a later one.
- A restart leaves the row of a voice job running for ever; nothing uses `cancelled`.
- The blocking approval (`core/hitl.py`) is reached only with `MOTEUR_HITL_NON_BLOQUANT=0`.
  Its routes look for the request in `gui_server._engine_instance`, which nothing assigns
  (`gui_server.py:605`, `api/routes/approval.py:101-106`): a click never reaches the task that
  waits, and every wait ends by its timeout. There is no race left to model.
- Timers are ticks; the order of two timers of the same length is any order.

Components that are not modelled, with the reason, are in `PROJECT.json`. Those that are
functions of text or numbers (routing, similarity, prices, predicates on paths) have no
behaviour for a state machine to get wrong; those that talk to one service by one call
(messaging, telemetry) have only the outcome of that call.

## 8. Plan

The order is that of the damage a wrong interleaving does: approvals and plans first, the
user's files next, then what is shared by every call, then what runs unattended.

| Step | Module | Composes | Abstract specification | Theorems |
|---|---|---|---|---|
| done | Approval | – | ApprovalLedger | consistency, at most one replay, refinement, branches, sessions |
| done | DagRun | – | – | consistency, order, no orphans, complete end, pool |
| done | GitSafety | – | – | user's work, verdicts, return |
| done | Cascade, KeyPool | – | – | breakers, rotation |
| done | FileGuard | – | – | no torn reads, no lost update, no false alarm |
| done | Backlog, Drain | Backlog | – | providers, decisions, cooldowns, backlog |
| done | VocalAbort, Executions | VocalAbort | – | places, registry, aborts, failures |
| done | Swarm | – | – | one task per worker, done once |
| done | HomeCall, VoiceJob, VoiceTurn | both | – | one effect per command, true answers, jobs |
| next | Backup (`core/sauvegarde.py`) | – | a rotation that never loses the last good copy | – |
| then | GitCommands | GitSafety split into commands | GitSafety, when calls are serialised | – |
