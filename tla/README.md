# Models of the cybersin compiler and runtime

cybersin compiles prompts to build artifacts and runs agents on them. The second
half, `cybersind`, is a durable, event-sourced session runtime whose parts share
one SQL database and little else. Its hard behaviour is in that sharing: daemons,
`cybersin approve`, `dlq` and `sessions` commands and resumed sessions are
separate processes; almost every operation is several SQL statements with no
transaction around them; processes die between any two. The first half is a
pipeline of functions, whose hard part is that it rewrites `dist/` in place while
others read it. The models take one statement, or one file, as one step and ask
what survives.

## Inventory

| Component | State it keeps | Operations | What makes it hard | What makes it correct |
|---|---|---|---|---|
| **Tool gateway** (`cybersin-gateway`) | none of its own | `call`, `approve`, `deny`, `dlq_retry`, `dlq_drop`, `wait_for_resolution` | duplicates, operators and crashes interleave on a row; checks are read before the update they guard | one side effect per call, equal answers to duplicates, no run without an admission, everybody released |
| **Tool ledger** (`storage.rs`, `tool_calls`) | one row per (tool, idem_key) | begin, increment, resolve, park, clear, reopen, drop | only the insert is conditional | the insert is the referee; terminal rows change only by a human |
| **Session daemon** (`session.rs`) | replay frontier, request in hand | serve `llm.request`, `tool.request`, `state.*`, `checkpoint`, `sleep`, `signal.wait`, `spawn`, mailbox | replay after a crash, keys that depend on counters, checkpoints before replies | what was done is not done again; replies belong to their requests |
| **Session lease** (`liveness.rs`, `run.rs`, `sessions.rs`, `supervisor.rs`) | `sessions.status`, heartbeat, pinned hash | run, resume, kill, migrate, decide | a lease that is only a timestamp, read by one gate and claimed by nobody | one daemon per session; a dead session can be resumed; a session nobody drives says so |
| **State, events, signals** (`storage.rs`, `pg_storage.rs`) | `session_state`, `events`, `signals` | set, get, cas, append, enqueue, take | row and event are two statements; select and mark are two statements | one writer per version; log and table agree; mail in order and once |
| **Orchestration** (`orchestration.rs`) | a worker record and an allocation event per child | spawn, charge, send, drain, blackboard, worker_exit, approval_parked | check-then-act on sums; records read and written back whole; state saved last | spending within the ceiling; bounded restarts; a parent that is told |
| **Session budget** (`budget.rs`, `session.rs`) | spans' cost, degraded prompts | proceed, degrade, halt, ask | spend is known after the call; the ask's key and its poll outlive the daemon | bounded overspending; no grant without its approval |
| **Route executor** (`route_executor.rs`) | cache, retry events | cache, cascade, fallbacks, retries | attempts that fail after being billed, a cache that may hold what the cascade refuses | bounded attempts; an answer is from an accepted step |
| **Build and watch** (`build.rs`, `capabilities.rs`) | `dist/`, `cybersin.lock` | build, `--watch`, `--frozen` | `dist/` is cleared and rewritten in place; sources are read at three moments | what is loaded and stored is one build's; a watcher catches up and comes to rest |
| **Dist loading** (`dist.rs`, `daemon.rs`, `storage.rs`) | artifact store by hash | load, ingest, materialize, pin, migrate | `dist/` is read twice while it changes | a session runs one build, the pinned one |
| **Prompt frontend** (`cybersin-frontend`, `convert.rs`) | none | includes, types, template references, typecheck; drafting a prompt with a model and repairing the draft | include cycles; what counts as a reference differs between typechecker and converter | a draft that is saved compiles; what compiles says what it needs |
| **Router and optimize** (`cybersin-router`, `optimize.rs`) | a lockfile's routes and thresholds | compile a route, tune thresholds from traces | ties, missing tiers, a band that must stay valid | the cheapest step of each tier; thresholds a build accepts |
| **Passes and context** (`cybersin-passes`, `session.rs`) | the IR; an assembled context | six passes, split into messages, assembly, eviction | dedupe, compress and reorder disturb each other; two eviction loops | no text is lost, the right sections are shed and no more |
| **Sandbox** (`cybersin-sandbox`, `tool_executor.rs`) | workspace directories, snapshots, session locks | open, lock, seed, execute, snapshot, diff, restore | directories are copied and cleared file by file; snapshots and restores take no lock; a container outlives its process | one tool at a time, with its own arguments; restore gives what the checkpoint saw |
| **Adapter wire** (`cybersin-adapter`, `run.rs`, the harness binaries) | two channels; a stash of messages read too early; the child process | session.start, requests, results, parked calls, signals, complete, abort; accept, drive, reap | a child's exit races its last message; replies overtake each other; each transport loses different frames | an answer is of the step it is taken for; the reported end is the true one; neither side waits for ever |
| **Ops terminal** (`ops.rs`) | a model that three loaders replace, a pending question, two channels | refresh, run an agent, approve, deny | a key is about the frame drawn before it; loads overtake each other; others decide too | what is confirmed is what was asked, once, and it happens |
| **Terminal UI** (`tui.rs`) | screen, tab, focus, texts, a form, loaded lists, statuses | keys; convert, build, refresh, run, capability | keys are handled beside a build and their actions dropped; lists, indices and statuses outlive what they are about | keys go where the user looks; what is shown is current; quitting works |
| **Command line** (`main.rs`, `capabilities.rs`, `init.rs`, `setup.rs`, `doctor.rs`, `readiness.rs`, `allowlist.rs`) | a project directory, `cybersin.local.yaml`, `.env` | init, setup, doctor, convert, check, build, run, explain, diff, eval, trace sample, optimize, gated controls | one command judges what another wrote and a third uses, each with its own reading of the file | advice that is followed ends in a working project; a command keeps to its safety profile |
| **Evals** (`eval.rs`, `trace.rs`) | suites in `evals/` | run, gate, sample a trace | suites outlive the prompts they are about | a verdict is about what was recorded |
| **Backends, trace store** | spans | split messages; append, sum | formatting and I/O | |

The parts interact through the database (status columns, ledger rows, events),
through `dist/` and the artifact store, and, inside one process, through calls:
a harness and the daemon exchange messages over a pipe, a gRPC stream or memory;
the daemon asks the budget, calls the route executor and a `ToolCaller`;
`GatewayToolCaller` calls the gateway; `resume_with_payload` hands the harness
the state it rebuilds from the log.

## Modules

- **`CallOnce`**: what the gateway promises. A call is performed at most once,
  has one outcome, everyone is told that outcome, and only a human reopens a
  failed call.
- **`ToolGateway`**: the gateway and its ledger. Each row column is a function
  over calls (a call is its pair (tool, idem_key)); each process has a program
  counter (`pc`) whose labels are the SQL statements still to run. `call` is
  `Submit`/`SubmitDerived`, `WinBegin`/`LoseBegin`, the policy actions, then
  the retry loop (`IncrementAttempt`, `ExecuteOk`, `ExecuteErr`) and
  `ResolveSucceeded`/`ResolveFailed`; a loser is in `WaitForResolution`. The
  operators' commands start with the row check (`CheckParked`,
  `CheckDeadLetter`) and go on whatever happens to the row in between. Results
  are numbered by the executor run that made them, which is all that answers
  need to be told apart by. `ImplementsCallOnce` is the refinement.
- **`SessionReplay`**: one session across crashes. The harness follows a
  script; the daemon replays (`ReplayEvent`, `ReplayRow`), checkpoints,
  serves, parks, records and replies; `Crash` and `Disconnect` end both; `Resume`
  is `run_resume` and `resume_with_payload`. `BeginElsewhere` and
  `ResolveElsewhere` are a daemon of another session that uses the same
  idem_key: the ledger's key holds no session. The gateway's own interleavings
  are left to `ToolGateway`, the budget and the route to `ModelCalls`.
- **`SessionLease`**: who drives a session. Processes that run, resume and
  crash, operators who decide, kill, migrate and relabel, all on one row.
  `env`, chosen at the start from `Environments`, says which circumstances a
  behaviour has, and each property names those under which the code gives no
  such guarantee. The heartbeat is written once before each message (`Heartbeat`) and
  not while the daemon waits, in a call (`SignalWait`, `Suspend`) or, in a silent
  environment, in `recv`; a message is short or, in a slow environment, longer than
  the lease. A message may leave a checkpoint, whose row and snapshot are two steps
  (`Checkpoint`, `Snapshot`). A daemon ends by `Complete`, `Disconnect` or `Halt`,
  which write the status (`Finish`), or without another statement: it dies
  (`Crash`), or a message cannot be handled and `?` leaves the loop (`Fail`). Behind
  the gate `run --resume` needs the pinned bundle, a checkpoint with its snapshot, the
  recorded harness and an unchanged hash (`ResumeChecks`, `ResumeRefused`).
- **`StateStore`**: one key of `session_state` with its `state.set` events, and
  one mailbox with its signals, statement by statement, for any number of
  writers and receivers. `use`, chosen from `Uses`, is the set of operations a
  behaviour mixes, and says whether the mailbox is in SQLite or in Postgres,
  where `take_signal` is one transaction that skips the rows others hold
  (`Locked`). Only the events of the key are kept, so an event's seq is its
  position among them.
- **`Orchestration`**: the workers of one parent. A record is read at an
  operation's start and written whole at its end (`SaveSpawned`, `SaveCharged`,
  `SaveExit`); the parent's log of allocations is kept as the sum that `spawn`
  reads. Circumstances as in `SessionLease`.
- **`Routing`**: `compile_prompt` of the router (`Cascade`, `Fallbacks`,
  `Refuses`) and what `optimize` makes of the cache's thresholds (`Tuned`), as
  functions. Tiers, prices and similarities are whole units.
- **`ModelCalls`** extends it: the model calls of sessions under a budget, over
  the route compiled from one of `Locks`, or written by hand in the older format
  (`Legacies`). `enforce_session_budget` is `WithinBudget`, `Degrade`, `Halt` and
  the ask (`Ask`, `Flag`, `Poll`, `Decided`, with `Approve`, `Resolve`, `Deny` by
  the operator); `RouteExecutor::execute` is `CacheDecision`, `CallModel` and
  `Record`. A caller is the live one, the live one without a key,
  or the stub. Spans and rows survive a crash; the cache and the degraded prompts
  do not. The judge and the vector cache are left out because the daemon sends no
  embedding. A live call is charged what the provider reports (`Reported`, at most
  `MaxReport`) or, if it reports nothing or its answer cannot be used, the estimate
  of the lockfile; what the providers take for the request while its route is
  tried is `bill`, since one span stands for all attempts at a candidate.
- **`BuildDist`**: `dist/` file by file, builders that may watch, a developer who
  edits sources and lockfile, and runs that load, store, pin and migrate. A
  file's content is what it was made from.
- **`Sorting`**: the list that sorting a finite set gives, as a function (`Ranked`,
  `Sorted`). `reorder`, the eviction orders and the context are such lists; written
  with `SortSeq` or `SelectSeq` they could be evaluated but not proved about, since
  the prover has no recursion.
- **`PromptContext`**: the sections of a prompt through the six passes, the split
  into messages, and the daemon's assembly with live sections and eviction. A
  text is a value with a length, its inputs, and what compression makes of it.
- **`PromptFrontend`** extends it to files: includes, types, what a template
  refers to, the typechecker, and `convert` with the repair of a draft. A reference is
  plain, looped over, hidden where only `convert` looks (a filter, a condition), or
  reserved: a bare name that `convert` takes for a word of the template language and
  the typechecker for an input.
- **`Capabilities`**: the registry, the safety profile of each capability, and the
  gate of `main.rs` before some of them.
- **`LocalConfig`**: `cybersin.local.yaml`: what the runtime, `setup` and `doctor`
  each read in it. The last two follow the first by hand, not by shared code.
- **`Evals`**: suites, their check against the compiled prompts, verdicts, and the
  suite that `trace sample` writes.
- **`LocalProject`** composes the last five: one project directory and the commands
  on it. A build compiles one prompt after another through `PromptContext`'s
  passes, may have it refused by a backend once it is written (`PromptRejected`), routes
  all of them at the end, if a model is priced for the quality of each (`Routed`;
  a scaffold's lockfile prices medium only), and rewrites the lockfile unless it is
  frozen (`LockWritten`). A run assembles the starter's one request; every other
  command is one step, since one person works on the project. `person` says who: a
  "builder" studies the builds of every prompt of a few texts, a "guided" person
  does what `doctor` advises, a "free" one types anything `MaxCommands` times.
- **`HarnessWire`**: one session on the wire. A world says who hosts it, over
  which link, and how the harness ends; `up` and `down` are the messages on
  their way, `Exit` drops what a gRPC client has not flushed, `run` is the
  command that accepts, drives and reaps. Definitions whose names would collide
  with those of `OpsRoom` carry the prefix `Wire`, and `Dist` in `BuildDist`,
  because `CommandProofs` extends the three.
- **`OpsRoom`**: `cybersin ops`. Three loaders read agents/, the store and the parked
  rows and replace what is drawn; `drawn` is what the last frame shows and lets be
  chosen, and rows are moved among; a confirmation goes through the channel to a task
  with a gateway of its own. `use` says whether agents run, calls are parked, others
  decide.
- **`Workspace`**: the workspace of a session whose tools share it. The daemon
  takes checkpoints (`InsertRow`, `OpenForSnapshot`, `CopyOut`, `CopiedOut`) and
  it and the operators' processes execute tools (`Lock`, `Prepare`, `Exit`,
  `Resolve`); `Resume`, `ClearOne`, `CopyIn` and `CopiedIn` are the restore. A
  tool's effect is a file of its own. `env` says whether there are operators and
  where a process may die: in a container, in a snapshot, elsewhere. What replay
  does with requests is `SessionReplay`'s; here a resumed harness just goes on.
- **`TerminalUi`**: the terminal UI as one function from keys to the app
  (`Handled`) and to the job asked for (`Action`), the loop that awaits the job,
  and `run_build_interactive`, which handles keys beside the build thread and
  drops the jobs they ask for; and what each screen draws, as far as a property
  asks. A text is its length; a build is its agent file
  and what is in `dist/`, whose making is `BuildDist`'s. `use`, chosen from
  `Uses`, says which keys are pressed, and whether others change `prompts/`.
- **`ToolGatewayProofs`**, **`SessionReplayProofs`**, **`SessionLeaseProofs`**,
  **`OrchestrationProofs`** (with `StateStore`'s), **`WorkspaceProofs`**,
  **`ModelCallsProofs`** (with `Routing`'s thresholds), **`CommandProofs`** (`OpsRoom`,
  `BuildDist` and `HarnessWire`), **`ProjectProofs`** (`TerminalUi`, and `LocalProject`
  with `PromptContext` and the modules it composes): theorems. Definitions of
  `StateStore` and `TerminalUi` carry the prefixes `Store` and `Ui` where two modules
  that are proved about together would share a name.
- **`MCToolGateway`**, **`MCSessionReplay`**, **`MCSessionLease`**,
  **`MCOrchestration`**, **`MCModelCalls`**, **`MCLocalProject`**,
  **`MCWorkspace`**, **`MCTerminalUi`**, **`MCOpsRoom`**, **`MCHarnessWire`**:
  policies, scripts, environments, lockfiles, texts, projects, uses and worlds
  for TLC.

Operators named `X_Y` beside `X` are deliberately wrong variants of `X`; no
specification uses them. Each property of a passing run fails when one of them
is put in its place.

### How state and actions relate to the code

A `tool_calls` row is `status`, `awaiting`, `attempts`, `result`, `failure`
(reason and retriable), `dropped` and `owner`. `sessions.status` is
`sessionStatus` there and `status` in the other modules. In `SessionReplay` the log is the
sequence of its `llm.call` and `tool.call` events (`skip_replay_noise` ignores
the others), a checkpoint is the number of events it covers, and the snapshot
paired with it is missing, partial or complete. History variables (`runs`,
`callEffects`, `toolRuns`, `modelCalls`, `answered`, `applied`, ...) record what
the outside world saw; no action's guard reads one, except those that bound a
run (`MaxReopens`, `MaxCrashes`, `MaxWrites`).

What the code does not decide is chosen freely: the policy hooks' verdicts, the
executor's and the model's success, when an operator acts and on which call.
The developer, the operators and the harness are external. The harness keeps its
place with `state.set`, or does not, and after a resume goes on from the place
it last stored; a request of a step carries the same `call_id` each time
(`per_step`), or a number that starts anew with the process (`per_run`, as
`stub_harness.rs` does).

## Runs

| Run | Question | Checked |
|---|---|---|
| `GatewayCalls` | two submitters of a write call with a key or with derived ones, an operator, crashes anywhere: one effect, replays that agree, runs covered by admissions, operations that return | `RunsAreAdmitted`, `ImplementsCallOnce` (refinement), `OperationsReturn` |
| `ReplaySession` | model call, keyed write, unkeyed read and critical calls, or a gated one, snapshots, two crashes: effects once, replies own, the first resume replays its frontier, the session completes | `ToolRunsOnce`, `RepliesAreOwn`, `FrontierIsReplayed`, `SessionCompletes` |
| `StoreUses` | racing compare-and-sets, racing `state.set`s, or two receivers, in SQLite or in Postgres | `OneWriterPerVersion`, `RowIsLogged`, `MailInOrder`, `MailIsTaken` |
| `LeaseEnvironments` | two processes on one session, in four environments: what the lease withstands, orderly endings, everything but denials, and denials where daemons die | `OneDaemon`, `EndedIsTerminal`, `LostIsRecovered` |
| `OrchestrationSpend` | two workers, resumed parents, crashes, or races: spending within the ceiling, the parent told | `SpendWithinCeiling`, `TroubleIsTold` |
| `ModelBudget` | two prompts over compiled routes with a barred tier and a spare that is a step or a fallback, or a route written by hand; every caller, reported costs, retries, a cache, a crash, each reaction to a breach | `CostIsBounded`, `GrantedIsApproved`, `AnswerMeetsBar`, `RequestIsAnswered` |
| `BuildWatch` | a builder, two edits or kills anywhere, a run that reads `dist/` meanwhile: no mixture under a manifest or in the store; a watcher catches up | `ManifestCovers`, `BundlesAreWhole`, `DistCatchesUp` |
| `LocalProject` | every prompt of three sections over four texts is built and run; a guided person starts from some 2300 projects; a free one types any two commands in 38, among them one for each set of eval suites | `EveryTextIsRendered`, `EvictionIsFair`, `GreenRuns`, `DraftsCompile`, `CommandsKeepTheirWord`, `AdviceSuffices` |
| `WorkspaceCrashes` | a daemon and an operator, three calls in one workspace, deaths anywhere: tools run alone with their own arguments, a resume restores the latest checkpoint, a crash undoes at most one answered call | `ToolsAreAlone`, `ResumeRestores`, `LossIsBounded` |
| `TerminalKeys` | every key on every screen, before, beside and after a build: no key takes the focus to where nothing is drawn, and Tab finds it where a build left it; the agents offered are those that are there | `FocusIsShown`, `OpsAreFresh` |
| `OpsDecisions` | an operator runs agents and decides two calls while loads replace the model and others decide: what is confirmed is what was on the screen, once, and it happens | `ShownIsDone`, `DecidedOnce`, `ConfirmedIsDecided` |
| `HarnessRuns` | eight worlds of harness, daemon and command, parked calls kept for later, crashes, garbage, storage errors and halts anywhere | `ReportIsTrue`, `AnswerIsOwn`, `RunEnds` |

All twelve hold, and each property fails when the mutant that `PROJECT.json` names
for it takes the place of the definition it varies. A build or a load that ends
beneath the list of agents leaves the focus where nothing is drawn; `FocusIsShown`
says of it only that Tab finds it again (`TabFindsTheFocus`), and what Enter does
meanwhile is `RunIsShown` below. `OpsAreFresh` is not claimed while a build runs
and after one that failed, which may have written an agent and does not have the
list loaded again.
`CostIsBounded` has three parts: attempts per candidate (`AttemptsBounded`), the spans
against the budget (`SpansBounded`), and what the providers take for a request
(`BillBounded`: `MaxAttempts` times the cost of its candidates, each time that it is
sent). The cost of a candidate is its estimate or the highest report, for no estimate
binds what a provider says that a call cost. A session that spent nothing is within
any budget: with a budget of 0 and a route of free candidates the strict bound would
be false, as the proof attempt showed. `GreenRuns` excepts a default model with the
stub's own name: `doctor` takes it for any other, and the route stays with the stub
(`run.rs:881`).

The state machines of daemon and runtime state their types as `TypeOK`
(`DistTypeOK`, `WireTypeOK`, `StoreTypeOK`, `UiTypeOK`). No run lists it: it is proved
for `ToolGateway`, `SessionReplay`, `SessionLease`, `Orchestration`, `Workspace`,
`ModelCalls` and `TerminalUi`, holds on the instances of the others, and shows
nothing that the listed properties do not. The same goes for `ReplaysAgree`, `ParkedUntilDecided`,
`CallSucceedsAtMostOnce` and `DerivedKeyIsFresh` of `ToolGateway`,
`RestartsBounded` of `Orchestration` (proved), `DecidedLeaves` of `OpsRoom`,
`StatusIsCurrent` and `QuitIsHeeded` of `TerminalUi`: stated, true on the
instances, and in no run.

### Other divergences

These properties are stated in the modules and fail too. No run is kept for
them; the instance on which TLC finds the counterexample is given so that it
can be repeated. Constants not named are as in the passing run of the module.

`ToolGateway`, with `Session`, `Tool`, `Key`, `Caller` and `Operator` of one
element each, `RetryClass <- CriticalTools`, `Decisions <- Gated`, `MaxSeq = 0`,
`MaxCalls = 1`, `MaxReopens = 1`, `MayCrash = FALSE`, `SPECIFICATION Spec`:

| Property | Instance | What happens | Code |
|---|---|---|---|
| `DeniedIsNotRetried` | as above | a denied call is a dead letter, and `dlq retry` runs it | `gateway.rs:424`, against `storage.rs:425` |
| `OneDecisionPerCall` | two operators | both pass the check of `parked_row` and both decide; `gateway.rs:163` says there is exactly one decision | `gateway.rs:333` |
| `FailureIsDeadLetter` | two operators, `Decisions <- Ungated` | a drop checked before a retry lands after it and hides the new failure from `dlq ls` | `gateway.rs:413` |
| `DecisionResumesSession` | `MaxReopens = 0` | a decision falls between the row's flag and the session's status: the session stays `awaiting_approval` | `gateway.rs:170` |

`SessionReplay`, with `CallIds = "per_step"`, `Sandboxed = FALSE`,
`MaxCrashes = 1`, `SPECIFICATION Spec` and the set of scripts named:

| Property | `Scripts <-` | What happens | Code |
|---|---|---|---|
| `RequestsAreAnswered` | `OneWrite`, `FairSpec` | the resumed daemon waits for the row of the dead one for ever | `session.rs:1177`, against the test at `2242` |
| `GatedRunsOnce` | `TwoGated` | the call index moved, so a second row is parked and approved | `session.rs:1380`, against `857` |
| `EveryResumeReplays` | `TwoGated`, `MaxCrashes = 2` | an event at the front that is not asked for hides a recorded one behind it, so that the model is paid again | `session.rs:1067` |
| `RepliesAreOwn` | `SameGated` | the first call's event answers its twin, unapproved | `session.rs:1111` |
| `RecordedResponseIsReused` | `OneModel` | a crash between the periodic checkpoint and the reply puts the event where replay does not look | `session.rs:1327` |
| `CheckpointHasSnapshot` | `OneWrite`, `Sandboxed = TRUE` | a crash between the checkpoint's row and its snapshot | `session.rs:537` |
| `ToolRunsOnce` | `Unkeyed`, `CallIds = "per_run"` | a request comes back under another call id and runs again | `tool_executor.rs:328` |
| `CompletedIsFinal` | `OneGated` | a decision on a dead daemon's row revives a completed session | `gateway.rs:338` |

So `ReplaySession` claims `ToolRunsOnce` for ungated calls whose ids survive a
restart, `RepliesAreOwn` for scripts whose requests can be told apart, and
`FrontierIsReplayed` for the first resume of a session.

`StateStore`, with `Writer = {w1, w2}`, `Receiver = {r1, r2}`, `MaxWrites = 2`,
`MaxMail = 2`, `Mortal = {}`, `SPECIFICATION StoreSpec`:

| Property | Instance | What happens | Code |
|---|---|---|---|
| `ReplayGivesRow` | `Uses = {{"cas"}}` | two compare-and-sets are logged in the other order | `storage.rs:925`, against `supervisor.rs:81` |
| `AppliedIsOwn` | `Uses = {{"cas"}}` | an applied compare-and-set reads back another writer's record | `storage.rs:933` |
| `TypeColumnIsTrue` | `Uses = {{"set"}}` | two first writers leave a type column that is not the value's | `storage.rs:806` |
| `DeliveredOnce` | `Uses = {{"send"}}` | two daemons select the same signal before either marks it | `storage.rs:1011` |
| `ReceiptIsRecorded` | `Uses = {{"send"}}`, `Mortal` the receivers | marked delivered, then lost | `storage.rs:1022` |

The other modules, on the instances of their passing runs except as said:

| Property | Instance | What happens | Code |
|---|---|---|---|
| `SessionLease!CompletedIsNotRerun` | `Environments <- Denials` | the last statement of a denial makes a completed session running again | `run.rs:472` |
| `SessionLease!KilledIsFinal` | `Environments <- Kills` | the daemon a kill was meant for overwrites it | `session.rs:616` |
| `SessionLease!LiveIsNotResumed` | `Environments <- Silence` | the one heartbeat before `recv` goes stale under a harness that is silent for longer than 30 s, and a second daemon is admitted without `--force` | `session.rs:613`, against `run.rs:481` |
| `SessionLease!DrivenToTheEnd` | `Environments <- Failures` | one message that cannot be handled ends the daemon before it writes a status: the session stays running | `session.rs:615`, against `605` |
| `SessionLease!StartedIsRecoverable` | `Environments <- Crashes`, `FairSpec` | without a checkpoint there is neither a fresh run nor a resume | `run.rs:838` |
| `Orchestration!AllocationIsFixed` | `Environments <- Resumptions` | a resumed harness spawns its worker again, with another budget and nothing spent | `orchestration.rs:99` |
| `Orchestration!SpendRespectsCeiling` | `Environments <- Twins`, `Request = {2}` | two spawns pass the check on the same sum | `orchestration.rs:115` |
| `ModelCalls!AskedForEachRequest` | `Session = {s1, s2}`, `Prompt = {p1}`, `Locks <- CheapSpare`, `Legacies = {}`, `Callers = {"live"}`, `Breaches <- Asking`, `MaxAttempts = 1`, `MaxCrashes = 0`, `SharedIds = TRUE`, `Spec` | the second session finds the first one's decision under its own call id | `session.rs:1010` |
| `ModelCalls!ApprovalLetsProceed` | the same with one session, `SharedIds = FALSE`, `Outcomes <- CliOutcome` | `approve` executes the parked row as a tool named `budget`, which no agent declares, so the approved request is answered as a denied one, against `budget.rs:30`. Only tests give the daemon a budget | `tool_executor.rs:392` |
| `ModelCalls!DegradedIsCheapest` | `Grounded <- Lowest`, `Surcharge = 3` | a degraded request takes the first step, which grounding has made dearer than the next | `dist.rs:444` |
| `BuildDist!PinnedIsStored` | as `BuildWatch` | a rebuild between ingest and load: the pinned hash is not in the store | `run.rs:504` |
| `BuildDist!LoadedIsOneBuild` | as `BuildWatch` | a rebuild between the files of one load | `dist.rs:233` |
| `BuildDist!HashIsOfInputs` | as `BuildWatch` | an edit between compiling and hashing | `build.rs:742` |
| `BuildDist!LockEditsAreKept` | as `BuildWatch` | an edit of the lockfile during a build is overwritten | `build.rs:366` |
| `BuildDist!ManifestCovers` | `Builder = {b1, b2}` | two builders of one project mix their files | `build.rs:207` |
| `BuildDist!WatchQuiesces` | `Session = {}`, `Frozen = {FALSE}`, `MaxEvents = 0` | a build writes `cybersin.lock`, which the watcher watches, so it rebuilds for ever; with `Frozen = {TRUE}` it rests | `build.rs:366`, against `build.rs:820` |
| `PromptContext!DeadIsDead` | as `LocalProject` | lint judges a section by the build's targets and priorities, the daemon by the request's route and with live sections | `lint.rs:39` |
| `PromptContext!SystemSpeaks` | as `LocalProject` | the first section is an emptied duplicate | `cybersin-backends/src/lib.rs:169` |
| `PromptContext!TwinsKeepTheirText` | as `LocalProject` | the section that holds the text is evicted, its duplicate stays | `session.rs:250` |
| `LocalProject!SampledIsUsable` | as `LocalProject` | the suite that `trace sample` writes has no inputs, so that `eval` refuses it for every prompt that declares one | `trace.rs:78`, against `cybersin-spec.md:169` |
| `Workspace!ToolsFindAssets` | as `WorkspaceCrashes` | the checkpoint before the session's first tool call creates the workspace, so that the executor never finds it fresh and never seeds it | `tool_executor.rs:439` |
| `Workspace!EffectsSurvive` | `Environments <- Crashes` | a crash between a call's row and its periodic checkpoint: the resume takes the files of a call that the ledger goes on to answer | `session.rs:1478` |
| `Workspace!SnapshotIsMoment` | `Environments <- Operators` | a snapshot is copied while an approved tool writes | `cybersin-sandbox/src/lib.rs:123` |
| `TerminalUi!RunIsShown` | `Uses <- Building`, `UiSpec` | after a build, or a refresh that adds the build's log, the focus is still on the Builds list while another row, or nothing, is shown: Enter runs an agent the user does not see | `tui.rs:1430`, against `62` and `742` |
| `TerminalUi!BuildIsShown` | `Uses <- Building`, `UiSpec` | the list of sources is read again when Enter is pressed, and the selection is an index | `tui.rs:1501` |
| `TerminalUi!BuiltCanRun` | `Uses <- Building`, `Source = {1, 2}`, `UiSpec` | the build of one prompt takes the others' out of `dist/`, whose agents the Builds list still offers | `build.rs:260` |
| `TerminalUi!OpsSeeEveryBuild` | `Uses <- Building`, `UiSpec` | a build that failed has written its log and does not reset the Ops tab; nor does one asked for in the capability browser (`tui.rs:966`) | `tui.rs:1434` |
| `TerminalUi!TypingDoesNotQuit` | `Uses <- Typing`, `UiSpec` | a q typed into Model or Out quits | `tui.rs:650` |
| `OpsRoom!QuestionIsHighlighted` | `Uses <- CallsOnly` | a load between the frame and the key: the question is about another call than the one that was highlighted | `ops.rs:766` |
| `OpsRoom!ApprovalRunsToEnd` | `Uses <- CallsOnly` | the terminal is closed, the task aborted, and the approved row stays pending and is listed nowhere | `gateway.rs:327` |
| `HarnessWire!LastMessageIsRead` | `Worlds <- GrpcScripted`, `Faults <- NoFaults`, `FairWireSpec` | a harness that leaves a gRPC stream at once takes unflushed frames along: a session that ended well is reported aborted | `run.rs:742`, against `730` |
| `HarnessWire!StartFailureIsReported` | `Worlds <- PipeScripted`, `Faults <- StartFaults` | when the session cannot be started, the command waits for a child that waits for session.start | `run.rs:664` |

Other differences between the code and what is said of it, or between two of its
readings of one thing, met while modelling and needing no run:

- A build thread that panics sends no result, and `run_build_interactive` polls for
  one for ever, since it takes a closed channel for an empty one (`tui.rs:1412`).
- A daemon without a budget registers its parents with a ceiling that is written as
  `null` and read as 0 (`session.rs:776`, `orchestration.rs:114`; `Budget =
  Unlimited`), so no worker with a budget can be spawned under it.
- What the assembler evicts is not left out of the model call:
  `live_model_caller.rs:114` renders the prompt anew (`cybersin-spec.md:158` says
  it is).
- `run --resume` takes a scratch directory for the project (`run.rs:593`), where there
  is no `cybersin.local.yaml`: it allows every model and has default retries, base
  URL and key (`run.rs:505`, against `allowlist.rs:5`). The harness is started in
  that directory too. Only the built-in starter retargets a scaffold's routes, so an
  agent over a scaffold's lockfile asks OpenRouter for the stub.
- A session of the built-in starter records neither its harness nor a workspace, and
  `run --resume` refuses it.
- `explain` names the first candidate without retargeting it (`capabilities.rs:1262`):
  for a scaffold the stub, where a run reaches the configured model. The instance of
  `LocalProject` has no project that shows it (`ExplainedIsReached` holds there).
- `setup` writes a routing listing that hides an older top-level one (`setup.rs:90`,
  `allowlist.rs:270`) and turns an absent provider list, which allows all, into
  openrouter and stub.
- `doctor` checks the permission for openrouter whatever the default provider, takes a
  missing default model for ready, reports an unset key reference although a run falls
  back on `OPENROUTER_API_KEY`, and calls a half-written `dist/` present.
  `permissions.tools`, `sandbox` and `defaults.tools` are reported and enforced nowhere.
- `init .` below a project makes a nested one that hides the outer.
- The terminal UI's scaffold-build compiles the selected source only and clears
  `dist/`; it overwrites an edited agent, and sources of equal slugs share files.
- `convert` leaves an invalid file behind when its check of itself fails, and then
  refuses to overwrite it; it counts as inputs loop variables and what stands in
  filters and conditions, which the typechecker calls unused. A filtered or
  conditional variable that is not declared passes the typechecker. A bare
  `{{ none }}` or `{{ not }}` is a word of the language to `convert` (`convert.rs:571`)
  and an undeclared input to the typechecker (`template.rs:78`).
- A build that is not frozen writes `cybersin.lock` anew from the fields that it knows
  (`build.rs:362`), `setup` writes `cybersin.local.yaml` anew from its values
  (`setup.rs:103`): comments are lost, and in the lockfile unknown fields.
- A scaffold's lockfile prices a stub of medium quality only (`init.rs:34`): a prompt
  that asks for low or high compiles, and its build fails at the routes, with `dist/`
  cleared.
- Read-only runtime commands start the daemon and so make the state file, which their
  safety profile excludes; `ops` is recommended to be confirmed and is not gated.
- `sandbox exec` and `sandbox restore` take no session lock.
- `eval`: a case without assertions scores NaN and fails the gate; fewer runs than
  recorded outputs leave outputs unread; it reads whatever `dist/` there is; `trace
  sample --to-eval` overwrites a file without asking.
- Diffing two commits always reports the manifest as changed, which holds the commit.
  `optimize` writes its report even if its build is refused, and promotes unjudged what
  falls between the band and the threshold.
- Replies that a provider bills and the executor cannot use are one span at the
  estimate, whatever was reported: the budget undercounts them, by up to `MaxAttempts`
  calls a candidate (`BillBounded` says what a request may be billed).

### Bounds

Every counter that would grow for ever is capped by a constant whose name begins
with `Max`.

- Gateway: `MaxSeq` (derived keys), `MaxCalls` (calls in the ledger),
  `MaxReopens` (dead-letter retries). One call is enough: rows are independent but
  for the session's call count and status, and two submitters that derive a key
  race for the same one. Two submitters give a winner and a loser.
  `MaxReopens = 1` with a class that retries once lets attempts exceed a single
  budget.
- Replay: `MaxCrashes`. Two are the least for a resumed daemon to die, which is
  when a replay frontier and its checkpoint disagree; the scripts have two calls
  of the same tool, a keyed and an unkeyed one, or a gated one.
- Store: `MaxWrites`, `MaxMail`. Four writes by two writers exceed the two that
  any stale version needs; four messages for two receivers leave one to be
  skipped. Values of two JSON types, because no more than difference matters.
- Lease: `MaxCrashes = 1` lets a daemon die, or a harness fail to start, at any
  statement; the second one may still end without its last statements, since `Fail` is
  not bounded. `MaxMigrations = 1` lets the hash change under a resume. Two processes
  are the least that race.
- Orchestration: `MaxSpawns`, `MaxExits`, `MaxCrashes`, `MaxRestarts`. Three
  spawns for two workers make one of them asked for twice; three exits pass a
  limit of one restart. Requests are negative, within and above the ceiling.
  Processes and workers are interchangeable, so the run uses symmetry; its
  properties are invariants.
- Model calls: `MaxRequests`, `MaxAttempts`, `MaxCrashes`. A request may cost more
  than the budget of two, so the first may pass it and two more meet each reaction; a
  barred step and a fallback make every kind of candidate. The one report there is,
  `MaxReport`, is above the estimate of some candidates.
- Build: `MaxEvents`, edits and kills together: one during a build and one after
  it. A stamp of two values stands for the lockfile's mtime.
- Prompts: `MaxSections = 3`: two duplicates and another section between or
  beside them, with every order of two priorities.
- Project: `MaxCommands = 2`: one command writes what the next one judges; longer
  chains are the guided person's, who needs no bound since advice runs out. A
  person's own lockfile has models priced for `OwnTiers`, one tier beside the
  scaffold's. `Inputs` are one name of an input and one that is a template keyword.
  `Stamps`, `BestJudged` bound a stamp and a judge's score. Assumed: any model but
  the stub is answered by its provider; agents that are present start; builds use
  the dev profile outside the builder's world.
- Workspace: `MaxCalls`, `MaxCrashes`. Three calls are one for an operator and two
  around it; the second crash falls into the restore after the first. One asset
  stands for `tools/`.
- Terminal UI: a text is empty or not, which is all that a job asks of it, and an
  edit within the same length resets the status all the same. One prompt source
  comes and goes. The typed keys, the browser's, and those around builds are three
  uses, since they share no state but the screen.
- Ops terminal: `MaxRuns = 1`; `MaxDecisions` is two where nobody else decides, so
  that the second confirmation meets the first, and one beside others. Two calls
  are the least that a load can exchange.
- Wire: no counter; a world's script has at most three steps, enough for a parked
  call that is overtaken by the answer of the next one and by a signal.

Deadlock is checked in the gateway's run, where an idle process can always be
refused something. Elsewhere the system may stop: sessions complete, writers
and builders reach their bound, a prompt is done.

### Fairness

- `ToolGateway!FairSpec`: each process that can run its next statement does
  (tokio runs what is ready; the 20 ms poll re-reads the row for ever). Nothing
  is assumed of people: a parked call may stay parked, since parking returns.
  `OperationsReturn` excepts an operation on a call whose process died
  (`Orphaned`): it waits for ever, as `RequestsAreAnswered` shows.
- `SessionReplay!FairSpec`: the daemon's loop and the harness go on, a session
  that can be resumed is, and someone decides what is parked. The last two are
  a human's part; without them a crashed or parked session just stays. A daemon
  of another session resolves what it began.
- `StateStore!FairStoreSpec`: a daemon that drains keeps draining, as
  `Orchestrator::drain` loops until nothing is left.
- `SessionLease!FairSpec`: time passes (`Expire`), someone resumes what can be
  resumed, and a process that has begun to start goes on to its first heartbeat.
  Nothing is assumed of the harness, of operators or of those who kill.
- `ModelCalls!FairSpec`: a daemon goes on, a dead one is resumed, an open
  question is decided.
- `BuildDist!FairDistSpec`: a build that has begun goes on and a watcher polls.
  Nobody has to start a builder, to edit or to run anything.
- `TerminalUi!FairUiSpec`: the loop draws, starts what it was asked for, takes
  messages and polls, and the build thread goes on. Nobody has to press a key; a
  conversion, a session or a capability may take for ever.
- `OpsRoom!FairSpec`: the refresh ticks, loads, the decisions' task and the runs'
  thread go on. Nobody has to press a key.
- `HarnessWire!FairWireSpec`: harness, daemon and command take the steps they can
  (separate tasks and processes), and the human of a parked call or a signal
  answers in the end. A harness that lingers is taken to have flushed its last
  frame, as the 200 ms pause of `grpc_stub_harness` supposes.
- `LocalProject!ProjectSpec`: the guided person goes on with what was advised, and
  a command that began ends. Nothing is assumed of the others.


## Proofs

All are for every value of the constants that the modules' assumptions admit:
any number of processes, callers, workers, prompts or steps. A theorem with a
hypothesis of its own says so here; each hypothesis marks a limit of the code,
and the table of divergences has the behaviour beyond it.

**`ToolGateway`.**
- `TypeCorrect` and `AtMostOneCallEffect`, for every policy and retry class, with
  crashes. The inductive invariant `IInv` adds to both: a process past the insert
  has a present row and inside the loop an attempt left (`LocalsInv`); a process
  that executes for `call` is the row's `winner`, and until it records its success
  `callEffects` is 0 (`WinnerInv`); a row nobody inserted has neither
  (`AbsentInv`). The property alone is not inductive: nothing in it says that two
  processes cannot both be about to execute.
- `RunsOnlyIfAdmitted`. The sum of what the processes may still run has no fixed
  size, so it is counted as the cardinality of a set of tickets: an admission
  sets `AttemptsAllowed` of them aside for the process that holds it, and each run
  of the executor takes one (`RunsInv`, `EffectsInv`). Every step takes no ticket,
  is given an admission's, or uses one (`StepKinds`).
- `DecisionsApartImplementCallOnce`, the refinement of `CallOnce`, for behaviours in
  which no two operators are between the check of a call and the statements that
  follow from it (`DecisionsApart`; commands on different calls may overlap, and so
  may a command and an approved call's execution). A process that works on a call is
  then alone with it and finds the row as its last statement left it (`Alone`). Two
  operators who both pass the check of `parked_row` are not alone: that is
  `OneDecisionPerCall` above. Submitters, crashes and policies are not restricted,
  and a single operator satisfies it (`OneOperatorImplementsCallOnce`).

**`SessionReplay`.** All but the types hold under `CallIds = "per_step"`, because a
harness that renumbers its calls is not recognised by the ledger.
- `TypeCorrect`; `ReplayedToolRunsOnce`: an ungated row is that of the step that
  inserted it and only that step's daemon executes it (`RowsInv`, `DaemonInv`); a step
  that ran has its row, under a key that every resume computes again (`RunsInv`).
- `ReplayAnswersOwn`: if no two steps of a script make the same request or share a
  row (`Distinguishable`), every event and every row holds the answer of the step
  that asked (`OwnInv`). With twins the replay gives one the other's answer.
- `FirstResumeReplays`: a daemon's first life leaves at most one event beyond its
  checkpoint, and an event that heads the frontier is not the one a live request asks
  for (`FrontierInv`), so after the first crash nothing recorded is behind it. After
  a second crash two events may be left, as `EveryResumeReplays` shows.

**`StateStore`** (in `OrchestrationProofs`).
- `OneWriter`: where only compare-and-sets write, no version is replaced twice,
  because the k-th applied one replaced version k - 1 (`Referee`).
- `RowFollowsLog`: where only `state.set` writes, the row is the event of its
  version, because a writer between its two statements holds the seq of its own
  event (`Indexed`).
- `MailOrder`: what a receiver has selected is later than all it got, what anyone
  got is delivered, and in Postgres a selected message is nobody else's
  (`Orderly`). It assumes that no receiver dies: one that dies in its Postgres
  transaction frees its message, and the receiver that skipped it gets it after a
  later one.

**`SessionLease`.**
- `LeaseTypes`; `LeaseExcludes`: at most one daemon where messages are short, the
  harness is not silent, and nobody waits, forces or races. `LeaseInv` counts a
  process as holding the lease from its gate on, and says that a stale heartbeat means
  the holder has served two messages since, which it does not before it writes one.
- `LastOneOutWrites`: where nobody crashes, fails at a message, denies or relabels, a
  status of work has a process that drives or starts (`EndInv`).

**`Orchestration`.**
- `WorkerTypes`; `AllocationsHaveRoom`: the log, with the one spawn under way, is
  within the ceiling (`Reserved`); `RestartsAreBounded`: what the record and the
  processes hold accounts for every resume but one per crash (`Counted`);
  `ParentIsTold`: a process about to save a record has told what it says (`Told`).
- `SpendingHasRoom`: what was charged is within the ceiling. Each worker's unspent
  allocation is a set of tokens, one per unit of money, so that the sum over the
  workers is a cardinality again: `billed + Cardinality(Unspent) <= allocated`
  (`Thrifty`), where one process at a time has a record in hand.

**`ModelCalls`**, with `Routing`.
- `TypeCorrect`; `BreachIsApproved`: a budget row that a request polls was asked for
  by that request, and who goes on has seen it succeeded (`RowsInv`). It needs call
  ids of one session each: with shared ones a request finds the decision on
  another's, which is `AskedForEachRequest` above.
- `CascadeMeetsBars`: a poor answer comes from a fallback, or for a prompt that an
  exhausted budget degraded (`ForcedInv`), directly or through the cache
  (`AnswerInv`).
- `BillIsBounded`: at most `MaxAttempts` attempts at each candidate, and a bill for a
  request of at most `MaxAttempts` times what its allowed candidates cost: what was
  taken so far is covered by the candidates behind and the attempts made at the
  present one (`BillInv`).
- `CostsAreBounded`: the whole of `CostIsBounded`. What candidates cost is counted in
  units, one element each, so that the sum over a set of them is a cardinality and
  one more candidate adds its own cost (`UnitsOfOne`, `CostOfOneMore`). A session that
  is at a candidate has spent less than what it may have left at the end, less the
  cost of the candidates still ahead (`SpansWithin`, `Stake`); each grant, crash and
  degraded request adds its own to that (`Leave`).
- `TunedIsValid`, `TunedStaysInBand`: the thresholds that `optimize` writes, for every
  count of accepted and rejected answers.
- `ListAssumption` says that compiled routes are lists with a step, as the router's
  `Vec`s are; the prover cannot derive by induction that `SelectSeq` returns one.

**`Workspace`.**
- `WorkspaceTypes`; `ToolsRunAlone`: a process between the lock and the end of its
  container holds the lock (`LockIsHeld`), a container has a process that waits for
  it unless one was orphaned (`RunsAreAwaited`), and nobody restores where nobody
  can have died (`DaemonIsUp`), together `Alone`.
- `ResumeRestoresSnapshot`: between a checkpoint's row and the end of its copy the
  workspace does not change, and a restore that is under way holds nothing but the
  snapshot's files (`Paired`). The first half needs that no operator's tool runs and
  none was orphaned, as the property itself says.
- `CrashesLoseLittle`: the answered calls that no snapshot holds are no more than one
  while the daemon is up, since it checkpoints after each answer, and one more for
  each crash (`Bounded`).

**`OpsRoom`, `BuildDist`, `HarnessWire`** (in `CommandProofs`).
- `ScreenIsHeeded`: a question keeps what the frame showed when the key was pressed,
  whatever the loads replace afterwards, and so does what waits in the channel
  (`Framed`). `CallIsDecidedOnce`: while nobody else decides, the row of a decision
  under way is parked until that decision clears it and then undecided until it ends
  it (`Claimed`), and a row that awaits its end has had none (`EndedOnce`).
- `ManifestsCover` and `StoredIsWhole`, for one builder: a build that writes has
  removed the manifest, has written each prompt that it no longer has to do as it
  read it, and then routing and tools (`Building`); a manifest, in `dist/` or in
  the hands of a run, is of one build, and a run has read only what it lists
  (`Manifested`). Two builders mix their files.
- `RepliesAreTheirOwn`: a request on its way is of a step that was sent, is not
  parked, not answered, and alone (`Asking`); what is told, and what the stash
  keeps, is what was answered (`Telling`); what a harness believes is that too
  (`Believing`). Together `Wired`, for any script, link and host.
- `ReportsAreTrue`: the last message of a harness that finished is on its way, or
  read, as long as the daemon's end is open (`Complete`), so that a session reported
  aborted has no such harness (`Lost`), except over a link that loses the frame, which
  the property excepts. Requests are on their way only from a harness that waits or
  is gone, so none stands before the last message and could halt the session
  instead (`Pressing`, `Refused`). `Accounted` is all of that.

**`TerminalUi`** (in `ProjectProofs`).
- `UiTypes`, `OpsTabIsFresh`, `FocusStaysShown`. Every key is a function of the app, so
  there is a lemma for each screen and job: what it gives is an app, on a tab the
  screen knows (`Known`), and no key touches what the Ops tab has loaded.
  `UiInv` adds that a build thread means that the loop waits for its job, shows it as
  running, and has had nothing but progress from it (`BuildInv`): without it a result
  left over from a former build would end the next one, and agents written beside
  a loaded list would go unnoticed. Where the focus is not drawn it is on the list of
  agents, from which Tab leads back (`FocusIsFound`). The focus is an action property, of the keys
  handled beside a build as well as of those of the loop.

**`LocalProject`, `PromptContext`** (in `ProjectProofs`). `ProjectInv` is the common part:
files and configurations are such, the queue holds prompts of a build under way and
is empty when nothing is, and a compression happens in a release build only.
- `GreenProjectsRun`: as long as nothing has been touched since, what `doctor` found is
  what a run will find (`Fresh`): advice that says nothing means a key, a model and a
  permission under the readings of the runtime as well. `doctor`'s reading and the
  runtime's are compared case by case (`LocalConfig`).
- `InvalidDraftsAreExcused`: what `convert` repaired is typed and refers to what it
  declares, except for the five reasons that `DraftsCompile` names. It is about one step,
  so the draft and the raw request are arbitrary.
- `CommandsStayWithinSafety`: for each capability what its action changes, against its
  profile in the registry; and that without `--force` what a person wrote stays as it
  was (`Kept`) but for what `Overwritten` names: the lockfile's comments by builds,
  the configuration's by `setup`, an edited agent by scaffold-build, a suite by `trace
  sample`.
- `TextsAreRendered`, by what each pass leaves of a prompt (`InPass`): after `dedupe`
  every text is in a section of its own or in one that this refers to, whose
  reference is empty (`Reaches`), since the first of several twins has none before it;
  `compress` replaces texts and touches no reference; `reorder` moves whole sections;
  `lint` lets pass only as many ids as sections (`UniqueIds`), so that an id in the
  messages is one section, rendered once (`Conveys`). What is in `dist/` was a
  finished prompt too (`ArtifactsFinished`), and what waits in the queue compiles
  (`QueueCompiles`); together `BuiltInv`.
- `EvictionsAreFair`: a target's plan names every section, the least important first
  (`Planned`), and is found for any request. The eviction loop is the fold of `Stepped`;
  what it has shed at any moment (`Shedding`) is a head of the candidates, each only
  while the rest did not fit, and the tokens left are those of the rest
  (`TokenSumList`, a cardinality of pairs). That live sections go first, and that
  importance decides among each kind, is then the order of the candidates: with
  unique ids the section's place in the plan is that of its own priority.

The assumptions on data that these need say what the code's types say: tiers are those
of the grammar, priorities are integers and windows natural numbers, a list of render
targets is a list, live sections, sources and drafts are of the records that are
parsed, a file of one text is that text, and a provider's report is at most
`MaxReport`, which may be as large as one likes.

Only model-checked: the liveness properties (`OperationsReturn`, `SessionCompletes`,
`MailIsTaken`, `LostIsRecovered`, `RequestIsAnswered`, `DistCatchesUp`,
`AdviceSuffices`, `ConfirmedIsDecided`, `RunEnds`), which need fairness and ENABLED.
Every invariant and every action property of a run has a theorem, under the hypotheses
given above.

## Plan

What is left, in this order:

1. What a supervisor's record and the mailbox promise together: `Orchestration` keeps
   the parent's mail as a set, `StateStore` its order.
2. A refinement of `SessionReplay` by an abstract session whose calls happen once, for
   distinguishable scripts.

## Not modelled

Encodings, formatting and layout (JSON, YAML, prost, the drawing of the terminal UI,
`fmt`), the dialects of the backends beyond the split of messages and what their validation
refuses, the readers of
traces beyond the sums they give; the container runtimes and capability adapters,
which are external effects and here an executor that succeeds or fails; call-scoped
workspaces (each is one call's own) and the commands of `cybersin sandbox`, which take
no lock and are a developer's; the judge and the vector cache, which nothing the
daemon sends can reach. Most lines that the map does not name are of these kinds, or
tests: the crates keep theirs in the source files.
