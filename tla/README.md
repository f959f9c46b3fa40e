# A TLA+ model of tales

`tales` runs suites of end-to-end test scenarios written in HCL: it loads the
files, runs the scenarios in parallel, hands every step to a provider (HTTP,
SQL, RPC, browser, mobile, webhook, load, ...), judges the outcome and writes
reports. This directory holds TLA+ modules of it, the TLC configurations that
check them, and TLAPS proofs of what matters most. Paths below are relative to
`src/` unless they name a module.

## 1. The system

| Component | Where | State it keeps | Operations | Hard behaviour |
|---|---|---|---|---|
| Loader and parser | `internal/parser` | the suite read so far, diagnostics | decode each file, merge, validate | lists recovered from two decodings, definitions in several files, a schema shared by all providers |
| Dependency analysis | `internal/lang/refs.go` | none | collect references, order of steps, step variables | walks the model field by field, as the lowering functions do elsewhere |
| `tales test` | `internal/cli/test.go`, `internal/report/report.go` | result, reports, exit code | load, run, diagnose a timeout, write the reports, judge | partial results, a deadline at any time |
| Suite runner | `internal/runtime/runner.go` (`Run`), `live_tracker.go`, `suite_teardown.go`, `events.go` | semaphore, wait group, result slots, first error, tracker, watcher channel, run context | spawn a goroutine per scenario, wait, suite teardown, close providers, collect the stalled list | goroutines against the deadline and the watcher's snapshot; the order of the tail |
| Scenario execution | `runner.go` (`runScenario` and below), `skip.go`, `tracker.go` | workspace, step results, tracker, lazy cleanup context | skip rules, hooks, steps with cascade/halt/retry, teardown | failures in every phase, retries against the context, grace budget |
| Keywords | `runner.go` (`executeKeywordStep`) | a nested state per call | run the keyword's steps, evaluate its outputs | same, nested |
| Step pipelines | `internal/runtime/{browser,mobile,exec,rpc,sql,mail,file,load,webhook,save}.go` | one step's result | lower, dispatch, assert, capture, save | order of partial failures |
| Webhook provider | `internal/provider/webhook` | receivers by id, requests, a one-slot signal | start, record, wait, stop, close | lost wake-ups, timer against signal, a stale receiver |
| Load provider | `internal/provider/load` | shared counter, statistics, rate limiter | warm-up round, measured round | workers against cancellation and duration |
| Mobile provider | `internal/provider/mobile` | sessions by target, step locks, recordings by scenario and device | run a step, begin/end a scenario, start/stop a recording, close | locks per target, polls that are cut, a driver that dies |
| Apple backend | `internal/provider/mobile/apple` | driver cache on disk with a file lock and markers, driver process | extract, build, mark, invalidate, start | crash between two writes, several commands at one directory |
| Android backend | `internal/provider/mobile/android` | packages and a marker on the device, forwarded port, instrumentation | stop the old driver, install, forward, start, undo | leftovers of a killed command or of another release |
| Browser provider | `internal/provider/browser` | sessions, one Chrome per scenario, recorder of console and network | act, wait, expect, capture, write diagnostics | two timers for one deadline, a Chrome that stops answering, events across steps |
| SQL, RPC | `internal/provider/{sql,rpc}` | caches of connections, descriptors, clients | get or build, close | double-checked caches, errors cached for ever |
| HTTP, mail, file, exec | `internal/provider/{http,mail,file,exec}` | none between steps | one call | none of their own |
| Expressions, matchers, generators | `internal/lang`, `internal/assertion`, `internal/runtime/{generator,seed}.go` | none | pure functions | evaluation rules |
| Reports | `internal/report` | event stream, report files | write | serialised by the sink |
| Drivers on the device | `drivers/` | UI automation session | HTTP handlers | external platform |

The command loads a suite and runs it once. The runner calls a scenario in a
goroutine; a scenario calls providers through the registry and shares their
state with the other scenarios; mobile and browser providers are called back as
scenario hooks around the steps; a mobile session is built by a backend, whose
cache and device other commands use at the same time; the command cancels
everything through one context.

What makes each correct:

* **loader**: steps run in the order of their file, a step reads only what has
  run, no definition is lost, what is accepted can be run, and an expectation
  that is accepted is evaluated;
* **command**: exit codes and the timeout notice mean what they say;
* **suite runner**: no more than `--parallel` scenarios at a time, cleanup alone
  and after them, providers open for all their users, a stalled list that misses
  nothing, and an end;
* **scenario**: nothing runs on top of a failure or of a missing result, hooks
  nest, teardown gets its turn on its own budget, retries are exact, and it ends;
* **pipelines**: results and reports are those of the attempt that passed;
* **webhook**: a recorded request wakes its waiter, a removed receiver is never
  handed out, all servers are shut down;
* **load**: never more requests than configured, cancellation is never success;
* **mobile**: one session per target, every recording stopped, a verdict that is
  about the application and not about the driver or the clock;
* **backends**: a marker stands over what it says, a retry is on a fresh build,
  the driver that answers is the one just started, nothing is left behind;
* **browser**: an error blames what the page last said, a failure comes with the
  evidence of what led to it, and a step ends.

## 2. The modules

| Module | Models | Role |
|---|---|---|
| `StepForms` | the decoders of every step block of every provider | which attributes and blocks each demands, allows and excludes |
| `StepLowering` | `lang/refs.go` and the lowering functions of `internal/runtime` | EXTENDS `StepForms`: which of them the load-time checks read and which a run evaluates |
| `SuiteFiles` | `LoadPath`: decode, merge, `validateSuite` | EXTENDS `StepLowering`: from files to a suite or diagnostics |
| `SuiteContract` | nothing of its own | what a run promises: every scenario once, bounded, then cleanup, then close, then report |
| `SuiteRunner` | `Runner.Run`, the tracker, the watcher, the heartbeat, suite teardown | the goroutines and the tail; a scenario is the single action `Execute` (or `EndHanging`) |
| `TestCommand` | `runTest`, `printTimeoutDiagnostic`, `emitReports`, `SuiteResult.Failed` | EXTENDS `SuiteRunner`: the whole command around a run |
| `ScenarioRun` | `runScenario` and everything it calls down to one attempt of a step | the body of `SuiteRunner!Execute` opened up |
| `StepPipeline` | every executor behind `dispatchProviderStep`, the retry loop, keyword calls | an attempt of a step opened up: `AttemptPasses`/`AttemptFails` of `ScenarioRun` |
| `WebhookReceiver` | the webhook provider and `receiver` | steps of scenarios, HTTP handlers and `Close` over the receivers |
| `LoadRun` | `executeRun`, `runWorkers`, `rateLimiter`, `Execute` of the load provider | the workers of one load step |
| `LoadStep` | `evaluateLoadRequest` and what `evaluateRequest` reads | scenarios that call a keyword with a load step |
| `MobileSessions` | the mobile provider up to its session: `acquireSession`, the scenario hooks, `Close` | the scenarios of one run sharing sessions and devices |
| `MobileStep` | `Execute` of the mobile provider once it has its session | `MobileSessions!Act` opened up, with the retries of the step |
| `AppleDriver` | `embeddeddriver.Manager`, `startEmbeddedDriver` | sessions of several commands on one cache directory: `MobileSessions!Build` on iOS opened up |
| `AndroidDriver` | `EnsureDriver`, `TerminateDriverRunner` and the session's close | commands of several releases on one device: `MobileSessions!Build` on Android opened up |
| `BrowserStep` | `Execute` of the browser provider and its chromedp driver | one attempt at a browser step |
| `PageRecorder`, `RecorderBounds` | `driver.Recorder`, `ring`, the listener of Chrome's events | the network of one page over the steps of its scenario |
| `MCFrontEnd`, `MCScenarioRun`, `MCStepPipeline`, `MCMobileSessions`, `MCWebhookReceiver`, `MCBackends` | | the instances TLC checks |
| `SuiteRunnerProofs`, `ScenarioRunProofs`, `StepPipelineProofs`, `WebhookReceiverProofs`, `LoadRunProofs`, `MobileSessionsProofs`, `BackendProofs`, `SuiteFilesProofs` | | the theorems |

### How the state corresponds

A block of `StepForms` is its kind and the set of attributes its author wrote; a
form says what the decoder makes of it (`req`, `opt`, groups of which one is
wanted). `StepLowering` gives, kind by kind, the attributes that
`StepDependencies` and its collectors visit and those that the lowering and the
assertion of a run evaluate: three readers of one model, each written by hand in
its own file. `SuiteFiles` decodes and merges the files of `tree` one at a time
(`next`) into `suite`, whose definitions are known by their place in a file;
`diags` are the errors by summary.

`SuiteRunner.pc[s]` is where the goroutine of scenario `s` stands between two
accesses of shared state: each action is the code from one such access to the
next, so that every interleaving of goroutines, watcher, heartbeat and deadline
that the shared state can tell apart is there. `fired[s]` is the local
`ctxAlreadyFired`: it is read in `ReadCtx` and used two actions later in
`TrackEnd`. `phase` is where `Run` itself stands. `result[s]` is the slot of
`result.Scenarios`, `"error"` standing for the nil slot of a scenario that
returned an error. `atDeadline` is a history variable; no action reads it.

`ScenarioRun` is sequential but for its two contexts, which may end at any
moment. `at` is the position inside the current step and `attempt` its attempt
number. A step is its position in the file, `Depends` is what
`lang.StepDependencies` collects for it; that a step depends on earlier steps only
is `ScenarioAssumption`, and `ReadsAreServed` of `SuiteFiles` says how far the loader
sees to it. `Record` is the single place where a verdict takes effect, as it is in
`runOneStep`.

`StepPipeline.stack` is the Go stack of nested `executeKeywordStep` calls: a frame is
a `ScenarioState`, the list of steps run on it and the place in it. Frame 1 is the
scenario, whose list becomes its teardown. `todo` holds the stages the running
attempt still has before it; an executor is the sequence of its stages
(`HttpStages`, ...), each of which passes (`Evaluate`, `Call`, `Attach`, `Store`, ...)
or ends the attempt (`StageFails`). `results` of a frame are the names whose value
is no longer the empty object, `shown` what the `StepResult` carries. `called`,
`wrote` and `passed` are history variables. `disk` are the exec artifact
directories with files in them, those of an earlier run included.

`WebhookReceiver` numbers the receivers in the order they are bound. A receiver's
`server` is `"open"` from `Listen`, `"closed"` once its flag is set, `"shut"` once
`Shutdown` has been called. `reading` and `notifying` count the handlers that
have not recorded yet and those that have recorded and not signalled. A step
holds its receiver in `rc[s]`, the local of `start`, `wait` and `stop`.

`LoadRun.at[w]` is where a worker is in its loop; `phase` is where `executeRun`
is. `roundCtx` is `warmCtx` or `workCtx`, `stepCtx` its parent. Of a sample only
whether its context cut it is kept (`cut`), and `burst` counts the requests begun
since the last tick; both are history variables. `LoadStep` splits
`evaluateLoadRequest` at every access of the shared field `step.Request`.

`MobileSessions` gives each scenario a program counter over `Execute`: take the
step lock of the target, look the session up, take the target lock and look
again, build, check the recording, spawn the recorder, claim the device, act. A
target stands for its `sessionKey`. `pending`, `active` and `deviceUsed` are the
three maps of `recordController`, `stopping` the local `rec` that `EndScenario`
holds after it has released its lock. `drivers` and `recorders` are the processes
outside.

`MobileStep` goes from the preparation (permissions, launch) through actions and
expectations to the salvage of a failure. Of a wait, `w` keeps what
`waitUntil`/`waitFor` keep between two attempts: the last error, whether it
observed anything, where it stands. A reply of the driver is one of a few kinds
(`"absent"`, `"off"`, `"on"`, an error, a cut); `log` is what was answered, for
the properties only. `tree` is the attempt whose hierarchy `value()` and `text()`
would read.

`AppleDriver` has one disk for all processes: the extracted tree, its marker, the
products, and the marker that names their build. Every file operation that
another process can see is an action. A marker is written into the file it was
opened as, so `linked` says whether that file still has its name when an
invalidation has removed it. `Kill` may strike between any two actions and
releases the file lock, as the kernel does.

`AndroidDriver` counts the commands run on the device (`life`). Instrumentations
of several lives may be alive there (`onDevice`), of which one holds the port.
Each adb call succeeds or fails, and does fail once its context is over.

`BrowserStep.timer` is the timer of the wait, call or capture attempt under way,
in four states: `"due"` is the instant at which the caller's context and the one
`chromedpDriver.run` derived from it may end in either order. `Replies` is what a
call can come back with then. `todo` is what the step still has to capture, read
or write, in its order; `budget` the budget of the capture. `said` is a history
variable: what the page itself last said. `PageRecorder` has the arrays and
indexes of `ring`, the `pending` table, and beside them the truth they are judged
by: `hop` (which URL each request is at) and `feed` (what the page did).

An operator introduced by the comment "Mutant:" is a plausible slip in the
definition that follows it. None is part of a specification; they show that each
property notices the slip it is meant for.

## 3. The runs

| Run | Bounds | Shows |
|---|---|---|
| `front_end` | trees of up to 2 files; up to 3 step or case blocks of 2 names in a list; every kind of block of every provider, complete, with one member missing or added, or reading a step above, below or unknown; names shared by two files | what is loaded runs in the order of its file, reads what is there, loses no definition, can be lowered, and asserts all it expects |
| `command_exit` | 3 scenarios, 2 slots, 1 may hang, 2 teardown steps, 1 closer, deadline, grace, heartbeat | the properties of a run and of the command, the refinement of `SuiteContract`, and that the command ends |
| `scenario_run` | 4 steps, 2 teardown steps, 2 hooks, retries, pauses, hangs, deadline, grace | the properties of a scenario |
| `step_pipeline` | 16 steps of all 11 kinds, 2 keywords that would call each other, up to 3 attempts | results and reports are those of the attempt, nested keyword calls |
| `mobile_run` | 3 scenarios, 2 of them recorded, 2 targets, 2 devices, 2 steps and 1 teardown step each, a deadline | exclusive sessions, one driver per target, recordings that end in time, and an end |
| `backends` | see below | verdicts, blame, evidence, markers and leftovers of the machines behind mobile and browser steps, and that each comes to its end |
| `webhook_run` | 2 scenarios, 3 ids, 2 receivers, 3 requests, waits for 1 and 2 | no lost wake-up, no wait that needs its timer, no server left behind |
| `load_run` | 3 workers, 4 requests or 4 samples per window; both modes, with and without rate and warm-up | a success is whole, late samples are few, and an end |
| `mobile_device` | the same as `mobile_run`, smaller | expected violation: a device recorded twice at once |
| `load_shared` | 2 scenarios | expected violation: the request block taken from under an evaluation |
| `android_marker` | the same as `backends` | expected violation: a release runs another's driver |
| `front_end_served` | the same as `front_end` | expected violation: a loaded suite that cannot be served |

`command_exit` is the largest: 3.1 million states, about three minutes. `backends`
has 390,000, `front_end` 34,000.

`backends` holds five machines side by side, of which `part` chooses one, for they
share no variable: their union is explored, not their product. Its bounds:
`MobileStep` runs 6 steps that between them use every kind of action and
expectation, in 2 capture modes and 2 attempts, with up to 3 polls a wait;
`AppleDriver` 3 sessions and 2 failures, kills or failing builds; `AndroidDriver` 3
commands of 2 releases; `BrowserStep` 3 forms (a click and a plain call with a
visibility and a performance expectation; a checkbox with a text; a plain call and
a polling wait) in the 4 capture modes; `PageRecorder` 3 requests, a ring of 2, a
table of 2, 6 events and 2 steps.

Why these bounds are enough. Three scenarios on two slots is the least where one
waits for a slot while two race for the watcher's snapshot; a third slot or a
fourth scenario only adds copies. In `MCScenarioRun`, steps 1, 2, 3 are a chain (a
cascade of two hops), retries meet a pause, no pause and no retry block, and one
step of each block hangs. The two hooks are needed for their order. No variable of
these needs a counter bound: each step is recorded once and attempts are bounded by
the configuration.

In `MCStepPipeline` one keyword is called twice by the scenario, once with a retry,
and calls a second one, which would call the first again: the call is two deep
when it is refused. Commands run at both depths, with retries, so that artifacts
of an earlier attempt and of an earlier run can be met. Each kind of step occurs.

In `MCFrontEnd` a block differs from a good one in one member at a time, because
every decoder checks members one by one or in the groups the forms name; two
blocks are enough for an order, a duplicate or a reference, and three for two of
one type around one of the other. Two files are enough for a clash.

In `MCMobileSessions` two scenarios can meet at one target while the third is at
the other, one recorded scenario is bound to a target and one takes the first it
meets; two steps let a scenario change target, and one teardown step runs after
the recording has ended (`MaxSteps`, `MaxCleanups`). In `AppleDriver` three sessions
let one invalidate what a second is reading while a third builds; two failures are
a kill after a failed start, or two failed starts of one build (`MaxFailures`). In
`AndroidDriver` three lives let a release come back after another (`MaxLives`). A
third poll of a `MobileStep` wait can be cut after an observation and an error
(`MaxPolls`). In `PageRecorder` six events overfill the ring twice and wrap its
index, three requests overfill the table, and a request can be sent, redirected and
finished across a `Start` (`MaxEvents`, `MaxStarts`).

In `MCWebhookReceiver` three requests for waits of one and two let a waiter consume
a signal and wait again, and let two requests share one slot of the channel; two
receivers of one scenario meet one of another (`MaxReceivers`, `MaxRequests`). In
`LoadRun` four requests on three workers leave some worker with two and some with
one, and let all of them find the counter exhausted; `MaxSamples` bounds the
requests begun in a window of duration mode while it lasts.

Fairness. `TestFairSpec` and the `FairSpec` of `ScenarioRun` assume that every
goroutine that can proceed does (the Go scheduler), that the deadline and the
grace budget eventually expire once set (timers of `context.WithTimeout`), and
nothing of which outcome a step takes. A scenario in `Hanging` may hang for ever
unless its context ends, so termination is claimed only when a deadline is set (in
a teardown: a deadline or a grace budget), which `Terminates` and `Ends` say.
`MobileSessions` and `MobileStep` assume that goroutines go on and that every driver
call returns (its HTTP client has a timeout), not that the deadline fires, that the
driver lives or that a wait polls again. In `AppleDriver` a session that is not
killed goes on, and the kernel frees the lock of one that is; in `AndroidDriver` a
build goes on, as every adb call ends. In `WebhookReceiver` only goroutines that can
proceed are fair: neither the timer of a wait nor its context need ever fire, so
`WokenByRequests` holds by signals alone. In `LoadRun` goroutines run on, every
request ends, windows expire and the ticker ticks; nobody need cancel the step. In
`BrowserStep` the goroutine goes on and the timers of waits and captures fire; the
run's deadline need not come, nor any answer of Chrome to a call that has a
deadline; a plain read of a Chrome that is up is answered. `StepSettles` names the
places where a mute Chrome holds a step all the same: its start, which has no
deadline at all, and the reads that have only the run's.

Deadlock is checked in every run but `front_end`, where a loaded or rejected tree is
the end; elsewhere an explicit stuttering action (`Finished`, `Exited`, `Returned`,
`Closed`, `Done`, `Terminating`) stands for the program having ended.

The `TypeOK` of each module documents its state and is what the proofs rest on; it
is not among the properties of the runs.

### What the expected violations say

Each refutes one sentence of the repository; `PROJECT.json` quotes it.

* `mobile_device`: `EndScenario` frees a device before its recorder has stopped,
  and the check of a device is not atomic with its claim.
* `load_shared`: steps of a keyword are shared by parallel scenarios, and
  `evaluateLoadRequest` swaps a field of the step.
* `android_marker`: a marker that cannot be written after an install costs more than
  the reinstall of the comment: the marker of the release before is still there,
  and when that release comes back it takes the other's driver for its own. No
  install need be cut short for it.
* `front_end_served`: the collectors visit no expression of browser and mail steps,
  of load requests, multipart parts, load shortcuts and the `first` of mobile
  actions, so that a forward reference there is loaded; and a mail attachment with
  only `path` is loaded and cannot be lowered.

### Other places where code and words differ

Met while reading, without a run here.

* A scenario whose workspace cannot be created leaves a nil slot that the console
  report dereferences, where the README promises exit code 3 (`TestCommand` has the
  panic as the outcome `"panic"`).
* The documented skip cascade is not followed for references no collector visits:
  such a step is executed on the empty object.
* Recorders and the xcodebuild driver are spawned on the run's context
  (`simrecord/exec_spawner.go:19`, `xcodebuild/exec_spawner.go:22`): the deadline
  kills them, where their packages say they are interrupted.
* `writing-scenarios/keywords.mdx:125` says keyword calls have "no recursion limit
  beyond runtime stack constraints", while `newKeywordState` refuses a keyword within
  itself because its step names are there already (`CallsAreFinite`).
* The README says that a run cut by `--timeout` exits with 1, while a deadline after
  the last passing step leaves 0: `runTest` judges verdicts only.
* A load step with multipart parts is documented as "Rejected at decode time" and is
  accepted (`load.mdx:165`). `retry` needs both its attributes. Keyword steps ignore
  `capture`, `request` and `expect`; webhook `start` and `stop` accept an `expect`
  they ignore; unknown blocks inside `expect` and inside most actions are ignored,
  a misspelt `visable {}` included.
* A keyword or generator defined twice in one file is overwritten without a
  diagnostic (`decode.go:50`, `:87`); over two files it is an error.
* `value()` and `text()` of a mobile capture may read the hierarchy of an earlier
  attempt (`runtime/mobile.go:914`).
* `retryCapture` looks at its own timer only, so an attempt cut by the timer that
  the call derived from it is not made again, which its comment promises: the race
  that `interruptedByDeadline` is there for (`capture_artifacts.go:155`).
* `setChecked` says "element not found" of a page that never answered, and
  `pollUntilMatch` reports the cut of its own deadline instead of what it last saw.
* `newScenarioContext` ignores the context it is given: a Chrome that hangs while it
  starts holds the run past `--timeout`, with the mutex of the session.

## 4. The proofs

All proofs hold for every value of the constants allowed by the module's named
assumptions (`SuiteAssumption`, `ScenarioAssumption`, `MobileAssumption`,
`WebhookAssumption`, `LoadAssumption`, `PipelineAssumption`, `RecorderLimits`, and
`StepsAreSteps` and `FormsAreForms`, which say that a mobile step and a browser form
are any sequences of actions and expectations of the known kinds, and `TreesAreTrees`,
which says that what is found is lists of files, whose blocks have known kinds and refer
to results in their expressions only), which TLC evaluates in a passing run; those of `AppleDriver` and `AndroidDriver` need none. A name that a
bound carries (`MaxPolls`, `MaxLives`, `MaxFailures`, ...) is a constant too: the
theorems hold whatever its value.

* `SuiteRunnerProofs`. The inductive invariant couples the semaphore with the
  goroutines (`sem` is the number of goroutines at a point of `Holding`: an
  acquire moves one in, a release one out), the phase with them (past
  `"waiting"` all are done), the open providers with the phase, and the stalled
  list with the tracker: a goroutine between `TrackStart` and its read of the
  context is tracked, and one that was so at the deadline stays tracked because
  its read sees the deadline (`Listed`, `Caught`). `StalledComplete` alone is not
  inductive: before the watcher has published, only the tracker remembers.
  `Refinement` maps the initial state and every action of `Next` to a step or a
  stutter of `SuiteContract`. `TeardownInv` counts the results of the suite teardown
  against the phase, which makes `SuiteTeardownIsWhole` inductive. For the whole
  command, `Written` says that a goroutine past its scenario has left a result and
  `Blamed` that names are published and collected only for a deadline that fired;
  `CommandTellsTheTruth` is about the two when the command judges and reports.
* `ScenarioRunProofs`. `StepInv` says that a scenario that has recorded a failing
  step has status `fail` and that `failed`/`skipped` hold exactly the recorded
  verdicts of their kind; `Fitting`/`Going` tie a step under way to the conditions
  under which it was started. From them `StopsAtFirstFailure` and
  `DependenciesHaveResults` follow by one case per action. `HookInv` keeps the
  ended hooks a reversed suffix of those begun; `Turns` counts the results of each
  block against the phase; `TeardownOutlivesDeadline` says that the cleanup context
  is not there before teardown, and `CleanupIsWhole` puts the two together.
  `RetriesAreExhausted` is about steps: `AttemptInv` says that the attempt under way has
  one of its numbers and that a pause is between two, so that each of the actions that
  give a verdict either passes, has the last number, or leaves a pause whose context
  is over.
* `MobileSessionsProofs`. `LockInv` (who is inside `Execute` owns the step lock of
  its target) gives `SessionIsExclusive`, and with it `DriverInv` (the cached
  sessions are the targets with a driver) is inductive: two builds of one target
  cannot overlap. `RecordPhase` keeps `pending` and `active` to the step list of
  their scenario, so that `RecorderFound` (a recorder that runs is the one about to
  be claimed, the active one, or the one being stopped) survives the hook, and
  `RecorderStopped` follows.
* `BackendProofs`. Of the Apple cache: `Exclusive`: whoever is between `Acquire`
  and the release holds the lock, so at most one is. `SourceInPlace`: past the
  extraction the holder has a whole tree. With them `MarkersTellTheTruth` is inductive.
  `UnmarkedIsNew` and `FailedIsUnmarked` (a build that a start failed with is never
  named by a marker again, and every later build has a higher number) carry
  `RetryIsFresh`, which the file lock alone does not give: `InvalidateBuild` runs
  outside of it. `BuildsAreAccountedFor` bounds the builds made; it becomes inductive
  when the build that is due (no marker is there or being written) and those that
  invalidations will ask for (`Rebuilders`) are counted with them (`Accounted`).
  Of the Android device: `OwnDevice` says that once the old driver has been stopped
  only this command's instrumentation runs there, and that who holds the port is alive,
  which makes the answer to the health check our own; `Debts`, that the host process
  and the forward are there only at the places that will clear them.
  Of the recorder: `Holds` says of an array, the index of its oldest
  item and the count of those lost that the item at each place tells of the event of
  its age; a push to a ring with room and a push to a full one keep it (`PushRoom`,
  `PushFull`). `Remembered` says that what is pending is what is being fetched, and
  that unless the recorder was crowded everything in flight is pending: an event
  that only names its request gets the URL of that request, or none. `EvidenceIsTrue`
  reads the array in the order of `Snapshot`.
  Of a browser step: `PointerInv` says that what the wait for an element remembers is
  what the page last said, so that whichever of the two timers fires first the blame
  is the same. `DocInv` holds the timeline to the place the step is at, and says that
  the console and the network are written or the last thing left to do.
  Of a mobile step: `TimelineInv` does the same for its timeline. `WaitKnows` puts the
  four things `pollState` keeps in terms of all the wait was told, from which its
  verdict follows (`KnowledgeGivesTheVerdict`). `DeadInv` says how far an attempt with
  a driver that died before it can come, and what it still has to ask; `LogsInv`, that
  a refusal has the driver's logs collected.
* `WebhookReceiverProofs`. `OwnInv` says that an id is derived by one scenario, so
  that a receiver has one waiter: without it a signal could go to another wait and
  `NoLostWakeup` is not inductive. `HeldInv` says that an open server is in the
  map or in the hands of the step or the `Close` that will shut it.
* `LoadRunProofs`. `Conserved`: while the context lives, every request asked for is
  measured, in a worker's hands, or left in the counter, and a worker leaves only
  when the counter is overdrawn; when all have left, what is measured is what was
  asked for. A live step context at `Judge` means the round's context lived
  (`Judged`). `Overdraw` and `CutInv` count the workers that left or went back to
  their check against the counter and the cut samples. The sums rest on
  `WorkerMoves`, a lemma on the number of workers at a set of points.
* `StepPipelineProofs`. `Chain` says of the stack of calls that all frames but the
  first are keywords with disjoint step names and that each frame below the top
  stands at the step that called the next one; `Path`, that the seed scope names
  these steps. Disjoint names are what the refusal in `newKeywordState` gives, and a
  keyword has a step while it calls, so none is on the stack twice. An action changes
  the top frame, adds one or removes one, and each of the three changes has its lemma
  (`TopKeeps`, `CallKeeps`, `ReturnKeeps`). For `ResultsAreOfPasses`, `Within` and
  `Fresh` say that the results of a frame have known names and none of the frame
  above it: otherwise a step could store a result its caller has already and it would
  not count as its own. `EndsInStore` says that `store` is the last stage of every
  executor, so that a result is stored only by an attempt that is about to pass.
  `ReportsAreTrue` reads the stages off their order: `Rank` numbers them, and `Sound`
  says of the stages an attempt has left what it has done already (past `call`, it has
  called or is a keyword; `attach` is to come or the response is shown; ...).
* `SuiteFilesProofs`. The trees of files are arbitrary. `FilesInv` says of a load under
  way that the suite is what the files read so far make of it: each scenario, map entry
  and teardown is gathered from one of them (`ScenariosGathered`, `MapsGathered`,
  `TeardownGathered`), unless there is a diagnostic. What `LoadFile` adds is then one
  case per part, and `LoadedFacts` puts the invariant together with `ValidateSuite`.
  `OrderIsKept` needs what the walk of the syntax tree recovers: the two slices of gohcl
  hold exactly the blocks of the file (`DecodedHolds`), names that are unique give keys
  that are unique, and then the walk finds each block at its place (`OrderIsRecovered`).
  That the fall-back for equal labels never reaches a run is what `UniqueNames` of
  `validateSuite` gives, and nothing in `order.go`. `Flattened` says what a concatenation
  of lists holds, by the shortest prefix for which it would not.
  `AcceptedLower`, `NoExpectationIsVacuous` and `ReadsServed` compare the tables of
  `StepForms` and `StepLowering` for every set of attributes an author may write, one
  lemma per family of blocks (`BrowserActionsLower`, `StepsLower`, `ExpectsLower`, ...):
  what the lowering demands the form demands, what it evaluates the collectors visit,
  what is accepted is looked at; the exceptions are the ones that `FailsLate`,
  `NotCollected` and `Unchecked` list. TLC goes through the combinations that
  `MCFrontEnd` writes down, which the proofs do not depend on.

Only model-checked: liveness (`Terminates`, `Ends`, `AllEnd`, `WokenByRequests`,
`RunEnds`, `AllSettle`), which is out of the prover's reach. Every invariant that a
passing run checks is stated by a theorem.

## 5. What is left out

Message texts, layouts, logging and timing values. Steps do what providers let
them: which outcome a step takes is free, as is the error of any workspace. In
`StepPipeline` stages pass or fail freely, except that a payload that reads a field of
a missing result does not evaluate. The expression language, matchers and
generators are pure functions over HCL values, whose results no property here tells
apart. Reports are one step that either works, fails or meets an empty slot. The
operating system, simulators and devices are external: a driver or recorder is a
process that runs or does not. A webhook start whose address is taken, a request of
another path and a step on an unknown id change nothing and are not actions. A load
sample's latency, size and status are left out.

Of the loader: checks of literals (a key to press, a duration), the `record` block,
the label of a provider that is missing, the conditions of skip rules, deprecation
warnings. Of the mobile provider: gestures' geometry, and ports, which are claimed
and never released (`mobile/port.go:36`). Of the Apple backend: `simctl`, Windows'
lock, and the xcodebuild process that outlives a killed command. Of the Android
backend: the extraction of the packages to a shared temporary name
(`prebuilt.go:97`). Of the browser: the scripts run in the page, `Close`, one
scenario's wait for the step of another of the same target, and the content of
console entries, which go through the same ring. The caches of SQL and RPC
connections are not modelled: each is a map under one mutex and its hazards are
of one call (`rpc/descriptor/cache.go:58` keeps its first error for ever). Nor is the
heartbeat that may be emitted after `SuiteEnded` (`live_tracker.go:100`), nor the
receiver id that a keyword called twice derives twice (`runtime/webhook.go:193`).
HTTP, mail, file and exec providers keep no state between steps; their blocks are
in `StepForms` and their stages in `StepPipeline`. `tales doctor` and the drivers on
the device are not modelled.

## 6. What could follow

1. The caches of SQL and RPC, with the first error kept.
2. Percentiles, matchers, thresholds and the expansion of SQL arguments as operators
   checked against reference definitions.
3. Receiver ids of keyword steps: `StepPipeline`'s call path with `WebhookReceiver`.
