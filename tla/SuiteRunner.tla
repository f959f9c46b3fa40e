----------------------------- MODULE SuiteRunner -----------------------------
(***************************************************************************)
(* Runner.Run: one goroutine per selected scenario behind a semaphore, the *)
(* live tracker, the deadline watcher, the heartbeat, and the tail of the  *)
(* run (suite teardown, closeProviders, the stalled list, SuiteEnded).     *)
(* A scenario is atomic here (ScenarioRun opens it up).                    *)
(***************************************************************************)
EXTENDS Integers, FiniteSets, Sequences

CONSTANTS
  Scenarios,      \* the scenarios filterScenarios selected; validateSuite rejects
                  \* duplicate names, so a scenario stands for its name
  Parallel,       \* Options.Parallel, as given on the command line
  Hanging,        \* scenarios with a step that may only end once runCtx is done
  Timeout,        \* TRUE when --timeout is set
  Detached,       \* TRUE when Options.TeardownGrace > 0
  TeardownSteps,  \* number of steps of the suite-level teardown block
  Closers,        \* the registered providers that implement io.Closer
  Verbose,        \* TRUE when a sink is given and HeartbeatInterval > 0
  NoError         \* the nil error

ASSUME SuiteAssumption ==
  /\ IsFiniteSet(Scenarios)
  /\ Hanging \subseteq Scenarios
  /\ Parallel \in Int
  /\ TeardownSteps \in Nat
  /\ Timeout \in BOOLEAN /\ Detached \in BOOLEAN /\ Verbose \in BOOLEAN
  /\ NoError \notin Scenarios

\* cap(sem): Run replaces a Parallel of zero or less by one.
Slots == IF Parallel <= 0 THEN 1 ELSE Parallel

VARIABLES
  pc,        \* scenario -> where its goroutine is
  sem,       \* number of tokens in the semaphore channel
  tracker,   \* liveScenarioTracker.active
  result,    \* scenario -> result.Scenarios[index]; "nil" until it is written
  fired,     \* scenario -> ctxAlreadyFired, as its goroutine read it
  ended,     \* scenarios whose ScenarioEnded event was emitted
  firstErr,  \* the first runErr recorded, named by its scenario
  runCtx,    \* "live", "deadline" or "canceled"
  atDeadline,\* history: the scenarios started and not yet past their read of it, at the deadline
  stalledCh, \* the watcher's one-slot channel: sent or not, and the names
  stalled,   \* result.StalledScenarios
  phase,     \* where Run itself is
  teardown,  \* results of the suite teardown steps, in order
  graceOver, \* TRUE once the detached cleanup context timed out
  open,      \* providers not closed yet
  beat       \* where the heartbeat goroutine is

scenarioVars == <<pc, sem, result, fired, ended, firstErr>>
watchVars    == <<atDeadline, stalledCh>>
tailVars     == <<phase, stalled, teardown, graceOver, open>>
vars == <<scenarioVars, tracker, runCtx, watchVars, tailVars, beat>>

\* Program points of a scenario goroutine.
Started == {"tracked", "running", "hanging", "ran"}  \* tracked, runCtx not read yet
Holding == {"acquired"} \cup Started \cup {"read", "emitted", "unlisted"}  \* owns a token
Left    == {"released", "done"}
Points  == {"queued"} \cup Holding \cup Left

\* "pass" stands for a skip too: neither Run nor the exit code tells them apart.
Outcomes == {"pass", "fail"}
StepOutcomes == {"pass", "fail", "cut"}
Phases == {"waiting", "teardown", "closing", "cancel", "receive", "emit", "returned"}

Init ==
  /\ pc = [s \in Scenarios |-> "queued"]
  /\ sem = 0
  /\ tracker = {}
  /\ result = [s \in Scenarios |-> "nil"]
  /\ fired = [s \in Scenarios |-> FALSE]
  /\ ended = {}
  /\ firstErr = NoError
  /\ runCtx = "live"
  /\ atDeadline = {}
  /\ stalledCh = [sent |-> FALSE, names |-> {}]
  /\ stalled = {}
  /\ phase = "waiting"
  /\ teardown = <<>>
  /\ graceOver = FALSE
  /\ open = Closers
  /\ beat = IF Verbose THEN "select" ELSE "exited"

\* The scenarios whose goroutine is at one of some points.
At(points) == {s \in Scenarios : pc[s] \in points}

Step(s, from, to) == pc[s] = from /\ pc' = [pc EXCEPT ![s] = to]

-----------------------------------------------------------------------------
(* The scenario goroutine.                                                 *)

\* sem <- struct{}{}: the send does not look at runCtx.
Acquire(s) ==
  /\ Step(s, "queued", "acquired")
  /\ sem < Slots
  /\ sem' = sem + 1
  /\ UNCHANGED <<tracker, result, fired, ended, firstErr, runCtx, watchVars, tailVars, beat>>

TrackStart(s) ==
  /\ Step(s, "acquired", "tracked")
  /\ tracker' = tracker \cup {s}
  /\ UNCHANGED <<sem, result, fired, ended, firstErr, runCtx, watchVars, tailVars, beat>>

\* The scenario begins; whether it will hang depends on what its steps meet.
EmitStarted(s) ==
  /\ \/ Step(s, "tracked", "running")
     \/ s \in Hanging /\ Step(s, "tracked", "hanging")
  /\ UNCHANGED <<sem, tracker, result, fired, ended, firstErr, runCtx, watchVars, tailVars, beat>>

\* runScenario (see ScenarioRun) returns a result, or no result and an error when
\* its workspace cannot be created.
Execute(s) ==
  /\ Step(s, "running", "ran")
  /\ \E r \in Outcomes \cup {"error"} : result' = [result EXCEPT ![s] = r]
  /\ UNCHANGED <<sem, tracker, fired, ended, firstErr, runCtx, watchVars, tailVars, beat>>

\* A hanging step sees its context end, and fails.
EndHanging(s) ==
  /\ Step(s, "hanging", "ran")
  /\ runCtx # "live"
  /\ result' = [result EXCEPT ![s] = "fail"]
  /\ UNCHANGED <<sem, tracker, fired, ended, firstErr, runCtx, watchVars, tailVars, beat>>

ReadCtx(s) ==
  /\ Step(s, "ran", "read")
  /\ fired' = [fired EXCEPT ![s] = runCtx # "live"]
  /\ UNCHANGED <<sem, tracker, result, ended, firstErr, runCtx, watchVars, tailVars, beat>>

\* emitScenarioEnded says nothing of a scenario without a result.
EmitEnded(s) ==
  /\ Step(s, "read", "emitted")
  /\ ended' = IF result[s] = "error" THEN ended ELSE ended \cup {s}
  /\ UNCHANGED <<sem, tracker, result, fired, firstErr, runCtx, watchVars, tailVars, beat>>

\* Mutant: tracker.end without the check of the context before it.
TrackEndAlways(s) ==
  /\ Step(s, "emitted", "unlisted")
  /\ tracker' = tracker \ {s}
  /\ UNCHANGED <<sem, result, fired, ended, firstErr, runCtx, watchVars, tailVars, beat>>

TrackEnd(s) ==
  /\ Step(s, "emitted", "unlisted")
  /\ tracker' = IF fired[s] THEN tracker ELSE tracker \ {s}
  /\ UNCHANGED <<sem, result, fired, ended, firstErr, runCtx, watchVars, tailVars, beat>>

\* Mutant: an erroneous scenario returns before the deferred receive on sem.
RecordAndLeak(s) ==
  /\ Step(s, "unlisted", "released")
  /\ firstErr' = IF result[s] = "error" /\ firstErr = NoError THEN s ELSE firstErr
  /\ sem' = IF result[s] = "error" THEN sem ELSE sem - 1
  /\ UNCHANGED <<tracker, result, fired, ended, runCtx, watchVars, tailVars, beat>>

\* The error is recorded under firstErrMu, then the deferred receive on sem.
RecordAndRelease(s) ==
  /\ Step(s, "unlisted", "released")
  /\ firstErr' = IF result[s] = "error" /\ firstErr = NoError THEN s ELSE firstErr
  /\ sem' = sem - 1
  /\ UNCHANGED <<tracker, result, fired, ended, runCtx, watchVars, tailVars, beat>>

WgDone(s) ==
  /\ Step(s, "released", "done")
  /\ UNCHANGED <<sem, tracker, result, fired, ended, firstErr, runCtx, watchVars, tailVars, beat>>

-----------------------------------------------------------------------------
(* The deadline, its watcher and the heartbeat.                            *)

DeadlineFires ==
  /\ Timeout
  /\ runCtx = "live"
  /\ runCtx' = "deadline"
  /\ atDeadline' = At(Started)
  /\ UNCHANGED <<scenarioVars, tracker, stalledCh, tailVars, beat>>

\* watchDeadlineFor: woken at some time after runCtx is done.
WatcherPublishes ==
  /\ runCtx # "live"
  /\ ~stalledCh.sent
  /\ stalledCh' = [sent |-> TRUE, names |-> IF runCtx = "deadline" THEN tracker ELSE {}]
  /\ UNCHANGED <<scenarioVars, tracker, runCtx, atDeadline, tailVars, beat>>

\* The ticker fired: the snapshot of the names is taken under the tracker's mutex ...
HeartbeatTick ==
  /\ beat = "select"
  /\ beat' = "emitting"
  /\ UNCHANGED <<scenarioVars, tracker, runCtx, watchVars, tailVars>>

\* ... and handed to the sink after it was released.
HeartbeatEmit ==
  /\ beat = "emitting"
  /\ beat' = "select"
  /\ UNCHANGED <<scenarioVars, tracker, runCtx, watchVars, tailVars>>

HeartbeatExit ==
  /\ beat = "select"
  /\ runCtx # "live" \/ phase = "returned"
  /\ beat' = "exited"
  /\ UNCHANGED <<scenarioVars, tracker, runCtx, watchVars, tailVars>>

-----------------------------------------------------------------------------
(* Run itself, after it spawned the goroutines.                            *)

\* Mutant: wg.Add inside the goroutine, so that Wait may miss the ones not started.
WaitStarted ==
  /\ phase = "waiting"
  /\ \A s \in Scenarios : pc[s] \in {"queued", "done"}
  /\ phase' = IF TeardownSteps = 0 THEN "closing" ELSE "teardown"
  /\ UNCHANGED <<scenarioVars, tracker, runCtx, watchVars, stalled, teardown, graceOver, open, beat>>

\* wg.Wait; runSuiteTeardown builds its cleanup context at once. Its workspace
\* may not be creatable: then one synthetic failed step replaces the block.
WaitAll ==
  /\ phase = "waiting"
  /\ \A s \in Scenarios : pc[s] = "done"
  /\ \/ /\ phase' = IF TeardownSteps = 0 THEN "closing" ELSE "teardown"
        /\ UNCHANGED teardown
     \/ /\ TeardownSteps > 0
        /\ phase' = "closing"
        /\ teardown' = <<"fail">>
  /\ UNCHANGED <<scenarioVars, tracker, runCtx, watchVars, stalled, graceOver, open, beat>>

GraceExpires ==
  /\ phase = "teardown" /\ Detached /\ ~graceOver
  /\ graceOver' = TRUE
  /\ UNCHANGED <<scenarioVars, tracker, runCtx, watchVars, phase, stalled, teardown, open, beat>>

\* cleanupContext: detached with its own budget, or runCtx itself.
CleanupCtxDone == IF Detached THEN graceOver ELSE runCtx # "live"

\* Mutant: the first failing step ends the block.
TeardownStepOrStop ==
  /\ phase = "teardown"
  /\ \E r \in StepOutcomes :
       /\ r = "cut" => CleanupCtxDone
       /\ teardown' = Append(teardown, r)
       /\ phase' = IF Len(teardown) + 1 = TeardownSteps \/ r \in {"fail", "cut"}
                   THEN "closing" ELSE "teardown"
  /\ UNCHANGED <<scenarioVars, tracker, runCtx, watchVars, stalled, graceOver, open, beat>>

\* The next teardown step, whatever became of the one before it.
TeardownStep ==
  /\ phase = "teardown"
  /\ \E r \in StepOutcomes :
       /\ r = "cut" => CleanupCtxDone
       /\ teardown' = Append(teardown, r)
  /\ phase' = IF Len(teardown) + 1 = TeardownSteps THEN "closing" ELSE "teardown"
  /\ UNCHANGED <<scenarioVars, tracker, runCtx, watchVars, stalled, graceOver, open, beat>>

\* closeProviders walks Registry.All, whose order is that of a Go map.
CloseProvider(p) ==
  /\ phase = "closing"
  /\ p \in open
  /\ open' = open \ {p}
  /\ UNCHANGED <<scenarioVars, tracker, runCtx, watchVars, phase, stalled, teardown, graceOver, beat>>

ProvidersClosed ==
  /\ phase = "closing"
  /\ open = {}
  /\ phase' = "cancel"
  /\ UNCHANGED <<scenarioVars, tracker, runCtx, watchVars, stalled, teardown, graceOver, open, beat>>

RunCancel ==
  /\ phase = "cancel"
  /\ phase' = "receive"
  /\ runCtx' = IF runCtx = "live" THEN "canceled" ELSE runCtx
  /\ UNCHANGED <<scenarioVars, tracker, watchVars, stalled, teardown, graceOver, open, beat>>

ReceiveStalled ==
  /\ phase = "receive"
  /\ stalledCh.sent
  /\ stalled' = stalledCh.names
  /\ phase' = "emit"
  /\ UNCHANGED <<scenarioVars, tracker, runCtx, watchVars, teardown, graceOver, open, beat>>

\* SuiteEnded, then the deferred stopHeartbeat (a close, not a join).
EmitSuiteEnded ==
  /\ phase = "emit"
  /\ phase' = "returned"
  /\ UNCHANGED <<scenarioVars, tracker, runCtx, watchVars, stalled, teardown, graceOver, open, beat>>

Goroutine(s) ==
  \/ Acquire(s) \/ TrackStart(s) \/ EmitStarted(s) \/ Execute(s) \/ EndHanging(s) \/ ReadCtx(s)
  \/ EmitEnded(s) \/ TrackEnd(s) \/ RecordAndRelease(s) \/ WgDone(s)

Heartbeat == HeartbeatTick \/ HeartbeatEmit \/ HeartbeatExit

RunTail ==
  \/ WaitAll \/ TeardownStep \/ ProvidersClosed \/ RunCancel
  \/ ReceiveStalled \/ EmitSuiteEnded
  \/ \E p \in Closers : CloseProvider(p)

\* Nothing is left to do: the run returned and its helpers have ended.
Finished == phase = "returned" /\ beat = "exited" /\ UNCHANGED vars

Next ==
  \/ \E s \in Scenarios : Goroutine(s)
  \/ DeadlineFires \/ WatcherPublishes \/ Heartbeat
  \/ GraceExpires \/ RunTail \/ Finished

Spec == Init /\ [][Next]_vars

\* The run seen as the abstract suite: a goroutine is in flight from its
\* acquisition of the semaphore to its release.
Contract == INSTANCE SuiteContract WITH
  inFlight <- At(Holding),
  finished <- At(Left),
  stage <- CASE phase = "waiting" -> "scenarios"
             [] phase \in {"teardown", "closing"} -> "cleanup"
             [] phase \in {"cancel", "receive", "emit"} -> "closed"
             [] OTHER -> "reported"

-----------------------------------------------------------------------------

TypeOK ==
  /\ pc \in [Scenarios -> Points]
  /\ sem \in Int
  /\ tracker \subseteq Scenarios
  /\ result \in [Scenarios -> Outcomes \cup {"nil", "error"}]
  /\ fired \in [Scenarios -> BOOLEAN]
  /\ ended \subseteq Scenarios
  /\ firstErr \in Scenarios \cup {NoError}
  /\ runCtx \in {"live", "deadline", "canceled"}
  /\ atDeadline \subseteq Scenarios
  /\ stalledCh \in [sent : BOOLEAN, names : SUBSET Scenarios]
  /\ stalled \subseteq Scenarios
  /\ phase \in Phases
  /\ teardown \in Seq(StepOutcomes)
  /\ graceOver \in BOOLEAN
  /\ open \subseteq Closers
  /\ beat \in {"select", "emitting", "exited"}

\* --parallel bounds the scenarios in flight: never more than Slots goroutines
\* are past the semaphore, and a token is held by exactly one of them (Run's
\* sem channel; a leaked or doubly returned token breaks it).
AtMostParallel ==
  /\ sem = Cardinality(At(Holding))
  /\ sem <= Slots

\* Suite teardown and everything after it run with no scenario goroutine alive
\* (runner.go: "after wg.Wait so no scenario goroutine races the result").
TailIsAlone == phase # "waiting" => \A s \in Scenarios : pc[s] = "done"

\* No scenario and no suite teardown step runs against a provider that was
\* closed (runner.go: "before closeProviders so cleanup steps can still use
\* the long-lived sessions").
NoUseAfterClose ==
  (phase = "teardown" \/ \E s \in Scenarios : pc[s] \in Holding) => open = Closers

\* Every step of the suite teardown gets its turn, whatever the ones before it
\* did, unless the block could not be set up at all.
TeardownExhaustive ==
  phase \notin {"waiting", "teardown"} =>
    Len(teardown) = TeardownSteps \/ teardown = <<"fail">>

\* With a grace budget, the run's deadline never cuts a suite teardown step
\* short: only the budget itself does (README, --teardown-grace).
DeadlineSparesCleanup ==
  Detached /\ (\E i \in 1..Len(teardown) : teardown[i] = "cut") => graceOver

\* The suite teardown is done in full: every step has its turn, and with a grace
\* budget the whole of that budget, when scenarios failed or hung before it.
SuiteTeardownIsWhole == TeardownExhaustive /\ DeadlineSparesCleanup

\* Every scenario that was in flight when the deadline hit (started, and not yet
\* past its own check of the context) is in the stalled list, however late the
\* watcher takes its snapshot and whatever the scenario does meanwhile.
StalledComplete ==
  stalledCh.sent /\ runCtx = "deadline" =>
    atDeadline \subseteq stalledCh.names

\* Run implements SuiteContract: the goroutines, the semaphore and the wait
\* group amount to "each scenario once, bounded, then cleanup, then close".
RefinesContract == Contract!Spec
=============================================================================
