----------------------------- MODULE MobileSessions -----------------------------
(***************************************************************************)
(* The mobile provider as the scenarios of one run share it: the session   *)
(* cached per target, the step and target locks, the recording of a        *)
(* scenario's screen (scenario_hook.go), and Close at the end of the run.  *)
(* A scenario is a sequence of mobile steps, the EndScenario hook, and a   *)
(* sequence of mobile teardown steps (see ScenarioRun).                    *)
(***************************************************************************)
EXTENDS Integers

CONSTANTS
  Scenarios,     \* the scenarios of the run
  Targets,       \* config.mobile.targets: a target stands for its sessionKey
  Devices,       \* simulators and emulators
  DeviceOf,      \* target -> the device its sessions drive
  Recorded,      \* the scenarios with a record block
  BoundTo,       \* scenario -> the target its record block names, or AnyTarget
  AnyTarget,
  MaxSteps,      \* bound: mobile steps a scenario executes at most
  MaxCleanups,   \* bound: mobile teardown steps likewise
  Timeout,       \* TRUE when --timeout is set
  Nobody         \* no scenario, no device, no target yet

ASSUME MobileAssumption ==
  /\ DeviceOf \in [Targets -> Devices]
  /\ Recorded \subseteq Scenarios
  /\ BoundTo \in [Scenarios -> Targets \cup {AnyTarget}]
  /\ MaxSteps \in Nat /\ MaxCleanups \in Nat
  /\ Timeout \in BOOLEAN
  /\ Nobody \notin Scenarios \cup Devices \cup Targets

VARIABLES
  pc,         \* scenario -> where its goroutine is
  block,      \* scenario -> "steps" or "teardown"
  left,       \* scenario -> mobile steps it may still execute in its block
  target,     \* scenario -> the target of its latest step
  stepLock,   \* target -> who holds stepLocks[key]
  targetLock, \* target -> who holds targetLocks[key]
  sessions,   \* the keys of Provider.sessions
  drivers,    \* target -> sessions built and not closed
  pending,    \* recordController.pending
  active,     \* recordController.active: the device of the recorder, or Nobody
  deviceUsed, \* recordController.deviceUsed: who records a device, or Nobody
  stopping,   \* scenario -> the device whose recorder its EndScenario stops
  recorders,  \* the recorder processes that run, as <<scenario, device>>
  runCtx,     \* "live" or "done"
  provider    \* "open", "closing" or "closed"

scenarioVars == <<pc, block, left, target>>
sessionVars  == <<stepLock, targetLock, sessions, drivers>>
ctrlVars     == <<pending, active, deviceUsed>>
recordVars   == <<ctrlVars, stopping, recorders>>
endVars      == <<runCtx, provider>>
vars == <<scenarioVars, sessionVars, recordVars, endVars>>

\* Inside Execute, with the step lock held.
Inside == {"lookup", "relock", "build", "check", "spawn", "claim", "act"}
Points == {"begin", "idle", "wait", "stop", "done"} \cup Inside

Init ==
  /\ pc = [s \in Scenarios |-> "begin"]
  /\ block = [s \in Scenarios |-> "steps"]
  /\ left = [s \in Scenarios |-> MaxSteps]
  /\ target = [s \in Scenarios |-> Nobody]
  /\ stepLock = [t \in Targets |-> Nobody]
  /\ targetLock = [t \in Targets |-> Nobody]
  /\ sessions = {}
  /\ drivers = [t \in Targets |-> 0]
  /\ pending = {}
  /\ active = [s \in Scenarios |-> Nobody]
  /\ deviceUsed = [d \in Devices |-> Nobody]
  /\ stopping = [s \in Scenarios |-> Nobody]
  /\ recorders = {}
  /\ runCtx = "live"
  /\ provider = "open"

Step(s, from, to) == pc[s] = from /\ pc' = [pc EXCEPT ![s] = to]

Device(s) == DeviceOf[target[s]]

-----------------------------------------------------------------------------
(* The scenario around its steps.                                          *)

\* BeginScenario; a record block that does not evaluate fails the scenario, and
\* the hook that failed is not ended.
BeginScenario(s) ==
  /\ \/ /\ Step(s, "begin", "idle")
        /\ pending' = IF s \in Recorded THEN pending \cup {s} ELSE pending
     \/ /\ Step(s, "begin", "done")
        /\ s \in Recorded /\ UNCHANGED pending
  /\ UNCHANGED <<block, left, target, sessionVars, active, deviceUsed, stopping,
                 recorders, endVars>>

\* A mobile step is next, for some target.
NextStep(s) ==
  /\ left[s] > 0
  /\ left' = [left EXCEPT ![s] = @ - 1]
  /\ Step(s, "idle", "wait")
  /\ \E t \in Targets : target' = [target EXCEPT ![s] = t]
  /\ UNCHANGED <<block, sessionVars, recordVars, endVars>>

\* Mutant: the scenario's entry stays in pending.
EndScenarioKeepsPending(s) ==
  /\ block[s] = "steps"
  /\ Step(s, "idle", IF active[s] = Nobody THEN "idle" ELSE "stop")
  /\ block' = [block EXCEPT ![s] = "teardown"]
  /\ left' = [left EXCEPT ![s] = MaxCleanups]
  /\ stopping' = [stopping EXCEPT ![s] = active[s]]
  /\ active' = [active EXCEPT ![s] = Nobody]
  /\ deviceUsed' = [d \in Devices |-> IF deviceUsed[d] = s THEN Nobody ELSE deviceUsed[d]]
  /\ UNCHANGED <<target, sessionVars, pending, recorders, endVars>>

\* EndScenario: the maps are cleared under the lock, the recorder stops after it.
\* (Without a record block it returns at once: no map has an entry for s.)
EndScenario(s) ==
  /\ block[s] = "steps"
  /\ Step(s, "idle", IF active[s] = Nobody THEN "idle" ELSE "stop")
  /\ block' = [block EXCEPT ![s] = "teardown"]
  /\ left' = [left EXCEPT ![s] = MaxCleanups]
  /\ stopping' = [stopping EXCEPT ![s] = active[s]]
  /\ pending' = pending \ {s}
  /\ active' = [active EXCEPT ![s] = Nobody]
  /\ deviceUsed' = [d \in Devices |-> IF deviceUsed[d] = s THEN Nobody ELSE deviceUsed[d]]
  /\ UNCHANGED <<target, sessionVars, recorders, endVars>>

\* Recorder.Stop: interrupt and wait, on the cleanup context.
StopRecorder(s) ==
  /\ Step(s, "stop", "idle")
  /\ recorders' = recorders \ {<<s, stopping[s]>>}
  /\ UNCHANGED <<block, left, target, sessionVars, ctrlVars, stopping, endVars>>

ScenarioReturns(s) ==
  /\ block[s] = "teardown"
  /\ Step(s, "idle", "done")
  /\ UNCHANGED <<block, left, target, sessionVars, recordVars, endVars>>

-----------------------------------------------------------------------------
(* Provider.Execute.                                                       *)

\* Mutant: the lock is looked up by scenario, so it is always free.
LockStepAlone(s) ==
  /\ Step(s, "wait", "lookup")
  /\ stepLock' = [stepLock EXCEPT ![target[s]] = s]
  /\ UNCHANGED <<block, left, target, targetLock, sessions, drivers, recordVars, endVars>>

LockStep(s) ==
  /\ Step(s, "wait", "lookup")
  /\ stepLock[target[s]] = Nobody
  /\ stepLock' = [stepLock EXCEPT ![target[s]] = s]
  /\ UNCHANGED <<block, left, target, targetLock, sessions, drivers, recordVars, endVars>>

\* acquireSession, first lookup.
Lookup(s) ==
  /\ Step(s, "lookup", IF target[s] \in sessions THEN "check" ELSE "relock")
  /\ UNCHANGED <<block, left, target, sessionVars, recordVars, endVars>>

LockTarget(s) ==
  /\ Step(s, "relock", "build")
  /\ targetLock[target[s]] = Nobody
  /\ targetLock' = [targetLock EXCEPT ![target[s]] = s]
  /\ UNCHANGED <<block, left, target, stepLock, sessions, drivers, recordVars, endVars>>

\* The step is over; the scenario may go on in its block, retry, or halt.
Return(s) ==
  /\ stepLock' = [stepLock EXCEPT ![target[s]] = Nobody]
  /\ \E n \in {0, left[s]} : left' = [left EXCEPT ![s] = n]

\* The context a step of the block runs on is done (the cleanup context has a
\* budget of its own and is taken to outlast the step).
StepCtxDone(s) == block[s] = "steps" /\ runCtx = "done"

\* Mutant: the session is cached under a key that no lookup asks for.
BuildUncached(s) ==
  /\ Step(s, "build", "check")
  /\ ~StepCtxDone(s)
  /\ drivers' = [drivers EXCEPT ![target[s]] = @ + 1]
  /\ targetLock' = [targetLock EXCEPT ![target[s]] = Nobody]
  /\ UNCHANGED <<block, left, target, stepLock, sessions, recordVars, endVars>>

\* acquireSession, second lookup, and Build when it misses again (it always does:
\* the step lock of the same key is held).
Build(s) ==
  /\ Step(s, "build", "check")
  /\ IF target[s] \in sessions THEN UNCHANGED <<sessions, drivers>>
     ELSE /\ ~StepCtxDone(s)
          /\ sessions' = sessions \cup {target[s]}
          /\ drivers' = [drivers EXCEPT ![target[s]] = @ + 1]
  /\ targetLock' = [targetLock EXCEPT ![target[s]] = Nobody]
  /\ UNCHANGED <<block, left, target, stepLock, recordVars, endVars>>

\* Mutant: the error returns without the deferred unlock of the step lock.
BuildFailsLocked(s) ==
  /\ Step(s, "build", "idle")
  /\ target[s] \notin sessions
  /\ left' = [left EXCEPT ![s] = 0]
  /\ targetLock' = [targetLock EXCEPT ![target[s]] = Nobody]
  /\ UNCHANGED <<block, target, stepLock, sessions, drivers, recordVars, endVars>>

BuildFails(s) ==
  /\ Step(s, "build", "idle")
  /\ target[s] \notin sessions
  /\ Return(s)
  /\ targetLock' = [targetLock EXCEPT ![target[s]] = Nobody]
  /\ UNCHANGED <<block, target, sessions, drivers, recordVars, endVars>>

\* maybeStartRecording, first critical section.
MayRecord(s) ==
  /\ s \in pending
  /\ active[s] = Nobody
  /\ BoundTo[s] \in {AnyTarget, target[s]}
  /\ deviceUsed[Device(s)] \in {Nobody, s}

CheckRecording(s) ==
  /\ Step(s, "check", IF MayRecord(s) THEN "spawn" ELSE "act")
  /\ UNCHANGED <<block, left, target, sessionVars, recordVars, endVars>>

\* Recorder.Start, outside the lock; the process is bound to the step's context.
\* Its failure is logged and the step goes on.
StartRecorder(s) ==
  /\ \/ /\ Step(s, "spawn", "claim")
        /\ ~StepCtxDone(s)
        /\ recorders' = recorders \cup {<<s, Device(s)>>}
     \/ Step(s, "spawn", "act") /\ UNCHANGED recorders
  /\ UNCHANGED <<block, left, target, sessionVars, ctrlVars, stopping, endVars>>

\* Mutant: the device is mapped to itself.
ClaimSwapped(s) ==
  /\ Step(s, "claim", "act")
  /\ active' = [active EXCEPT ![s] = Device(s)]
  /\ deviceUsed' = [deviceUsed EXCEPT ![Device(s)] = Device(s)]
  /\ UNCHANGED <<block, left, target, sessionVars, pending, stopping, recorders, endVars>>

\* Second critical section.
Claim(s) ==
  /\ Step(s, "claim", "act")
  /\ active' = [active EXCEPT ![s] = Device(s)]
  /\ deviceUsed' = [deviceUsed EXCEPT ![Device(s)] = s]
  /\ UNCHANGED <<block, left, target, sessionVars, pending, stopping, recorders, endVars>>

\* executeMobile on the session, then the deferred unlock.
Act(s) ==
  /\ Step(s, "act", "idle")
  /\ Return(s)
  /\ UNCHANGED <<block, target, targetLock, sessions, drivers, recordVars, endVars>>

-----------------------------------------------------------------------------
(* The end of the run.                                                     *)

\* The deadline; exec.CommandContext kills the recorders started under it.
DeadlineFires ==
  /\ Timeout /\ runCtx = "live"
  /\ runCtx' = "done"
  /\ recorders' = {}
  /\ UNCHANGED <<scenarioVars, sessionVars, ctrlVars, stopping, provider>>

\* Runner.closeProviders once every scenario is done: Close swaps the map ...
Close ==
  /\ provider = "open"
  /\ \A s \in Scenarios : pc[s] = "done"
  /\ provider' = "closing"
  /\ UNCHANGED <<scenarioVars, sessionVars, recordVars, runCtx>>

\* ... and closes the sessions it held, one by one.
CloseSession(t) ==
  /\ provider = "closing"
  /\ t \in sessions
  /\ sessions' = sessions \ {t}
  /\ drivers' = [drivers EXCEPT ![t] = @ - 1]
  /\ UNCHANGED <<scenarioVars, stepLock, targetLock, recordVars, endVars>>

CloseReturns ==
  /\ provider = "closing"
  /\ sessions = {}
  /\ provider' = "closed"
  /\ UNCHANGED <<scenarioVars, sessionVars, recordVars, runCtx>>

Closed == provider = "closed" /\ UNCHANGED vars

Execute(s) ==
  \/ LockStep(s) \/ Lookup(s) \/ LockTarget(s) \/ Build(s) \/ BuildFails(s)
  \/ CheckRecording(s) \/ StartRecorder(s) \/ Claim(s) \/ Act(s)

Scenario(s) ==
  \/ BeginScenario(s) \/ NextStep(s) \/ Execute(s)
  \/ EndScenario(s) \/ StopRecorder(s) \/ ScenarioReturns(s)

Closing == Close \/ CloseReturns \/ \E t \in Targets : CloseSession(t)

Next == (\E s \in Scenarios : Scenario(s)) \/ DeadlineFires \/ Closing \/ Closed

Spec == Init /\ [][Next]_vars

\* Goroutines run on, steps end (every action of a step has a timeout).
FairSpec == Spec /\ WF_vars(Closing) /\ \A s \in Scenarios : WF_vars(Scenario(s))

-----------------------------------------------------------------------------

TypeOK ==
  /\ pc \in [Scenarios -> Points]
  /\ block \in [Scenarios -> {"steps", "teardown"}]
  /\ left \in [Scenarios -> Nat]
  /\ target \in [Scenarios -> Targets \cup {Nobody}]
  /\ \A s \in Scenarios : pc[s] \in {"wait"} \cup Inside => target[s] \in Targets
  /\ stepLock \in [Targets -> Scenarios \cup {Nobody}]
  /\ targetLock \in [Targets -> Scenarios \cup {Nobody}]
  /\ sessions \subseteq Targets
  /\ drivers \in [Targets -> Int]
  /\ pending \subseteq Scenarios
  /\ active \in [Scenarios -> Devices \cup {Nobody}]
  /\ deviceUsed \in [Devices -> Scenarios \cup {Nobody}]
  /\ stopping \in [Scenarios -> Devices \cup {Nobody}]
  /\ recorders \subseteq Scenarios \X Devices
  /\ runCtx \in {"live", "done"}
  /\ provider \in {"open", "closing", "closed"}

\* Two scenarios never drive one target at once: whoever looks up, builds or uses
\* its session, or starts a recording through it, is alone (Execute's step lock).
SessionIsExclusive ==
  \A s, r \in Scenarios :
    s # r /\ pc[s] \in Inside /\ pc[r] \in Inside => target[s] # target[r]

\* A target gets one driver, however many scenarios meet its missing session or
\* fail to build it, and Close finds each of them: none is left running
\* ("Close shuts down every cached session").
OneDriverPerTarget ==
  \A t \in Targets : /\ drivers[t] = IF t \in sessions THEN 1 ELSE 0
                     /\ provider = "closed" => drivers[t] = 0

\* A recording ends before the scenario's teardown, and none is begun after: no
\* recorder runs on for a scenario that is past EndScenario, whatever steps its
\* teardown executes ("the recorder is always stopped", mobile-ios.mdx).
RecorderStopped ==
  \A r \in recorders : block[r[1]] = "steps" \/ pc[r[1]] = "stop"

\* Every scenario returns and the provider closes: a step lock or target lock is
\* given back on every path, and no two scenarios wait for one another.
AllEnd == <>(provider = "closed")

\* "deviceUsed maps a device id to the scenario recording it, which blocks two
\* scenarios from recording the same device at once" (scenario_hook.go).
DeviceRecordedOnce ==
  \A p, q \in recorders : p[2] = q[2] => p = q
=================================================================================
