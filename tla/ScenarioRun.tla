------------------------------ MODULE ScenarioRun ------------------------------
(***************************************************************************)
(* Runner.runScenario: the workspace, the scenario's skip rules, the       *)
(* BeginScenario hooks, the steps in source order with their skip cascade  *)
(* and retries, the EndScenario hooks, and the teardown on its own lazily  *)
(* built context. It is the body of SuiteRunner!Execute.                   *)
(***************************************************************************)
EXTENDS Integers, Sequences, SequencesExt

CONSTANTS
  Steps,          \* number of steps; a step is its place in the file
  Cleanups,       \* number of teardown steps
  Hooks,          \* the registered providers that implement ScenarioHook
  Depends,        \* step -> the steps StepDependencies collects for it
  Attempts,       \* block -> step -> retry.attempts as written (0: no retry block)
  Paused,         \* block -> its steps with retry.interval > 0
  Hanging,        \* block -> its steps that only end when their context is done
  Timeout,        \* TRUE when the run has a deadline
  Detached        \* TRUE when Options.TeardownGrace > 0

Blocks == {"steps", "teardown"}

Size(block) == IF block = "steps" THEN Steps ELSE Cleanups

\* The loader has run ValidateStepOrder on the steps: a step names earlier ones.
ASSUME ScenarioAssumption ==
  /\ Steps \in Nat /\ Cleanups \in Nat
  /\ Depends \in [1..Steps -> SUBSET (1..Steps)]
  /\ \A i \in 1..Steps : Depends[i] \subseteq 1..(i - 1)
  /\ \A b \in Blocks : /\ Attempts[b] \in [1..Size(b) -> Int]
                       /\ Paused[b] \subseteq 1..Size(b)
                       /\ Hanging[b] \subseteq 1..Size(b)
  /\ Timeout \in BOOLEAN /\ Detached \in BOOLEAN

\* What becomes of a step: run to a pass, to a failure or until its context cut
\* it; or skipped by a blocked dependency, by the halt after a failure, by a skip
\* rule or its `when`; or failed by a skip rule that does not evaluate.
Executed == {"pass", "fail", "cut"}
Failing  == {"fail", "cut", "badRule"}
Skipping == {"cascade", "halted", "rule", "when"}
Verdicts == {"pass"} \cup Failing \cup Skipping

VARIABLES
  phase,      \* where runScenario is
  began,      \* hooks whose BeginScenario succeeded, in order
  endedHooks, \* hooks whose EndScenario was called, in order
  status,     \* sResult.Status; "none" when there is no result but an error
  failure,    \* sResult.Failure: the block and step (0: none) it comes from
  results,    \* block -> the verdicts recorded so far, in order
  failed,     \* depTracker.failed
  skipped,    \* depTracker.skipped
  at,         \* the current step: "decide", "attempt" or "sleep"
  attempt,    \* its attempt number
  runCtx,     \* "live" or "done"
  cleanup     \* the cleanup context: "unbuilt", "live" or "done"

resultVars == <<status, failure, results, failed, skipped>>
hookVars   == <<began, endedHooks>>
ctxVars    == <<runCtx, cleanup>>
vars == <<phase, hookVars, resultVars, at, attempt, ctxVars>>

NoFailure == [in |-> "none", step |-> 0]

Init ==
  /\ phase = "workspace"
  /\ began = <<>> /\ endedHooks = <<>>
  /\ status = "pass" /\ failure = NoFailure
  /\ results = [b \in Blocks |-> <<>>]
  /\ failed = {} /\ skipped = {}
  /\ at = "decide" /\ attempt = 0
  /\ runCtx = "live"
  /\ cleanup = "unbuilt"

-----------------------------------------------------------------------------
(* Before the steps.                                                       *)

\* buildScenarioWorkspace; its error leaves the scenario without a result.
Workspace ==
  /\ phase = "workspace"
  /\ \/ phase' = "rules" /\ UNCHANGED status
     \/ phase' = "returned" /\ status' = "none"
  /\ UNCHANGED <<hookVars, failure, results, failed, skipped, at, attempt, ctxVars>>

\* applyScenarioSkip: terminal when a rule skips or does not evaluate.
ScenarioRules ==
  /\ phase = "rules"
  /\ \/ phase' = "begin" /\ UNCHANGED <<status, failure>>
     \/ phase' = "returned" /\ status' = "skip" /\ UNCHANGED failure
     \/ phase' = "returned" /\ status' = "fail" /\ failure' = [in |-> "rules", step |-> 0]
  /\ UNCHANGED <<hookVars, results, failed, skipped, at, attempt, ctxVars>>

\* The next hook begins, in the order of Registry.All (that of a Go map). An
\* error returns at once, through the deferred endHooks.
BeginHook(h) ==
  /\ phase = "begin"
  /\ h \in Hooks \ ToSet(began)
  /\ \/ began' = Append(began, h) /\ UNCHANGED <<phase, status, failure>>
     \/ /\ phase' = "end" /\ UNCHANGED began
        /\ status' = "fail" /\ failure' = [in |-> "hook", step |-> 0]
  /\ UNCHANGED <<endedHooks, results, failed, skipped, at, attempt, ctxVars>>

HooksBegun ==
  /\ phase = "begin"
  /\ ToSet(began) = Hooks
  /\ phase' = "steps"
  /\ UNCHANGED <<hookVars, resultVars, at, attempt, ctxVars>>

-----------------------------------------------------------------------------
(* One step at a time, in both blocks.                                     *)

Current == Len(results[phase]) + 1
InBlock == phase \in Blocks /\ Current <= Size(phase)

\* retryOptions: less than one attempt, or no retry block, means one.
MaxAttempts == IF Attempts[phase][Current] < 1 THEN 1 ELSE Attempts[phase][Current]

\* dependencyBlocker: dependents of a failed or skipped step are blocked.
Blocked == \E d \in Depends[Current] : d \in failed \cup skipped

\* Mutant: halted and rule-skipped steps are not marked as skipped.
RecordWithoutSkips(v) ==
  /\ results' = [results EXCEPT ![phase] = Append(@, v)]
  /\ at' = "decide" /\ attempt' = 0
  /\ failed' = IF phase = "steps" /\ v \in Failing THEN failed \cup {Current} ELSE failed
  /\ status' = IF v \in Failing THEN "fail" ELSE status
  /\ failure' = IF v \in Failing /\ failure = NoFailure
                THEN [in |-> phase, step |-> Current] ELSE failure
  /\ UNCHANGED <<phase, hookVars, skipped>>

\* A verdict of the step list feeds the dependency tracker and halts the scenario
\* when it fails; one of the teardown only fails a scenario that passed so far.
Record(v) ==
  /\ results' = [results EXCEPT ![phase] = Append(@, v)]
  /\ at' = "decide" /\ attempt' = 0
  /\ failed' = IF phase = "steps" /\ v \in Failing THEN failed \cup {Current} ELSE failed
  /\ skipped' = IF phase = "steps" /\ v \in Skipping THEN skipped \cup {Current} ELSE skipped
  /\ status' = IF v \in Failing THEN "fail" ELSE status
  /\ failure' = IF v \in Failing /\ failure = NoFailure
                THEN [in |-> phase, step |-> Current] ELSE failure
  /\ UNCHANGED <<phase, hookVars>>

\* runOneStep: the cascade is looked at before the halt.
SkipBlocked ==
  /\ InBlock /\ phase = "steps" /\ at = "decide"
  /\ Blocked
  /\ Record("cascade") /\ UNCHANGED ctxVars

SkipHalted ==
  /\ InBlock /\ phase = "steps" /\ at = "decide"
  /\ ~Blocked /\ status = "fail"
  /\ Record("halted") /\ UNCHANGED ctxVars

\* cleanupCtx(): built by its first user, an EndScenario hook or a teardown step.
BuildCleanup == cleanup' = IF cleanup = "unbuilt" THEN "live" ELSE cleanup

\* Mutant: only the dependencies hold a step back.
CandidateAfterFailure ==
  /\ InBlock /\ at = "decide"
  /\ IF phase = "steps" THEN ~Blocked /\ UNCHANGED cleanup ELSE BuildCleanup
  /\ UNCHANGED runCtx

\* Mutant: the cleanup context is built when the scenario starts.
CandidateWithEagerCleanup ==
  /\ InBlock /\ at = "decide"
  /\ phase = "steps" => ~Blocked /\ status # "fail"
  /\ BuildCleanup
  /\ UNCHANGED runCtx

\* A step that may go on as far as its rules and its `when`; a teardown step has
\* no rules, and its cleanup context is taken before its `when` is evaluated.
Candidate ==
  /\ InBlock /\ at = "decide"
  /\ IF phase = "steps" THEN ~Blocked /\ status # "fail" /\ UNCHANGED cleanup
                        ELSE BuildCleanup
  /\ UNCHANGED runCtx

SkipOnCondition ==
  /\ Candidate
  /\ \E v \in IF phase = "steps" THEN {"rule", "badRule", "when"} ELSE {"when"} : Record(v)

StartStep ==
  /\ Candidate
  /\ at' = "attempt" /\ attempt' = 1
  /\ UNCHANGED <<phase, hookVars, resultVars>>

\* The context of the current block. Without a grace budget the cleanup context
\* is the run's.
CtxDone == IF phase = "steps" \/ ~Detached THEN runCtx = "done" ELSE cleanup = "done"

\* executeStepInPhase: an attempt that passes, or is the last, is recorded.
AttemptPasses ==
  /\ at = "attempt"
  /\ Current \notin Hanging[phase]
  /\ Record("pass") /\ UNCHANGED ctxVars

\* Mutant: the provider call does not get the context.
AttemptFailsUncancelled(v) ==
  /\ at = "attempt"
  /\ v = "fail" /\ Current \notin Hanging[phase]
  /\ IF attempt = MaxAttempts
     THEN Record(v)
     ELSE attempt' = attempt + 1 /\ UNCHANGED <<phase, at, hookVars, resultVars>>
  /\ UNCHANGED ctxVars

\* Mutant: the loop ends one attempt early.
AttemptFailsShort(v) ==
  /\ at = "attempt"
  /\ v = "cut" => CtxDone
  /\ Current \in Hanging[phase] => v = "cut"
  /\ IF attempt + 1 >= MaxAttempts
     THEN Record(v)
     ELSE /\ IF Current \in Paused[phase] THEN at' = "sleep" /\ UNCHANGED attempt
                                          ELSE attempt' = attempt + 1 /\ UNCHANGED at
          /\ UNCHANGED <<phase, hookVars, resultVars>>
  /\ UNCHANGED ctxVars

AttemptFails(v) ==
  /\ at = "attempt"
  /\ v = "cut" => CtxDone
  /\ Current \in Hanging[phase] => v = "cut"
  /\ IF attempt = MaxAttempts
     THEN Record(v)
     ELSE /\ IF Current \in Paused[phase] THEN at' = "sleep" /\ UNCHANGED attempt
                                          ELSE attempt' = attempt + 1 /\ UNCHANGED at
          /\ UNCHANGED <<phase, hookVars, resultVars>>
  /\ UNCHANGED ctxVars

\* sleepWithContext: select between the timer and the context. Both may be ready.
SleepEnds ==
  /\ at = "sleep"
  /\ at' = "attempt" /\ attempt' = attempt + 1
  /\ UNCHANGED <<phase, hookVars, resultVars, ctxVars>>

SleepInterrupted ==
  /\ at = "sleep" /\ CtxDone
  /\ Record("cut") /\ UNCHANGED ctxVars

StepsDone ==
  /\ phase = "steps" /\ Current > Steps
  /\ phase' = "end"
  /\ UNCHANGED <<hookVars, resultVars, at, attempt, ctxVars>>

-----------------------------------------------------------------------------
(* After the steps.                                                        *)

\* Mutant: the hooks end in the order they began.
EndHookFifo ==
  /\ phase = "end"
  /\ Len(endedHooks) < Len(began)
  /\ endedHooks' = Append(endedHooks, began[Len(endedHooks) + 1])
  /\ BuildCleanup
  /\ UNCHANGED <<phase, began, resultVars, at, attempt, runCtx>>

\* endHooks: the last one begun and not ended yet.
EndHook ==
  /\ phase = "end"
  /\ Len(endedHooks) < Len(began)
  /\ endedHooks' = Append(endedHooks, began[Len(began) - Len(endedHooks)])
  /\ BuildCleanup
  /\ UNCHANGED <<phase, began, resultVars, at, attempt, runCtx>>

HooksEnded ==
  /\ phase = "end"
  /\ Len(endedHooks) = Len(began)
  /\ phase' = IF failure.in = "hook" THEN "returned" ELSE "teardown"
  /\ UNCHANGED <<hookVars, resultVars, at, attempt, ctxVars>>

Return ==
  /\ phase = "teardown" /\ Current > Cleanups
  /\ phase' = "returned"
  /\ UNCHANGED <<hookVars, resultVars, at, attempt, ctxVars>>

-----------------------------------------------------------------------------
(* The contexts.                                                           *)

DeadlineFires ==
  /\ Timeout /\ runCtx = "live" /\ phase # "returned"
  /\ runCtx' = "done"
  /\ UNCHANGED <<phase, hookVars, resultVars, at, attempt, cleanup>>

GraceExpires ==
  /\ Detached /\ cleanup = "live" /\ phase # "returned"
  /\ cleanup' = "done"
  /\ UNCHANGED <<phase, hookVars, resultVars, at, attempt, runCtx>>

Returned == phase = "returned" /\ UNCHANGED vars

StepAction ==
  \/ SkipBlocked \/ SkipHalted \/ SkipOnCondition \/ StartStep
  \/ AttemptPasses \/ (\E v \in {"fail", "cut"} : AttemptFails(v))
  \/ SleepEnds \/ SleepInterrupted

Proceed ==
  \/ Workspace \/ ScenarioRules
  \/ (\E h \in Hooks : BeginHook(h)) \/ HooksBegun
  \/ StepAction \/ StepsDone
  \/ EndHook \/ HooksEnded \/ Return

Next == Proceed \/ DeadlineFires \/ GraceExpires \/ Returned

Spec == Init /\ [][Next]_vars

\* The goroutine runs on, a deadline and a grace budget expire in the end.
FairSpec == Spec /\ WF_vars(Proceed) /\ WF_vars(DeadlineFires) /\ WF_vars(GraceExpires)

-----------------------------------------------------------------------------

TypeOK ==
  /\ phase \in {"workspace", "rules", "begin", "steps", "end", "teardown", "returned"}
  /\ began \in Seq(Hooks) /\ endedHooks \in Seq(Hooks)
  /\ status \in {"pass", "fail", "skip", "none"}
  /\ failure \in [in : {"none", "rules", "hook", "steps", "teardown"}, step : Nat]
  /\ results \in [Blocks -> Seq(Verdicts)]
  /\ failed \subseteq 1..Steps /\ skipped \subseteq 1..Steps
  /\ at \in {"decide", "attempt", "sleep"}
  /\ attempt \in Nat
  /\ runCtx \in {"live", "done"}
  /\ cleanup \in {"unbuilt", "live", "done"}

StepsRecorded == DOMAIN results["steps"]

\* "The scenario stops at the first failure": no step is executed after one that
\* failed, whether its provider, its retries or its own skip rule failed it.
StopsAtFirstFailure ==
  \A i, j \in StepsRecorded :
    i < j /\ results["steps"][i] \in Failing => results["steps"][j] \notin Executed

\* A step whose provider was called has the results of everything it is known to
\* depend on: none of its dependencies failed or was skipped, directly or through
\* the cascade (depTracker, recordDepCascadeSkip).
DependenciesHaveResults ==
  \A i \in StepsRecorded : results["steps"][i] \in Executed =>
    \A d \in Depends[i] : results["steps"][d] = "pass"

\* The EndScenario hooks mirror the BeginScenario ones that succeeded, last first,
\* each once, and all before the teardown and before the scenario returns.
HooksAreLifo ==
  /\ \A k \in DOMAIN endedHooks : endedHooks[k] = began[Len(began) + 1 - k]
  /\ phase \in {"teardown", "returned"} => Len(endedHooks) = Len(began)

\* Teardown is left out only for a scenario that was skipped, could not be set
\* up, or was stopped by its own skip rules or by a hook; otherwise every one of
\* its steps gets its turn, whatever failed before.
TeardownGetsItsTurn ==
  phase = "returned" /\ status # "skip" /\ status # "none"
    /\ failure.in \notin {"rules", "hook"} =>
      Len(results["steps"]) = Steps /\ Len(results["teardown"]) = Cleanups

\* The grace budget is not spent while steps still run: the cleanup context is
\* built once they are over ("Construction must be lazy").
GraceStartsAfterSteps ==
  cleanup # "unbuilt" => phase \in {"end", "teardown", "returned"}

\* With a grace budget, a teardown step is cut short only by that budget, not by
\* the deadline of the run.
DeadlineSparesTeardown ==
  Detached /\ (\E k \in DOMAIN results["teardown"] : results["teardown"][k] = "cut")
    => cleanup = "done"

\* A teardown step has the grace budget it was promised: nothing but the budget
\* cuts it short, and nothing but teardown spends the budget.
TeardownHasItsBudget == GraceStartsAfterSteps /\ DeadlineSparesTeardown

\* Both: teardown has its turn, and then the whole of its budget.
TeardownIsWhole == TeardownGetsItsTurn /\ TeardownHasItsBudget

\* What a step of the scenario that ends an attempted step must be able to show.
GivenUpRightly ==
  at # "decide" /\ at' = "decide" =>
    LET v == results'[phase][Current] IN
    /\ attempt \in 1..MaxAttempts
    /\ v # "pass" => attempt = MaxAttempts \/ (v = "cut" /\ CtxDone /\ at = "sleep")

\* Retries are neither cut off by one nor overrun: a step that was executed is
\* given up only after exactly its number of attempts, or earlier because its
\* context was done while it paused between two of them.
RetriesExhausted == [][GivenUpRightly]_vars

\* The scenario returns: steps that hang are ended by the deadline, teardown steps
\* that hang by the grace budget even when the run has no deadline.
Terminates ==
  /\ Hanging["steps"] = {} \/ Timeout
  /\ Hanging["teardown"] = {} \/ Timeout \/ Detached
  => <>(phase = "returned")
================================================================================
