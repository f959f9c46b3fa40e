--------------------------- MODULE ScenarioRunProofs ---------------------------
(***************************************************************************)
(* Proofs about ScenarioRun, for every scenario, every dependency relation *)
(* the loader accepts, every retry setting and every set of hooks.         *)
(***************************************************************************)
EXTENDS ScenarioRun, TLAPS

\* A step that is being attempted is one of its block, and one that neither a
\* dependency nor an earlier failure holds back.
Going ==
  at # "decide" => InBlock /\ (phase = "steps" => ~Blocked /\ status # "fail")

\* No block records more verdicts than it has steps.
Fitting == Len(results["steps"]) <= Steps /\ Len(results["teardown"]) <= Cleanups

StepInv == TypeOK /\ Going /\ Fitting

\* What recording a verdict does to the recorded ones: it appends it to those of
\* the current block and leaves the other block alone.
LEMMA RecordAppends ==
  ASSUME TypeOK, InBlock, NEW v \in Verdicts, Record(v)
  PROVE  /\ results' \in [Blocks -> Seq(Verdicts)]
         /\ \A b \in Blocks \ {phase} : results'[b] = results[b]
         /\ results'[phase] = Append(results[phase], v)
         /\ Current \in 1..Size(phase)
<1>1. phase \in Blocks /\ results[phase] \in Seq(Verdicts)
  BY DEF TypeOK, InBlock
<1>2. Append(results[phase], v) \in Seq(Verdicts)
  BY <1>1
<1>3. results' = [results EXCEPT ![phase] = Append(results[phase], v)]
  BY DEF Record
<1>4. Current \in 1..Size(phase)
  BY <1>1 DEF InBlock, Current
<1>5. QED
  BY <1>1, <1>2, <1>3, <1>4 DEF TypeOK

\* The two kinds of steps of the step loop: one that records a verdict, executed
\* only for a step that was let through, and one that goes on with an attempt.
Records(v) ==
  /\ Record(v)
  /\ v \in Executed => at # "decide"
  /\ v = "cut" => CtxDone
  /\ v \in Failing /\ phase = "steps" => status # "fail"

Continues ==
  /\ UNCHANGED <<phase, hookVars, resultVars>>
  /\ at' \in {"attempt", "sleep"} /\ attempt' \in Nat
  /\ phase = "steps" => ~Blocked /\ status # "fail"

LEMMA StepActionCases ==
  ASSUME StepInv, StepAction
  PROVE  /\ InBlock /\ UNCHANGED <<phase, hookVars, runCtx>>
         /\ cleanup' = cleanup \/ (phase = "teardown" /\ BuildCleanup)
         /\ Continues \/ \E v \in Verdicts : Records(v)
<1> USE DEF StepInv
<1>1. CASE SkipBlocked \/ SkipHalted
  BY <1>1 DEF SkipBlocked, SkipHalted, ctxVars, Record, Records, Verdicts, Executed, Failing,
     Skipping
<1>2. CASE Candidate /\ \E v \in {"rule", "badRule", "when"} : Record(v)
  BY <1>2 DEF Candidate, InBlock, Blocks, Record, Records, Verdicts, Executed, Failing, Skipping
<1>3. CASE StartStep
  BY <1>3 DEF StartStep, Candidate, InBlock, Blocks, Continues, hookVars
<1>4. CASE AttemptPasses
  <2>1. "pass" \in Verdicts /\ "pass" \notin Failing
    BY DEF Verdicts, Failing
  <2>2. Records("pass")
    BY <1>4, <2>1 DEF AttemptPasses, Records
  <2>3. QED
    BY <1>4, <2>1, <2>2 DEF AttemptPasses, Going, ctxVars, Record
<1>5. ASSUME NEW v \in {"fail", "cut"}, AttemptFails(v)
      PROVE  /\ InBlock /\ UNCHANGED <<phase, hookVars, runCtx, cleanup>>
             /\ Continues \/ Records(v)
  <2>1. CASE attempt = MaxAttempts
    BY <1>5, <2>1 DEF AttemptFails, Going, ctxVars, Record, Records, Executed
  <2>2. CASE attempt # MaxAttempts
    BY <1>5, <2>2 DEF AttemptFails, Going, TypeOK, ctxVars, hookVars, Continues
  <2>3. QED
    BY <2>1, <2>2
<1>6. CASE SleepEnds
  BY <1>6 DEF SleepEnds, Going, TypeOK, ctxVars, hookVars, Continues
<1>7. CASE SleepInterrupted
  BY <1>7 DEF SleepInterrupted, Going, ctxVars, Record, Records, Verdicts, Executed, Failing
<1>8. SkipOnCondition => Candidate /\ \E v \in {"rule", "badRule", "when"} : Record(v)
  BY DEF SkipOnCondition
<1>9. {"fail", "cut"} \subseteq Verdicts
  BY DEF Verdicts, Failing
<1>10. QED
  BY <1>1, <1>2, <1>3, <1>4, <1>5, <1>6, <1>7, <1>8, <1>9 DEF StepAction

-----------------------------------------------------------------------------
\* A step of the scenario other than one of its step loop: the verdicts stay as
\* they are, and no step is under way before or after it.
Quiet ==
  \/ Workspace \/ ScenarioRules \/ (\E h \in Hooks : BeginHook(h)) \/ HooksBegun
  \/ StepsDone \/ EndHook \/ HooksEnded \/ Return

LEMMA QuietStep ==
  ASSUME StepInv, Quiet
  PROVE  /\ at = "decide" /\ at' = "decide" /\ UNCHANGED <<attempt, results, failed, skipped, runCtx>>
         /\ cleanup' = cleanup \/ (phase = "end" /\ phase' = "end" /\ BuildCleanup)
<1>1. UNCHANGED <<at, attempt, results, failed, skipped, runCtx>>
  BY DEF Quiet, Workspace, ScenarioRules, BeginHook, HooksBegun, StepsDone, EndHook, HooksEnded,
     Return, resultVars, ctxVars
<1>2. cleanup' = cleanup \/ (phase = "end" /\ phase' = "end" /\ BuildCleanup)
  BY DEF Quiet, Workspace, ScenarioRules, BeginHook, HooksBegun, StepsDone, EndHook, HooksEnded,
     Return, ctxVars
<1>3. ~InBlock
  <2>1. phase \in Blocks => Current \in Nat /\ Size(phase) \in Nat
    BY ScenarioAssumption DEF StepInv, TypeOK, Current, Size
  <2>2. CASE StepsDone \/ Return
    BY <2>1, <2>2 DEF StepsDone, Return, InBlock, Size, Blocks, ScenarioAssumption
  <2>3. CASE phase \notin Blocks
    BY <2>3 DEF InBlock
  <2>4. QED
    BY <2>2, <2>3 DEF Quiet, Workspace, ScenarioRules, BeginHook, HooksBegun, EndHook, HooksEnded,
       Blocks
<1>4. at = "decide"
  BY <1>3 DEF StepInv, Going
<1>5. QED
  BY <1>1, <1>2, <1>4

\* Every step is one of the step loop, a quiet one, the end of a context, or none.
LEMMA Cases ==
  ASSUME [Next]_vars
  PROVE  \/ StepAction \/ Quiet
         \/ UNCHANGED <<phase, hookVars, resultVars, at, attempt>> /\ DeadlineFires
         \/ UNCHANGED <<phase, hookVars, resultVars, at, attempt>> /\ GraceExpires
         \/ UNCHANGED vars
BY DEF Next, Proceed, Quiet, DeadlineFires, GraceExpires, Returned, vars, hookVars, resultVars

\* A verdict keeps the types.
LEMMA RecordTyped ==
  ASSUME StepInv, InBlock, NEW v \in Verdicts, Record(v), UNCHANGED runCtx,
         cleanup' = cleanup \/ BuildCleanup
  PROVE  StepInv'
<1> USE DEF StepInv, TypeOK
<1>1. /\ results' \in [Blocks -> Seq(Verdicts)]
      /\ \A b \in Blocks \ {phase} : results'[b] = results[b]
      /\ results'[phase] = Append(results[phase], v)
      /\ Current \in 1..Size(phase)
      /\ phase \in Blocks
  BY RecordAppends DEF InBlock
<1>2. failed' \subseteq 1..Steps /\ skipped' \subseteq 1..Steps
  BY <1>1 DEF Record, Size
<1>3. /\ began' \in Seq(Hooks) /\ endedHooks' \in Seq(Hooks) /\ phase' = phase
      /\ at' = "decide" /\ attempt' = 0 /\ status' \in {"pass", "fail", "skip", "none"}
  BY DEF Record, hookVars
<1>4. failure' \in [in : {"none", "rules", "hook", "steps", "teardown"}, step : Nat]
  BY <1>1 DEF Record, Blocks, Size, ScenarioAssumption
<1>5. cleanup' \in {"unbuilt", "live", "done"} /\ runCtx' = runCtx
  BY DEF BuildCleanup
<1>6. Fitting'
  BY <1>1 DEF Fitting, Blocks, Current, Size
<1>7. QED
  BY <1>1, <1>2, <1>3, <1>4, <1>5, <1>6 DEF Going

\* Going on with an attempt keeps the types.
LEMMA ContinuesTyped ==
  ASSUME StepInv, InBlock, Continues, UNCHANGED runCtx, cleanup' = cleanup \/ BuildCleanup
  PROVE  StepInv'
<1> USE DEF StepInv, TypeOK, Continues, hookVars, resultVars
<1>1. TypeOK'
  BY DEF BuildCleanup
<1>2. Fitting' /\ InBlock'
  BY DEF Fitting, InBlock, Current
<1>3. Going'
  BY <1>2 DEF Going, Blocked, Current
<1>4. QED
  BY <1>1, <1>2, <1>3

LEMMA QuietTyped ==
  ASSUME StepInv, Quiet
  PROVE  StepInv'
<1> USE DEF StepInv, TypeOK
<1>1. /\ at = "decide" /\ at' = "decide" /\ UNCHANGED <<attempt, results, failed, skipped, runCtx>>
      /\ cleanup' \in {"unbuilt", "live", "done"}
  BY QuietStep DEF BuildCleanup
<1>2. phase' \in {"workspace", "rules", "begin", "steps", "end", "teardown", "returned"}
  BY DEF Quiet, Workspace, ScenarioRules, BeginHook, HooksBegun, StepsDone, EndHook, HooksEnded,
     Return
<1>3. /\ status' \in {"pass", "fail", "skip", "none"}
      /\ failure' \in [in : {"none", "rules", "hook", "steps", "teardown"}, step : Nat]
  <2>1. \A b \in {"rules", "hook"} : [in |-> b, step |-> 0] \in
          [in : {"none", "rules", "hook", "steps", "teardown"}, step : Nat]
    OBVIOUS
  <2>2. CASE UNCHANGED <<status, failure>>
    BY <2>2
  <2>3. CASE Workspace
    BY <2>3 DEF Workspace
  <2>4. CASE ScenarioRules
    BY <2>1, <2>4 DEF ScenarioRules
  <2>5. ASSUME NEW h \in Hooks, BeginHook(h)
        PROVE  /\ status' \in {"pass", "fail", "skip", "none"}
               /\ failure' \in [in : {"none", "rules", "hook", "steps", "teardown"}, step : Nat]
    BY <2>1, <2>5 DEF BeginHook
  <2>6. CASE HooksBegun \/ StepsDone \/ EndHook \/ HooksEnded \/ Return
    BY <2>2, <2>6 DEF HooksBegun, StepsDone, EndHook, HooksEnded, Return, resultVars
  <2>7. QED
    BY <2>3, <2>4, <2>5, <2>6 DEF Quiet
<1>4. began' \in Seq(Hooks)
  <2>1. ASSUME NEW h \in Hooks, BeginHook(h)
        PROVE  began' \in Seq(Hooks)
    <3>1. Append(began, h) \in Seq(Hooks)
      OBVIOUS
    <3>2. began' = began \/ began' = Append(began, h)
      BY <2>1 DEF BeginHook
    <3>3. QED
      BY <3>1, <3>2
  <2>2. QED
    BY <2>1 DEF Quiet, Workspace, ScenarioRules, HooksBegun, StepsDone, EndHook, HooksEnded,
       Return, hookVars
<1>5. endedHooks' \in Seq(Hooks)
  <2>1. CASE EndHook
    <3>1. Len(began) - Len(endedHooks) \in 1..Len(began)
      BY <2>1 DEF EndHook
    <3>2. QED
      BY <2>1, <3>1 DEF EndHook
  <2>2. QED
    BY <2>1 DEF Quiet, Workspace, ScenarioRules, BeginHook, HooksBegun, StepsDone, HooksEnded,
       Return, hookVars
<1>6. QED
  BY <1>1, <1>2, <1>3, <1>4, <1>5 DEF Fitting, Going

LEMMA StepInvInit == Init => StepInv
BY ScenarioAssumption DEF Init, StepInv, TypeOK, NoFailure, Going, Fitting, Blocks

LEMMA StepInvStep ==
  ASSUME StepInv, [Next]_vars
  PROVE  StepInv'
<1>1. CASE StepAction
  BY <1>1, StepActionCases, RecordTyped, ContinuesTyped DEF Records
<1>2. CASE Quiet
  BY <1>2, QuietTyped
<1>3. CASE UNCHANGED <<phase, hookVars, resultVars, at, attempt>> /\ (DeadlineFires \/ GraceExpires)
  BY <1>3 DEF DeadlineFires, GraceExpires, StepInv, TypeOK, Going, Fitting, InBlock, Current,
     Blocked, hookVars, resultVars
<1>4. CASE UNCHANGED vars
  BY <1>4 DEF vars, hookVars, resultVars, ctxVars, StepInv, TypeOK, Going, Fitting, InBlock,
     Current, Blocked
<1>5. QED
  BY <1>1, <1>2, <1>3, <1>4, Cases

\* Every variable keeps its type, and a step under way is one that neither a
\* dependency nor an earlier failure holds back.
THEOREM StepsAreTyped == Spec => []StepInv
BY StepInvInit, StepInvStep, PTL DEF Spec

THEOREM TypeCorrect == Spec => []TypeOK
BY StepsAreTyped, PTL DEF StepInv

-----------------------------------------------------------------------------
\* The tracker's two sets are the failed and the skipped steps, and a scenario
\* with a failed step is a failed one.
Tracked ==
  /\ failed = {i \in StepsRecorded : results["steps"][i] \in Failing}
  /\ skipped = {i \in StepsRecorded : results["steps"][i] \in Skipping}
  /\ phase = "steps" /\ failed # {} => status = "fail"
  /\ phase \in {"workspace", "rules", "begin"} => results["steps"] = <<>>

StepListInv == Tracked /\ StopsAtFirstFailure /\ DependenciesHaveResults

\* A verdict of the step list: what was recorded before stays, the tracker gets
\* the new step, and an executed one was neither blocked nor halted.
LEMMA StepListRecord ==
  ASSUME StepInv, StepListInv, phase = "steps", InBlock, NEW v \in Verdicts, Records(v)
  PROVE  StepListInv'
<1> DEFINE R == results["steps"]
           n == Len(R)
<1> USE DEF StepInv, StepListInv
<1>1. R \in Seq(Verdicts) /\ R' = Append(R, v) /\ Current = n + 1 /\ n \in Nat
  BY RecordAppends DEF Records, TypeOK, Current, Blocks
<1>2. StepsRecorded = 1..n /\ StepsRecorded' = 1..(n + 1)
  BY <1>1 DEF StepsRecorded
<1>3. R'[n + 1] = v /\ \A i \in 1..n : R'[i] = R[i]
  BY <1>1
<1>4. 1..(n + 1) = (1..n) \cup {n + 1} /\ n + 1 \notin 1..n
  BY <1>1
<1>5. \A i, j \in 1..(n + 1) : i < j => i \in 1..n
  BY <1>1
<1> HIDE DEF R, n
<1>6. v \in Executed => ~Blocked /\ status # "fail"
  BY DEF Records, Going
<1>7. Tracked'
  <2>1. failed' = IF v \in Failing THEN failed \cup {n + 1} ELSE failed
    BY <1>1 DEF Records, Record
  <2>2. skipped' = IF v \in Skipping THEN skipped \cup {n + 1} ELSE skipped
    BY <1>1 DEF Records, Record
  <2>3. failed = {i \in 1..n : R[i] \in Failing} /\ skipped = {i \in 1..n : R[i] \in Skipping}
    BY <1>2 DEF Tracked, R
  <2>4. failed' = {i \in 1..(n + 1) : R'[i] \in Failing}
    BY <1>3, <1>4, <2>1, <2>3
  <2>5. skipped' = {i \in 1..(n + 1) : R'[i] \in Skipping}
    BY <1>3, <1>4, <2>2, <2>3
  <2>6. failed' # {} => status' = "fail"
    BY <2>1 DEF Tracked, Records, Record
  <2>7. phase' = "steps"
    BY DEF Records, Record
  <2>8. QED
    BY <1>2, <2>4, <2>5, <2>6, <2>7 DEF Tracked, R
<1>8. StopsAtFirstFailure'
  <2> SUFFICES ASSUME NEW i \in 1..(n + 1), NEW j \in 1..(n + 1), i < j, R'[i] \in Failing
               PROVE  R'[j] \notin Executed
    BY <1>2 DEF StopsAtFirstFailure, R
  <2>1. i \in 1..n /\ R[i] \in Failing
    BY <1>3, <1>5
  <2>2. CASE j \in 1..n
    BY <1>2, <1>3, <2>1, <2>2 DEF StopsAtFirstFailure, R
  <2>3. CASE j = n + 1
    <3>1. status = "fail"
      BY <1>2, <2>1 DEF Tracked, R
    <3>2. QED
      BY <1>3, <1>6, <2>3, <3>1
  <2>4. QED
    BY <1>4, <2>2, <2>3
<1>9. DependenciesHaveResults'
  <2> SUFFICES ASSUME NEW i \in 1..(n + 1), R'[i] \in Executed, NEW d \in Depends[i]
               PROVE  R'[d] = "pass"
    BY <1>2 DEF DependenciesHaveResults, R
  <2>1. n + 1 <= Steps
    BY <1>1, RecordAppends DEF Records, Size
  <2>2. d \in 1..(i - 1) /\ d \in 1..n
    BY <1>1, <2>1, ScenarioAssumption
  <2>3. CASE i \in 1..n
    BY <1>2, <1>3, <2>2, <2>3 DEF DependenciesHaveResults, R
  <2>4. CASE i = n + 1
    <3>1. d \notin failed /\ d \notin skipped
      BY <1>1, <1>3, <1>6, <2>4 DEF Blocked
    <3>2. R[d] \notin Failing /\ R[d] \notin Skipping
      BY <1>2, <2>2, <3>1 DEF Tracked, R
    <3>3. R[d] \in Verdicts
      BY <1>1, <2>2 DEF n
    <3>4. QED
      BY <1>3, <2>2, <3>2, <3>3 DEF Verdicts
  <2>5. QED
    BY <1>4, <2>3, <2>4
<1>10. QED
  BY <1>7, <1>8, <1>9

\* A step that leaves the verdicts of the step list alone.
LEMMA StepListStays ==
  ASSUME StepListInv, UNCHANGED <<failed, skipped>>, results'["steps"] = results["steps"],
         phase' = "steps" => status' = status /\ (phase = "steps" \/ failed = {}),
         phase' \in {"workspace", "rules", "begin"} => results["steps"] = <<>>
  PROVE  StepListInv'
BY DEF StepListInv, Tracked, StopsAtFirstFailure, DependenciesHaveResults, StepsRecorded

LEMMA StepListStep ==
  ASSUME StepInv, StepListInv, [Next]_vars
  PROVE  StepListInv'
<1>1. CASE StepAction
  <2>1. /\ InBlock /\ phase' = phase
        /\ Continues \/ \E v \in Verdicts : Records(v)
    BY <1>1, StepActionCases
  <2>2. CASE Continues
    BY <2>1, <2>2, StepListStays DEF Continues, resultVars, StepListInv, Tracked
  <2>3. ASSUME NEW v \in Verdicts, Records(v), phase = "teardown"
        PROVE  StepListInv'
    <3>1. UNCHANGED <<failed, skipped>> /\ results'["steps"] = results["steps"]
      BY <2>1, <2>3, RecordAppends DEF Records, Record, StepInv, Blocks
    <3>2. QED
      BY <2>1, <2>3, <3>1, StepListStays
  <2>4. QED
    BY <2>1, <2>2, <2>3, StepListRecord DEF InBlock, Blocks
<1>2. CASE Quiet
  <2>1. UNCHANGED <<results, failed, skipped>>
    BY <1>2, QuietStep
  <2>2. /\ phase' = "steps" => status' = status /\ phase = "begin"
        /\ phase' \in {"workspace", "rules", "begin"} => phase \in {"workspace", "rules", "begin"}
    BY <1>2 DEF Quiet, Workspace, ScenarioRules, BeginHook, HooksBegun, StepsDone, EndHook,
       HooksEnded, Return, resultVars
  <2>3. phase = "begin" => failed = {}
    BY DEF StepListInv, Tracked, StepsRecorded
  <2>4. QED
    BY <2>1, <2>2, <2>3, StepListStays DEF StepListInv, Tracked
<1>3. CASE UNCHANGED <<phase, hookVars, resultVars, at, attempt>>
  BY <1>3, StepListStays DEF resultVars, StepListInv, Tracked
<1>4. QED
  BY <1>1, <1>2, <1>3, Cases DEF vars

LEMMA StepListInit == Init => StepListInv
BY DEF Init, StepListInv, Tracked, StopsAtFirstFailure, DependenciesHaveResults, StepsRecorded, Blocks

\* No step is executed after one that failed: not by its retries, not by its own
\* skip rules, and not because nothing depends on the one that failed.
THEOREM ScenarioStopsAtFirstFailure == Spec => []StopsAtFirstFailure
BY StepListInit, StepListStep, StepsAreTyped, PTL DEF Spec, StepListInv

\* A step is executed only over passed dependencies, directly and through every
\* chain of skips.
THEOREM ExecutedStepsHaveResults == Spec => []DependenciesHaveResults
BY StepListInit, StepListStep, StepsAreTyped, PTL DEF Spec, StepListInv

-----------------------------------------------------------------------------
\* The two promises of the cleanup context: it is built after the steps, and with
\* a budget only that budget cuts a teardown step.
LEMMA CleanupStep ==
  ASSUME StepInv, GraceStartsAfterSteps, DeadlineSparesTeardown, [Next]_vars
  PROVE  GraceStartsAfterSteps' /\ DeadlineSparesTeardown'
<1> USE DEF GraceStartsAfterSteps, DeadlineSparesTeardown
<1>1. CASE StepAction
  <2>1. /\ InBlock /\ phase' = phase /\ phase \in Blocks
        /\ cleanup' = cleanup \/ (phase = "teardown" /\ BuildCleanup)
        /\ Continues \/ \E v \in Verdicts : Records(v)
    BY <1>1, StepActionCases DEF InBlock
  <2>2. GraceStartsAfterSteps'
    BY <2>1 DEF BuildCleanup
  <2>3. cleanup = "done" => cleanup' = "done"
    BY <2>1 DEF BuildCleanup
  <2>4. CASE Continues
    BY <2>2, <2>3, <2>4 DEF Continues, resultVars
  <2>5. ASSUME NEW v \in Verdicts, Records(v), phase = "steps"
        PROVE  results'["teardown"] = results["teardown"]
    BY <2>1, <2>5, RecordAppends DEF Records, StepInv, Blocks
  <2>6. ASSUME NEW v \in Verdicts, Records(v), phase = "teardown"
        PROVE  DeadlineSparesTeardown'
    <3> DEFINE R == results["teardown"]
    <3>1. R \in Seq(Verdicts) /\ R' = Append(R, v)
      BY <2>1, <2>6, RecordAppends DEF Records, StepInv, TypeOK, Blocks
    <3>2. \A k \in DOMAIN R' : R'[k] = v \/ (k \in DOMAIN R /\ R'[k] = R[k])
      BY <3>1
    <3>3. v = "cut" /\ Detached => cleanup = "done"
      BY <2>6 DEF Records, CtxDone
    <3>4. QED
      BY <2>3, <3>2, <3>3
  <2>7. QED
    BY <2>1, <2>2, <2>3, <2>4, <2>5, <2>6 DEF Blocks
<1>2. CASE Quiet
  <2>1. /\ UNCHANGED results
        /\ cleanup' = cleanup \/ (phase = "end" /\ phase' = "end" /\ BuildCleanup)
    BY <1>2, QuietStep
  <2>2. phase \in {"end", "teardown", "returned"} => phase' \in {"end", "teardown", "returned"}
    BY <1>2 DEF Quiet, Workspace, ScenarioRules, BeginHook, HooksBegun, StepsDone, EndHook,
       HooksEnded, Return
  <2>3. QED
    BY <2>1, <2>2 DEF BuildCleanup
<1>3. CASE UNCHANGED <<phase, hookVars, resultVars, at, attempt>> /\ (DeadlineFires \/ GraceExpires)
  BY <1>3 DEF DeadlineFires, GraceExpires, resultVars
<1>4. CASE UNCHANGED vars
  BY <1>4 DEF vars, resultVars, ctxVars
<1>5. QED
  BY <1>1, <1>2, <1>3, <1>4, Cases

LEMMA CleanupInit == Init => GraceStartsAfterSteps /\ DeadlineSparesTeardown
BY DEF Init, GraceStartsAfterSteps, DeadlineSparesTeardown, Blocks

\* The grace budget is not spent while the steps run, and with one the deadline of
\* the run cuts no teardown step (runner.go, the lazy cleanupCtx).
THEOREM TeardownOutlivesDeadline == Spec => []TeardownHasItsBudget
BY CleanupInit, CleanupStep, StepsAreTyped, PTL DEF Spec, TeardownHasItsBudget

-----------------------------------------------------------------------------
\* The hooks end only in their phase, and none begins before the skip rules.
HookInv ==
  /\ HooksAreLifo
  /\ Len(endedHooks) <= Len(began)
  /\ phase \in {"workspace", "rules"} => began = <<>>
  /\ phase \in {"workspace", "rules", "begin", "steps"} => endedHooks = <<>>

LEMMA HookStep ==
  ASSUME StepInv, HookInv, [Next]_vars
  PROVE  HookInv'
<1> USE DEF HookInv, HooksAreLifo, hookVars
<1>1. CASE UNCHANGED <<began, endedHooks, phase>>
  BY <1>1
<1>2. CASE Workspace \/ ScenarioRules \/ HooksBegun \/ StepsDone \/ HooksEnded \/ Return
  BY <1>2 DEF Workspace, ScenarioRules, HooksBegun, StepsDone, HooksEnded, Return
<1>3. ASSUME NEW h \in Hooks, BeginHook(h)
      PROVE  HookInv'
  <2>1. endedHooks = <<>> /\ endedHooks' = <<>> /\ phase' \in {"begin", "end"}
    BY <1>3 DEF BeginHook
  <2>2. Len(began') \in Nat
    BY <1>3 DEF BeginHook, StepInv, TypeOK
  <2>3. QED
    BY <2>1, <2>2
<1>4. CASE EndHook
  <2> DEFINE n == Len(endedHooks)
  <2>1. /\ n < Len(began) /\ n \in Nat /\ Len(began) \in Nat
        /\ UNCHANGED <<phase, began>> /\ phase = "end"
    BY <1>4 DEF EndHook, StepInv, TypeOK
  <2>2. Len(began) - n \in 1..Len(began)
    BY <2>1
  <2>3. /\ endedHooks' = Append(endedHooks, began[Len(began) - n])
        /\ began[Len(began) - n] \in Hooks
    BY <1>4, <2>2 DEF EndHook, StepInv, TypeOK
  <2>4. /\ Len(endedHooks') = n + 1 /\ DOMAIN endedHooks' = 1..(n + 1)
        /\ \A k \in 1..n : endedHooks'[k] = endedHooks[k]
        /\ endedHooks'[n + 1] = began[Len(began) - n]
        /\ DOMAIN endedHooks = 1..n
    BY <2>3 DEF StepInv, TypeOK
  <2>5. \A k \in 1..(n + 1) : endedHooks'[k] = began[Len(began) + 1 - k]
    BY <2>1, <2>4
  <2>6. QED
    BY <2>1, <2>4, <2>5
<1>5. CASE StepAction
  BY <1>1, <1>5, StepActionCases
<1>6. QED
  BY <1>1, <1>2, <1>3, <1>4, <1>5, Cases DEF Quiet, vars

\* The EndScenario hooks mirror the BeginScenario ones, for every set of hooks and
\* wherever a BeginScenario fails.
THEOREM HooksMirror == Spec => []HooksAreLifo
<1>1. Init => HookInv
  BY DEF Init, HookInv, HooksAreLifo
<1>2. QED
  BY <1>1, HookStep, StepsAreTyped, PTL DEF Spec, HookInv

-----------------------------------------------------------------------------
\* Where a scenario is, and what kept it from its steps or its teardown.
Turns ==
  /\ failure.in = "none" => failure = NoFailure /\ status # "fail"
  /\ failure.in \in {"rules", "hook"} => status = "fail"
  /\ phase \in {"workspace", "rules", "begin"} => status = "pass" /\ failure.in = "none"
  /\ phase \in {"steps", "end", "teardown"} => status \in {"pass", "fail"}
  /\ phase \in {"steps", "teardown"} => failure.in \notin {"rules", "hook"}
  /\ phase = "end" /\ failure.in # "hook" => Len(results["steps"]) = Steps /\ failure.in # "rules"
  /\ phase = "teardown" => Len(results["steps"]) = Steps

TurnInv == Turns /\ TeardownGetsItsTurn

LEMMA TurnStep ==
  ASSUME StepInv, TurnInv, [Next]_vars
  PROVE  TurnInv'
<1> USE DEF TurnInv, Turns, TeardownGetsItsTurn
<1>1. CASE StepAction
  <2>1. /\ InBlock /\ phase' = phase /\ phase \in Blocks
        /\ Continues \/ \E v \in Verdicts : Records(v)
    BY <1>1, StepActionCases DEF InBlock
  <2>2. CASE Continues
    BY <2>1, <2>2 DEF Continues, resultVars
  <2>3. ASSUME NEW v \in Verdicts, Records(v)
        PROVE  TurnInv'
    <3>1. /\ status' = IF v \in Failing THEN "fail" ELSE status
          /\ failure' = IF v \in Failing /\ failure = NoFailure
                        THEN [in |-> phase, step |-> Current] ELSE failure
      BY <2>3 DEF Records, Record
    <3>2. phase = "teardown" => results'["steps"] = results["steps"]
      BY <2>1, <2>3, RecordAppends DEF Records, StepInv, Blocks
    <3>3. v \in Failing => failure'.in # "none"
      BY <3>1 DEF StepInv, TypeOK, NoFailure, Blocks
    <3>4. QED
      BY <2>1, <3>1, <3>2, <3>3 DEF Blocks
  <2>4. QED
    BY <2>1, <2>2, <2>3
<1>2. CASE Workspace \/ ScenarioRules
  BY <1>2 DEF Workspace, ScenarioRules
<1>3. CASE \E h \in Hooks : BeginHook(h)
  BY <1>3 DEF BeginHook
<1>4. CASE HooksBegun
  BY <1>4 DEF HooksBegun, resultVars
<1>5. CASE StepsDone
  <2>1. Len(results["steps"]) \in Nat /\ Len(results["steps"]) <= Steps
    BY DEF StepInv, TypeOK, Fitting, Blocks
  <2>2. Len(results["steps"]) = Steps
    BY <1>5, <2>1, ScenarioAssumption DEF StepsDone, Current
  <2>3. QED
    BY <1>5, <2>2 DEF StepsDone, resultVars
<1>6. CASE EndHook \/ HooksEnded
  BY <1>6 DEF EndHook, HooksEnded, resultVars
<1>7. CASE Return
  <2>1. Len(results["teardown"]) \in Nat /\ Len(results["teardown"]) <= Cleanups
    BY DEF StepInv, TypeOK, Fitting, Blocks
  <2>2. Len(results["teardown"]) = Cleanups
    BY <1>7, <2>1, ScenarioAssumption DEF Return, Current
  <2>3. QED
    BY <1>7, <2>2 DEF Return, resultVars
<1>8. CASE UNCHANGED <<phase, hookVars, resultVars, at, attempt>>
  BY <1>8 DEF resultVars
<1>9. QED
  BY <1>1, <1>2, <1>3, <1>4, <1>5, <1>6, <1>7, <1>8, Cases DEF Quiet, vars

\* A scenario that got past its skip rules and its hooks has every one of its steps
\* and of its teardown steps accounted for when it returns.
THEOREM TeardownIsRun == Spec => []TeardownGetsItsTurn
<1>1. Init => TurnInv
  BY DEF Init, TurnInv, Turns, TeardownGetsItsTurn, NoFailure
<1>2. QED
  BY <1>1, TurnStep, StepsAreTyped, PTL DEF Spec, TurnInv

\* A scenario's cleanup is whole: its teardown steps are neither left out nor short
\* of the budget they were promised, whatever its steps, its hooks and the deadline
\* do.
THEOREM CleanupIsWhole == Spec => []TeardownIsWhole
BY TeardownIsRun, TeardownOutlivesDeadline, PTL DEF TeardownIsWhole

-----------------------------------------------------------------------------
\* The retries of the current step: an attempt under way has one of its numbers, and
\* the pause is between two of them.
AttemptInv ==
  /\ at # "decide" => attempt \in 1..MaxAttempts
  /\ at = "sleep" => attempt < MaxAttempts

\* A step has at least one attempt, whatever retry.attempts says.
LEMMA AtLeastOneAttempt ==
  ASSUME StepInv, InBlock
  PROVE  MaxAttempts \in Nat \ {0}
<1>1. phase \in Blocks /\ results[phase] \in Seq(Verdicts)
  BY DEF StepInv, TypeOK, InBlock
<1>2. Current \in 1..Size(phase)
  BY <1>1 DEF InBlock, Current
<1>3. Attempts[phase][Current] \in Int
  BY <1>1, <1>2, ScenarioAssumption
<1>4. QED
  BY <1>3 DEF MaxAttempts

\* Recording a verdict for an attempted step shows that verdict at its place.
LEMMA VerdictIsRecorded ==
  ASSUME StepInv, InBlock, NEW v \in Verdicts, Record(v)
  PROVE  results'[phase][Current] = v
<1>1. phase \in Blocks /\ results[phase] \in Seq(Verdicts)
  BY DEF StepInv, TypeOK, InBlock
<1>2. results'[phase] = Append(results[phase], v)
  BY RecordAppends DEF StepInv
<1>3. QED
  BY <1>1, <1>2 DEF Current

\* The retry loop neither overruns its attempts nor gives up before the last one.
LEMMA RetryStep ==
  ASSUME StepInv, AttemptInv, [Next]_vars
  PROVE  AttemptInv' /\ GivenUpRightly
<1> USE DEF AttemptInv
<1>1. ASSUME at' = "decide", at = "decide"
      PROVE  AttemptInv' /\ GivenUpRightly
  BY <1>1 DEF GivenUpRightly
<1>2. ASSUME UNCHANGED <<phase, results, at, attempt>>
      PROVE  AttemptInv' /\ GivenUpRightly
  BY <1>2 DEF GivenUpRightly, MaxAttempts, Current
<1>3. CASE Quiet
  BY <1>1, <1>3, QuietStep
<1>4. CASE StepAction
  <2>1. InBlock /\ phase' = phase
    BY <1>4, StepActionCases
  <2>2. MaxAttempts \in Nat \ {0}
    BY <2>1, AtLeastOneAttempt
  <2>3. results' = results => MaxAttempts' = MaxAttempts
    BY <2>1 DEF MaxAttempts, Current
  <2>4. ASSUME NEW v \in Verdicts, Record(v), at # "decide",
               v # "pass" => attempt = MaxAttempts \/ (v = "cut" /\ CtxDone /\ at = "sleep")
        PROVE  AttemptInv' /\ GivenUpRightly
    <3>1. results'[phase][Current] = v /\ at' = "decide"
      BY <2>1, <2>4, VerdictIsRecorded DEF Record
    <3>2. QED
      BY <2>4, <3>1 DEF GivenUpRightly
  <2>5. CASE SkipBlocked \/ SkipHalted \/ SkipOnCondition
    <3>1. at = "decide" /\ at' = "decide"
      BY <2>5 DEF SkipBlocked, SkipHalted, SkipOnCondition, Candidate, Record
    <3>2. QED
      BY <1>1, <3>1
  <2>6. CASE StartStep
    <3>1. at = "decide" /\ at' = "attempt" /\ attempt' = 1 /\ results' = results
      BY <2>6 DEF StartStep, Candidate, resultVars
    <3>2. QED
      BY <2>2, <2>3, <3>1 DEF GivenUpRightly
  <2>7. CASE AttemptPasses
    BY <2>4, <2>7 DEF AttemptPasses, Verdicts
  <2>8. ASSUME NEW v \in {"fail", "cut"}, AttemptFails(v)
        PROVE  AttemptInv' /\ GivenUpRightly
    <3>1. at = "attempt" /\ v \in Verdicts /\ attempt \in 1..MaxAttempts
      BY <2>8 DEF AttemptFails, Verdicts, Failing
    <3>2. CASE attempt = MaxAttempts
      BY <2>4, <2>8, <3>1, <3>2 DEF AttemptFails
    <3>3. CASE attempt # MaxAttempts
      <4>1. /\ results' = results
            /\ \/ at' = "sleep" /\ attempt' = attempt
               \/ at' = at /\ attempt' = attempt + 1
        BY <2>8, <3>3 DEF AttemptFails, resultVars
      <4>2. attempt < MaxAttempts
        BY <2>2, <3>1, <3>3
      <4>3. QED
        BY <2>2, <2>3, <3>1, <4>1, <4>2 DEF GivenUpRightly
    <3>4. QED
      BY <3>2, <3>3
  <2>9. CASE SleepEnds
    <3>1. at = "sleep" /\ at' = "attempt" /\ attempt' = attempt + 1 /\ results' = results
      BY <2>9 DEF SleepEnds, resultVars
    <3>2. QED
      BY <2>2, <2>3, <3>1 DEF GivenUpRightly
  <2>10. CASE SleepInterrupted
    BY <2>4, <2>10 DEF SleepInterrupted, Verdicts, Failing
  <2>11. QED
    BY <1>4, <2>5, <2>6, <2>7, <2>8, <2>9, <2>10 DEF StepAction
<1>5. QED
  BY <1>2, <1>3, <1>4, Cases DEF vars, resultVars

\* For every number of attempts, with and without a pause between them: no step of
\* the scenario gives up on an attempted step before its last attempt, other than
\* on a pause its context interrupts, and none runs past it.
THEOREM RetriesAreExhausted == Spec => RetriesExhausted
<1>1. Init => AttemptInv
  BY DEF Init, AttemptInv
<1>2. StepInv /\ AttemptInv /\ [Next]_vars => AttemptInv' /\ GivenUpRightly
  BY RetryStep
<1>3. QED
  BY <1>1, <1>2, StepsAreTyped, PTL DEF Spec, RetriesExhausted
================================================================================
