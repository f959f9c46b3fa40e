----------------------------- MODULE TestCommand -----------------------------
(***************************************************************************)
(* `tales test`: runTest around Runner.Run. Loading and the options come   *)
(* first, then the run (SuiteRunner), then the timeout diagnostic, the     *)
(* reports and the exit code.                                              *)
(***************************************************************************)
EXTENDS SuiteRunner

VARIABLES
  cli,     \* "load", "run", "report", "judge" or "exited"
  exit,    \* the exit code, "none" before, "panic" for a nil dereference
  notice   \* the scenarios printTimeoutDiagnostic printed

cliVars == <<cli, exit, notice>>
testVars == <<vars, cliVars>>

TestInit == Init /\ cli = "load" /\ exit = "none" /\ notice = {}

Exit(code) == cli' = "exited" /\ exit' = code

\* LoadPath and the option checks fail with 2; an error of Run before it has a
\* result (the working directory, the config) with 3.
Load ==
  /\ cli = "load"
  /\ \/ cli' = "run" /\ UNCHANGED exit
     \/ Exit("2")
     \/ Exit("3")
  /\ UNCHANGED <<vars, notice>>

\* Run on its own goroutines. The heartbeat may outlive Run: its stop function
\* closes a channel and does not wait.
RunSuite == cli \in {"run", "report", "judge"} /\ Next /\ UNCHANGED cliVars

\* Run returned a result, so its error is not looked at again. The diagnostic
\* is printed for a non-empty stalled list.
Diagnose ==
  /\ cli = "run" /\ phase = "returned"
  /\ cli' = "report"
  /\ notice' = stalled
  /\ UNCHANGED <<vars, exit>>

\* emitReports: newConsoleStats dereferences every scenario result, the empty
\* slot of a scenario that only produced an error included; a report that
\* cannot be written exits with 3.
EmitReports ==
  /\ cli = "report"
  /\ IF \E s \in Scenarios : result[s] = "error"
     THEN Exit("panic")
     ELSE \/ Exit("3")
          \/ cli' = "judge" /\ UNCHANGED exit
  /\ UNCHANGED <<vars, notice>>

\* Mutant: the suite teardown does not count.
FailedScenario == \E s \in Scenarios : result[s] = "fail"

\* SuiteResult.Failed: a failed suite teardown step, or a failed scenario.
Failed ==
  \/ \E i \in 1..Len(teardown) : teardown[i] \in {"fail", "cut"}
  \/ \E s \in Scenarios : result[s] = "fail"

Judge ==
  /\ cli = "judge"
  /\ Exit(IF Failed THEN "1" ELSE "0")
  /\ UNCHANGED <<vars, notice>>

Exited == cli = "exited" /\ UNCHANGED testVars

TestNext == Load \/ RunSuite \/ Diagnose \/ EmitReports \/ Judge \/ Exited

TestSpec == TestInit /\ [][TestNext]_testVars

\* The process goes on as long as it can: the Go scheduler runs every goroutine
\* that can go on, and a deadline that is set expires. No ticks are assumed.
TestFairSpec ==
  /\ TestSpec
  /\ WF_testVars(Load) /\ WF_testVars(Diagnose)
  /\ WF_testVars(EmitReports) /\ WF_testVars(Judge)
  /\ \A s \in Scenarios : WF_testVars(cli = "run" /\ Goroutine(s) /\ UNCHANGED cliVars)
  /\ WF_testVars(cli = "run" /\ DeadlineFires /\ UNCHANGED cliVars)
  /\ WF_testVars(cli = "run" /\ WatcherPublishes /\ UNCHANGED cliVars)
  /\ WF_testVars(cli = "run" /\ RunTail /\ UNCHANGED cliVars)

-----------------------------------------------------------------------------

\* Success is never claimed over a failure: exit 0 means every selected
\* scenario passed or was skipped and every suite teardown step did too.
SuccessIsEarned ==
  exit = "0" =>
    /\ \A s \in Scenarios : result[s] = "pass"
    /\ \A i \in 1..Len(teardown) : teardown[i] = "pass"

\* Exit 1 blames a scenario or the suite teardown, never the environment.
FailureIsReal ==
  exit = "1" => Failed /\ \A s \in Scenarios : result[s] \in Outcomes

\* The notice names only scenarios the deadline caught or that started under
\* it; every one of them has been executed when it is printed, and a command
\* that prints it has a deadline to blame.
NoticeMeansDeadline ==
  notice # {} =>
    /\ runCtx = "deadline"
    /\ \A s \in notice : result[s] # "nil"

\* What the command tells: its exit code is neither success over a failure nor a
\* failed test where the environment failed, and its notice names only scenarios
\* that have the deadline to blame.
CommandTellsTheTruth == SuccessIsEarned /\ FailureIsReal /\ NoticeMeansDeadline

\* The command ends, whatever hangs, when a --timeout bounds it or nothing hangs:
\* nothing waits for a goroutine that waits for it (the semaphore, the wait group,
\* and the receive from the watcher that only runCancel unblocks).
Ends == Timeout \/ Hanging = {} => <>(cli = "exited")
==============================================================================
