---------------------------- MODULE MCScenarioRun ----------------------------
(***************************************************************************)
(* A scenario of four steps and two teardown steps for TLC: 3 depends on 2 *)
(* and 2 on 1, and 4 on nothing. Steps 1 and 2 and the first teardown step *)
(* retry, 1 with a pause; step 4 and the second teardown step hang.        *)
(***************************************************************************)
EXTENDS ScenarioRun

MCDepends == <<{}, {1}, {2}, {}>>

MCAttempts == [steps |-> <<2, 3, 0, 1>>, teardown |-> <<2, 0>>]
MCPaused   == [steps |-> {1}, teardown |-> {1}]
MCHanging  == [steps |-> {4}, teardown |-> {2}]
==============================================================================
