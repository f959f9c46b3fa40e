---------------------------- MODULE SuiteContract ----------------------------
(***************************************************************************)
(* What a suite run promises, without its goroutines: every selected       *)
(* scenario is executed once, at most Slots at a time; then comes the      *)
(* suite-level cleanup, alone; then the providers are closed; then the     *)
(* result is handed over.                                                  *)
(***************************************************************************)
EXTENDS Integers, FiniteSets

CONSTANTS Scenarios, Slots

VARIABLES
  inFlight,  \* scenarios being executed
  finished,  \* scenarios executed
  stage      \* "scenarios", "cleanup", "closed" or "reported"

vars == <<inFlight, finished, stage>>

Init == inFlight = {} /\ finished = {} /\ stage = "scenarios"

Begin(s) ==
  /\ stage = "scenarios"
  /\ s \notin inFlight \cup finished
  /\ Cardinality(inFlight) < Slots
  /\ inFlight' = inFlight \cup {s}
  /\ UNCHANGED <<finished, stage>>

Finish(s) ==
  /\ s \in inFlight
  /\ inFlight' = inFlight \ {s}
  /\ finished' = finished \cup {s}
  /\ UNCHANGED stage

CleanUp ==
  /\ stage = "scenarios" /\ finished = Scenarios
  /\ stage' = "cleanup"
  /\ UNCHANGED <<inFlight, finished>>

Close  == stage = "cleanup" /\ stage' = "closed" /\ UNCHANGED <<inFlight, finished>>
Report == stage = "closed" /\ stage' = "reported" /\ UNCHANGED <<inFlight, finished>>

Next ==
  \/ \E s \in Scenarios : Begin(s) \/ Finish(s)
  \/ CleanUp \/ Close \/ Report

Spec == Init /\ [][Next]_vars
==============================================================================
