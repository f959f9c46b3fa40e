-------------------------------- MODULE LoadStep --------------------------------
(***************************************************************************)
(* How load steps are lowered. The steps of a keyword are shared by the    *)
(* scenarios that call it (executeKeywordSteps runs keyword.Steps of the   *)
(* suite); evaluateLoadRequest puts the step's own http block in           *)
(* step.Request for evaluateRequest to read, and takes it out again.       *)
(***************************************************************************)
CONSTANT Scenarios  \* the scenarios that call a keyword with a load step

VARIABLES
  request,  \* step.Request of the one step: Nil, or Http when it is step.Load.Request
  at,       \* scenario -> where it is in its call
  saved,    \* scenario -> its local `saved`
  outcome   \* scenario -> of its evaluation

vars == <<request, at, saved, outcome>>

Nil == "nil"
Http == "http"

Init ==
  /\ request = Nil  \* the parser gives a load step no request block
  /\ at = [s \in Scenarios |-> "call"]
  /\ saved = [s \in Scenarios |-> Nil]
  /\ outcome = [s \in Scenarios |-> "none"]

Goto(s, from, to) == at[s] = from /\ at' = [at EXCEPT ![s] = to]

Save(s) ==
  /\ Goto(s, "call", "assign")
  /\ saved' = [saved EXCEPT ![s] = request]
  /\ UNCHANGED <<request, outcome>>

Assign(s) ==
  /\ Goto(s, "assign", "test")
  /\ request' = Http
  /\ UNCHANGED <<saved, outcome>>

\* evaluateRequest refuses a step without a request block ...
TestRequest(s) ==
  /\ Goto(s, "test", IF request = Nil THEN "restore" ELSE "read")
  /\ outcome' = [outcome EXCEPT ![s] = IF request = Nil THEN "missing" ELSE @]
  /\ UNCHANGED <<request, saved>>

\* ... and reads its attributes through the pointer, again and again.
ReadAttribute(s) ==
  /\ at[s] = "read"
  /\ IF request = Nil THEN Goto(s, "read", "panic") /\ UNCHANGED outcome
     ELSE \/ UNCHANGED <<at, outcome>>
          \/ Goto(s, "read", "restore") /\ outcome' = [outcome EXCEPT ![s] = "values"]
  /\ UNCHANGED <<request, saved>>

\* The deferred assignment.
Restore(s) ==
  /\ Goto(s, "restore", "done")
  /\ request' = saved[s]
  /\ UNCHANGED <<saved, outcome>>

Done == (\A s \in Scenarios : at[s] \in {"panic", "done"}) /\ UNCHANGED vars

Next ==
  \/ \E s \in Scenarios : Save(s) \/ Assign(s) \/ TestRequest(s) \/ ReadAttribute(s) \/ Restore(s)
  \/ Done

Spec == Init /\ [][Next]_vars

\* "It returns the cty map the provider consumes" (load.go): the evaluation of a
\* load step that has its blocks finds the block it evaluates.
RequestFound ==
  \A s \in Scenarios : at[s] # "panic" /\ outcome[s] # "missing"
=================================================================================
