---------------------------- MODULE StepPipeline ----------------------------
(***************************************************************************)
(* What an attempt of a step does: the stages of each provider's executor, *)
(* what each leaves in the report and in the scenario state, the retries,  *)
(* and keyword calls, which run a list of steps on a nested state. It is   *)
(* `AttemptPasses' and `AttemptFails' of ScenarioRun opened up.            *)
(***************************************************************************)
EXTENDS Integers, Sequences

CONSTANTS
  Main,       \* the scenario's list of steps
  Teardown,   \* the list of its teardown steps
  Keywords,   \* suite.Keywords
  Plan,       \* list -> its steps, in source order
  Outputs,    \* keyword -> the results its outputs read
  StepNames   \* every step name of the suite

Bodies == {Main, Teardown} \cup Keywords

Kinds == {"http", "keyword", "mobile", "sql", "mail", "browser", "load", "webhook",
          "file", "exec", "rpc"}

StepRecords ==
  [name : StepNames, kind : Kinds, calls : Keywords \cup {"unknown"},
   attempts : Int,            \* retry.attempts as written (0: no retry block)
   pauses : BOOLEAN,          \* retry.interval > 0
   gated : BOOLEAN,           \* it has a `when`, or a skip rule
   reads : SUBSET StepNames]  \* the results its payload reads a field of

Names(body) == {Plan[body][i].name : i \in DOMAIN Plan[body]}

\* validateSuite: names are unique in a keyword, and in a scenario with its teardown.
ASSUME PipelineAssumption ==
  /\ Main # Teardown /\ {Main, Teardown} \cap Keywords = {}
  /\ "unknown" \notin Keywords
  /\ Plan \in [Bodies -> Seq(StepRecords)]
  /\ Outputs \in [Keywords -> SUBSET StepNames]
  /\ \A b \in Bodies : \A i, j \in DOMAIN Plan[b] :
       Plan[b][i].name = Plan[b][j].name => i = j
  /\ Names(Main) \cap Names(Teardown) = {}

VARIABLES
  stack,      \* the nested calls: the scenario's own list, then a frame per keyword
  doing,      \* the innermost list: "decide", "attempt", or "done" at the very end
  todo,       \* the stages the attempt still has before it
  fault,      \* kind of the failure of the attempt ("none")
  called,     \* the provider has been called by this attempt
  wrote,      \* the command of this attempt has written its artifacts
  shown,      \* what the step report carries
  seedScope,  \* evaluator.seedScope
  disk        \* the exec artifact directories that have files

attemptVars == <<todo, fault, called, wrote, shown>>
vars == <<stack, doing, attemptVars, seedScope, disk>>

\* A frame is a ScenarioState with a place in its list. `results' holds the names
\* whose value is no longer the empty object, `passed' the steps that passed here.
Frame(body, results) ==
  [body |-> body, at |-> 1, attempt |-> 1, results |-> results, passed |-> {}]

Top  == stack[Len(stack)]
Step == Plan[Top.body][Top.at]

\* The keys of the innermost state: those of the outer one and the keyword's own.
Known == Names(Main) \cup Names(Teardown)
           \cup UNION {Names(stack[k].body) : k \in 2..Len(stack)}

\* Where an exec step keeps its artifacts.
Directory == <<seedScope, Step.name>>

Init ==
  /\ stack = <<Frame(Main, {})>>
  /\ doing = "decide"
  /\ todo = <<>> /\ fault = "none" /\ called = FALSE /\ wrote = FALSE /\ shown = {}
  /\ seedScope = <<>>
  /\ disk \in SUBSET {<<<<>>, Plan[Main][i].name>> :     \* left by an earlier run
                       i \in {j \in DOMAIN Plan[Main] : Plan[Main][j].kind = "exec"}}

-----------------------------------------------------------------------------
(* The executors: the stages of an attempt, in order.                      *)

HttpStages == <<"vars", "payload", "lookup", "call", "attach", "save", "expect",
                "capture", "store">>

MobileStages  == <<"block", "vars", "payload", "lookup", "call", "attach", "capture", "store">>
BrowserStages == <<"block", "vars", "payload", "lookup", "call", "attach", "capture", "store">>

\* Mutant: the result is set before the captures are evaluated.
SqlStagesEager == <<"block", "vars", "payload", "lookup", "call", "attach", "expect",
                    "store", "capture">>

SqlStages  == <<"block", "vars", "payload", "lookup", "call", "attach", "expect",
                "capture", "store">>
MailStages == <<"block", "vars", "payload", "lookup", "call", "attach", "expect",
                "capture", "store">>
LoadStages == <<"block", "vars", "payload", "lookup", "call", "attach", "expect",
                "capture", "store">>
WebhookStages == <<"block", "vars", "payload", "lookup", "call", "attach", "expect",
                   "capture", "store">>
FileStages == <<"block", "vars", "payload", "lookup", "call", "attach", "expect",
                "capture", "store">>
RpcStages  == <<"block", "vars", "payload", "lookup", "call", "attach", "expect",
                "capture", "store">>

\* Mutant: the artifacts of an earlier attempt stay.
ExecStagesUnclean == <<"block", "vars", "payload", "lookup", "call", "attach", "expect",
                       "capture", "store">>

ExecStages == <<"block", "vars", "payload", "lookup", "clear", "call", "attach", "expect",
                "capture", "store">>

\* `enter' runs the keyword's list; its end brings the caller to the stages after it.
AfterKeyword  == <<"attach", "store">>
KeywordStages == <<"block", "vars", "payload", "summary", "enter", "attach", "store">>

Stages(kind) ==
  CASE kind = "http"    -> HttpStages
    [] kind = "keyword" -> KeywordStages
    [] kind = "mobile"  -> MobileStages
    [] kind = "sql"     -> SqlStages
    [] kind = "mail"    -> MailStages
    [] kind = "browser" -> BrowserStages
    [] kind = "load"    -> LoadStages
    [] kind = "webhook" -> WebhookStages
    [] kind = "file"    -> FileStages
    [] kind = "exec"    -> ExecStages
    [] kind = "rpc"     -> RpcStages

\* The failure kinds of a stage, those of an assertion (toErrorDetail) as one; none
\* for a stage that cannot fail. A file's or a command's payload resolves a path too.
Faults(kind, stage) ==
  CASE stage = "block"   -> {IF kind = "keyword" THEN "keyword" ELSE "eval"}
    [] stage = "vars"    -> {"vars"}
    [] stage = "payload" -> {"eval"} \cup (IF kind \in {"file", "exec"} THEN {"provider"} ELSE {})
    [] stage = "lookup"  -> {"provider"}
    [] stage = "save"    -> {"save"}
    [] stage = "expect"  -> {"assertion"}
    [] stage = "capture" -> {"capture"}
    [] stage = "enter"   -> {"keyword"}
    [] OTHER             -> {}

\* What the report takes over from the output of a provider that succeeded, and
\* what a failing one may leave. An exec step lists its directory either way.
Attached(kind) ==
  {"request", "response"} \cup (IF kind \in {"mobile", "browser"} THEN {"artifacts", "actions"} ELSE {})

Salvaged(kind) ==
  IF kind \in {"mobile", "browser"} THEN {{}, {"response", "artifacts", "actions"}} ELSE {{}}

-----------------------------------------------------------------------------
(* The list of steps.                                                      *)

SetTop(frame) == stack' = [stack EXCEPT ![Len(stack)] = frame]

Deciding   == doing = "decide" /\ Top.at <= Len(Plan[Top.body])
Attempting == doing = "attempt" /\ fault = "none" /\ todo # <<>>
Failed     == doing = "attempt" /\ fault # "none"
Succeeded  == doing = "attempt" /\ fault = "none" /\ todo = <<>>

\* dependencyBlocker: the scenario's own list skips what reads a missing result.
Blocked == Top.body = Main /\ ~(Step.reads \subseteq Top.results)

\* An attempt begins with a new report.
Begin ==
  /\ doing' = "attempt"
  /\ todo' = Stages(Step.kind)
  /\ fault' = "none" /\ called' = FALSE /\ wrote' = FALSE /\ shown' = {}

SkipStep ==
  /\ Deciding
  /\ Blocked \/ Step.gated
  /\ SetTop([Top EXCEPT !.at = @ + 1])
  /\ UNCHANGED <<doing, attemptVars, seedScope, disk>>

StartStep ==
  /\ Deciding
  /\ ~Blocked
  /\ SetTop([Top EXCEPT !.attempt = 1])
  /\ Begin
  /\ UNCHANGED <<seedScope, disk>>

\* retryOptions.
MaxAttempts == IF Step.attempts < 1 THEN 1 ELSE Step.attempts

StepPasses ==
  /\ Succeeded
  /\ SetTop([Top EXCEPT !.at = @ + 1, !.passed = @ \cup {Step.name}])
  /\ doing' = "decide"
  /\ UNCHANGED <<attemptVars, seedScope, disk>>

\* Mutant: attempts are counted from zero.
RetryOnceMore ==
  /\ Failed
  /\ Top.attempt <= MaxAttempts
  /\ SetTop([Top EXCEPT !.attempt = @ + 1])
  /\ Begin
  /\ UNCHANGED <<seedScope, disk>>

Retry ==
  /\ Failed
  /\ Top.attempt < MaxAttempts
  /\ SetTop([Top EXCEPT !.attempt = @ + 1])
  /\ Begin
  /\ UNCHANGED <<seedScope, disk>>

\* The attempts are used up, or the pause between two is interrupted.
GivenUp == Failed /\ (Top.attempt >= MaxAttempts \/ Step.pauses)

\* The scenario's own list halts; that of the teardown goes on.
StepFails ==
  /\ GivenUp /\ Len(stack) = 1
  /\ SetTop(IF Top.body = Main THEN [Top EXCEPT !.body = Teardown, !.at = 1]
                               ELSE [Top EXCEPT !.at = @ + 1])
  /\ doing' = "decide"
  /\ UNCHANGED <<attemptVars, seedScope, disk>>

ListEnds ==
  /\ doing = "decide" /\ Len(stack) = 1 /\ Top.at > Len(Plan[Top.body])
  /\ IF Top.body = Main
     THEN SetTop([Top EXCEPT !.body = Teardown, !.at = 1]) /\ UNCHANGED doing
     ELSE doing' = "done" /\ UNCHANGED stack
  /\ UNCHANGED <<attemptVars, seedScope, disk>>

-----------------------------------------------------------------------------
(* The stages.                                                             *)

\* A payload that reads a field of a missing result does not evaluate.
Evaluate ==
  /\ Attempting
  /\ Head(todo) \in {"block", "vars", "payload", "lookup", "save", "expect", "capture"}
  /\ Head(todo) = "payload" => Step.reads \subseteq Top.results
  /\ todo' = Tail(todo)
  /\ UNCHANGED <<stack, doing, fault, called, wrote, shown, seedScope, disk>>

StageFails ==
  /\ Attempting
  /\ fault' \in Faults(Step.kind, Head(todo))
  /\ UNCHANGED <<stack, doing, todo, called, wrote, shown, seedScope, disk>>

ClearArtifacts ==
  /\ Attempting /\ Head(todo) = "clear"
  /\ disk' = disk \ {Directory}
  /\ todo' = Tail(todo)
  /\ UNCHANGED <<stack, doing, fault, called, wrote, shown, seedScope>>

\* Provider.Execute. A command may get to its artifacts or not, whether the step
\* passes or fails; the report lists what it finds in their directory.
Call ==
  /\ Attempting /\ Head(todo) = "call"
  /\ called' = TRUE
  /\ wrote' \in (IF Step.kind = "exec" THEN BOOLEAN ELSE {FALSE})
  /\ disk' = IF wrote' THEN disk \cup {Directory} ELSE disk
  /\ LET listed == IF Step.kind = "exec" /\ Directory \in disk' THEN {"artifacts"} ELSE {}
     IN \/ fault' = "none" /\ todo' = Tail(todo) /\ shown' = shown \cup listed
        \/ /\ fault' = "provider" /\ UNCHANGED todo
           /\ \E rest \in Salvaged(Step.kind) : shown' = shown \cup listed \cup rest
  /\ UNCHANGED <<stack, doing, seedScope>>

Attach ==
  /\ Attempting /\ Head(todo) \in {"attach", "summary"}
  /\ shown' = shown \cup (IF Head(todo) = "summary" THEN {"request"} ELSE Attached(Step.kind))
  /\ todo' = Tail(todo)
  /\ UNCHANGED <<stack, doing, fault, called, wrote, seedScope, disk>>

\* ScenarioState.SetStepResult.
Store ==
  /\ Attempting /\ Head(todo) = "store"
  /\ SetTop([Top EXCEPT !.results = @ \cup {Step.name}])
  /\ todo' = Tail(todo)
  /\ UNCHANGED <<doing, fault, called, wrote, shown, seedScope, disk>>

-----------------------------------------------------------------------------
(* Keyword calls.                                                          *)

\* Mutant: only the names of the calling list are looked at.
EnterKeywordUnseen ==
  /\ Attempting /\ Head(todo) = "enter"
  /\ Step.calls \in Keywords
  /\ Names(Step.calls) \cap Names(Top.body) = {}
  /\ stack' = Append(stack, Frame(Step.calls, Top.results))
  /\ seedScope' = Append(seedScope, Step.name)
  /\ doing' = "decide"
  /\ UNCHANGED <<attemptVars, disk>>

\* newKeywordState starts from the results of the caller and refuses a step name
\* that the caller's state has already.
EnterKeyword ==
  /\ Attempting /\ Head(todo) = "enter"
  /\ Step.calls \in Keywords
  /\ Names(Step.calls) \cap Known = {}
  /\ stack' = Append(stack, Frame(Step.calls, Top.results))
  /\ seedScope' = Append(seedScope, Step.name)
  /\ doing' = "decide"
  /\ UNCHANGED <<attemptVars, disk>>

Front(s) == SubSeq(s, 1, Len(s) - 1)

\* Mutant: the seed scope is restored only by a keyword that succeeds.
LeaveKeywordLeaking(failure) ==
  /\ stack' = Front(stack)
  /\ seedScope' = IF failure = "none" THEN Front(seedScope) ELSE seedScope
  /\ doing' = "attempt"
  /\ fault' = failure
  /\ todo' = AfterKeyword
  /\ called' = FALSE /\ wrote' = FALSE /\ shown' = {"request"}
  /\ UNCHANGED disk

\* Back to the calling step, as it was when it entered the keyword. The seed scope
\* is restored on every path.
LeaveKeyword(failure) ==
  /\ stack' = Front(stack)
  /\ seedScope' = Front(seedScope)
  /\ doing' = "attempt"
  /\ fault' = failure
  /\ todo' = AfterKeyword
  /\ called' = FALSE /\ wrote' = FALSE /\ shown' = {"request"}
  /\ UNCHANGED disk

\* executeKeywordSteps returns at the first step that fails.
KeywordStepFails ==
  /\ GivenUp /\ Len(stack) > 1
  /\ LeaveKeyword("keyword")

\* evaluateKeywordOutputs, on the keyword's state.
KeywordEnds ==
  /\ doing = "decide" /\ Len(stack) > 1 /\ Top.at > Len(Plan[Top.body])
  /\ \/ Outputs[Top.body] \subseteq Top.results /\ LeaveKeyword("none")
     \/ LeaveKeyword("keyword")

-----------------------------------------------------------------------------

Done == doing = "done" /\ UNCHANGED vars

Next ==
  \/ SkipStep \/ StartStep \/ StepPasses \/ Retry \/ StepFails \/ ListEnds
  \/ Evaluate \/ StageFails \/ ClearArtifacts \/ Call \/ Attach \/ Store
  \/ EnterKeyword \/ KeywordStepFails \/ KeywordEnds
  \/ Done

Spec == Init /\ [][Next]_vars

-----------------------------------------------------------------------------

StageNames == {"block", "vars", "payload", "lookup", "clear", "call", "attach", "save",
               "expect", "capture", "store", "summary", "enter"}
FaultNames == {"eval", "vars", "provider", "save", "assertion", "capture", "keyword"}

Frames == [body : Bodies, at : Nat \ {0}, attempt : Nat \ {0},
           results : SUBSET StepNames, passed : SUBSET StepNames]

\* Types; an attempt beyond the configured number never begins.
TypeOK ==
  /\ stack \in Seq(Frames) /\ stack # <<>>
  /\ doing \in {"decide", "attempt", "done"}
  /\ todo \in Seq(StageNames)
  /\ fault \in FaultNames \cup {"none"}
  /\ called \in BOOLEAN /\ wrote \in BOOLEAN
  /\ shown \subseteq {"request", "response", "artifacts", "actions"}
  /\ seedScope \in Seq(StepNames)
  /\ disk \subseteq Seq(StepNames) \X StepNames
  /\ \A k \in DOMAIN stack : stack[k].at <= Len(Plan[stack[k].body]) + 1
  /\ doing = "attempt" => Top.at <= Len(Plan[Top.body]) /\ Top.attempt <= MaxAttempts

Own(k) == stack[k].results \ (IF k = 1 THEN {} ELSE stack[k - 1].results)

\* A step leaves a result exactly when it passed: a step that failed at any stage,
\* in any attempt, leaves none for later steps, `when' guards or the teardown, and
\* "only outputs cross the keyword boundary" (keywords.mdx): nothing of a keyword's
\* own steps reaches the state of its caller (SetStepResult, newKeywordState).
ResultsAreOfPasses ==
  \A k \in DOMAIN stack :
    Own(k) = stack[k].passed
               \cup (IF Succeeded /\ k = Len(stack) THEN {Step.name} ELSE {})

\* The seed scope is the path of calls, whatever became of the keywords called
\* before: a keyword that fails, and is retried, generates the same values again
\* and keeps the artifacts of its commands in the same place.
SeedScopeIsCallPath ==
  seedScope = [k \in 1..(Len(stack) - 1) |-> Plan[stack[k].body][stack[k].at].name]

\* A keyword is never within itself, whatever the suite says: names that the state
\* has already are refused, so that every chain of calls ends.
NoKeywordWithinItself ==
  \A j, k \in DOMAIN stack : stack[j].body = stack[k].body => j = k

\* The report of an attempt that has ended tells what that attempt did: a step
\* judged by its response shows it, no response is shown that the attempt did not
\* get, artifacts are its own and not those of an earlier attempt or run, and a
\* step that did not evaluate never reached its provider.
ReportTellsTheAttempt ==
  Failed \/ Succeeded =>
    /\ Succeeded \/ fault \in {"save", "assertion", "capture"} =>
         {"request", "response"} \subseteq shown
    /\ Step.kind # "keyword" /\ "response" \in shown => called
    /\ Step.kind = "exec" /\ "artifacts" \in shown => wrote
    /\ fault \in {"vars", "eval"} => ~called /\ shown = {}
=============================================================================
