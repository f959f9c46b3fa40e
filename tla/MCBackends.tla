----------------------------- MODULE MCBackends -----------------------------
(* Small instances of the machines behind mobile and browser steps, one of  *)
(* them at a time: a mobile step on its session, the sessions that share the *)
(* cache of the Apple driver, the commands that share an Android device, a   *)
(* browser step on its Chrome, and the recorder of what its page does.       *)
EXTENDS AppleDriver, Sequences, RecorderBounds

CONSTANTS Steps, Modes, Attempts, MaxPolls,
          Versions, MaxLives,
          Forms, CaptureModes,
          Requests, MaxEvents, MaxStarts

VARIABLES part,
          step, mode, driver, run, pc, attempt, i, left, w, results, err,
          tree, arts, log, diedBefore,
          life, version, context, place, host, onDevice, bound, app, test,
          marker, forwards, answered, excuse, cut,
          form, shots, chrome, deadline, stage, k, timer, budget, asked, last,
          blame, timeline, todo, tries, files, said,
          starts, items, first, dropped, pending, hop, finished, feed, crowded

MobileVars == <<step, mode, driver, run, pc, attempt, i, left, w, results, err,
                tree, arts, log, diedBefore>>
AndroidVars == <<life, version, context, place, host, onDevice, bound, app,
                 test, marker, forwards, answered, excuse, cut>>
BrowserVars == <<form, shots, chrome, deadline, stage, k, timer, budget, asked,
                 last, blame, timeline, todo, tries, files, said>>
RecorderVars == <<starts, items, first, dropped, pending, hop, finished, feed,
                  crowded>>

Mobile == INSTANCE MobileStep
Android == INSTANCE AndroidDriver
Browser == INSTANCE BrowserStep
Recorder == INSTANCE PageRecorder

Plain == [launch |-> "no", perms |-> 0, actions |-> <<>>, expects |-> <<>>,
          terminate |-> FALSE, capture |-> FALSE]

\* Steps that between them use every kind of action and expectation, every
\* way to launch, and a capture.
MCSteps ==
    {[Plain EXCEPT !.launch = "host", !.perms = 1, !.actions = <<"type", "tap">>],
     [Plain EXCEPT !.launch = "driver", !.actions = <<"shown", "clear">>,
                   !.terminate = TRUE],
     [Plain EXCEPT !.actions = <<"device", "scroll">>, !.expects = <<"gone">>],
     [Plain EXCEPT !.expects = <<"state">>, !.capture = TRUE],
     [Plain EXCEPT !.expects = <<"gone">>],
     [Plain EXCEPT !.perms = 1, !.capture = TRUE]}

\* A pointer, a checkbox, a plain call and a polling wait as actions, and every
\* kind of expectation.
MCForms ==
    {[actions |-> <<"click", "call">>, expects |-> <<"visible", "perf">>],
     [actions |-> <<"check">>, expects |-> <<"text">>],
     [actions |-> <<"call", "enabled">>, expects |-> <<>>]}

ASSUME StepsAreSteps == Steps \subseteq Mobile!AStep
ASSUME FormsAreForms == Forms \subseteq Browser!AForm

Parts == {"step", "apple", "android", "browser", "recorder"}

MCInit ==
    /\ part \in Parts
    /\ Mobile!Init /\ Init /\ Android!Init /\ Browser!Init /\ Recorder!Init
    /\ part # "step" => step = CHOOSE s \in Steps : TRUE
    /\ part # "step" => mode = "none"
    /\ part # "android" => version = CHOOSE v \in Versions : TRUE
    /\ part # "browser" => form = CHOOSE f \in Forms : TRUE
    /\ part # "browser" => shots = "none"

MCNext ==
    \/ /\ part = "step" /\ Mobile!Next
       /\ UNCHANGED <<part, vars, AndroidVars, BrowserVars, RecorderVars>>
    \/ /\ part = "apple" /\ Next
       /\ UNCHANGED <<part, MobileVars, AndroidVars, BrowserVars, RecorderVars>>
    \/ /\ part = "android" /\ Android!Next
       /\ UNCHANGED <<part, MobileVars, vars, BrowserVars, RecorderVars>>
    \/ /\ part = "browser" /\ Browser!Next
       /\ UNCHANGED <<part, MobileVars, vars, AndroidVars, RecorderVars>>
    \/ /\ part = "recorder" /\ Recorder!Next
       /\ UNCHANGED <<part, MobileVars, vars, AndroidVars, BrowserVars>>

MCVars == <<part, MobileVars, vars, AndroidVars, BrowserVars, RecorderVars>>

MCSpec ==
    /\ MCInit /\ [][MCNext]_MCVars
    /\ WF_MCVars(part = "step" /\ Mobile!Work
                 /\ UNCHANGED <<part, vars, AndroidVars, BrowserVars, RecorderVars>>)
    /\ \A p \in Procs :
          WF_MCVars(part = "apple" /\ Work(p)
                    /\ UNCHANGED <<part, MobileVars, AndroidVars, BrowserVars, RecorderVars>>)
    /\ WF_MCVars(part = "android" /\ Android!Build
                 /\ UNCHANGED <<part, MobileVars, vars, BrowserVars, RecorderVars>>)
    /\ WF_MCVars(part = "browser" /\ Browser!Work
                 /\ UNCHANGED <<part, MobileVars, vars, AndroidVars, RecorderVars>>)
    /\ WF_MCVars(part = "browser" /\ Browser!TimePasses
                 /\ UNCHANGED <<part, MobileVars, vars, AndroidVars, RecorderVars>>)

VerdictIsTrue == Mobile!VerdictIsTrue
DeadDriverIsNotHidden == Mobile!DeadDriverIsNotHidden
AnsweredByOurs == Android!AnsweredByOurs
NothingLeftBehind == Android!NothingLeftBehind
RunsItsOwnDriver == Android!RunsItsOwnDriver
BlameIsTrue == Browser!BlameIsTrue
EvidenceIsRecent == Recorder!EvidenceIsRecent

\* A failed step is accounted for action by action, on mobile and in the
\* browser, where the console and the network are written up as well.
FailuresAreDocumented == Mobile!TimelineAddsUp /\ Browser!FailureIsDocumented

\* Each comes to its end: the mobile step, every session that waits for the
\* cache, the session on the device, and the browser step.
AllSettle ==
    /\ part = "step" => Mobile!StepEnds
    /\ part = "apple" => EveryoneSettles
    /\ part = "android" => Android!SessionSettles
    /\ part = "browser" => Browser!StepSettles
=============================================================================
