----------------------------- MODULE BrowserStep -----------------------------
(***************************************************************************)
(* One attempt at a browser step, from its Chrome to its report: the       *)
(* actions and expectations, the waits and whom they blame, and the        *)
(* evidence captured on the way and at the end.                            *)
(*                                                                         *)
(* A call to Chrome runs under a context of its own that has the deadline  *)
(* of the caller's: of two timers due at the same instant either may fire  *)
(* first.  Chrome may stop answering for good, and the run's deadline may  *)
(* pass, at any moment.                                                    *)
(***************************************************************************)
EXTENDS Naturals, Sequences

CONSTANTS Forms,        \* the steps: see AForm
          CaptureModes  \* the capture modes of the provider

CaptureMaxAttempts == 3

VARIABLES
    form, shots,  \* chosen once
    chrome,       \* "up", or "mute" once it answers nothing any more
    deadline,     \* the run's: "ahead" or "past"
    stage,        \* where the step is
    k,            \* the action or expectation it is at
    timer,        \* of the wait, call or capture attempt under way: "off",
                  \* "set", "due" (its time has passed) or "fired"
    budget,       \* of the capture under way: "off", "set" or "fired"
    asked,        \* a question of the current wait is in flight
    last,         \* what the wait remembers of the answers before
    blame,        \* the error of the step
    timeline,     \* output.ActionResults
    todo,         \* what is captured or read next
    tries,        \* attempts at the first of them
    files,        \* the kinds of artifacts written, the actions' included
    said          \* (history) what the page itself last said to the wait

vars == <<form, shots, chrome, deadline, stage, k, timer, budget, asked, last,
          blame, timeline, todo, tries, files, said>>
Given == <<form, shots>>
World == <<chrome, deadline>>
Waiting == <<timer, asked, last, said>>
Evidence == <<budget, tries, files>>

Nothing == "nothing"
Wanted == form.actions \o form.expects
AnAction(j) == j <= Len(form.actions)
Pointers == {"click", "check"}
Kinds == Pointers \cup {"enabled", "text", "call", "visible", "perf"}
AForm == [actions : Seq(Kinds), expects : Seq(Kinds)]

Init ==
    /\ form \in Forms /\ shots \in CaptureModes
    /\ chrome = "up" /\ deadline = "ahead"
    /\ stage = "open" /\ k = 1
    /\ timer = "off" /\ budget = "off" /\ asked = FALSE /\ last = Nothing
    /\ blame = Nothing /\ timeline = <<>>
    /\ todo = <<>> /\ tries = 0 /\ files = {} /\ said = Nothing
-----------------------------------------------------------------------------
(* The surroundings.                                                       *)

ChromeMutes ==
    /\ chrome = "up" /\ chrome' = "mute"
    /\ UNCHANGED <<Given, deadline, stage, k, Waiting, blame, timeline, todo, Evidence>>

\* Every context is derived from the run's.
RunDeadline ==
    /\ deadline = "ahead" /\ deadline' = "past"
    /\ timer' = IF timer = "off" THEN "off" ELSE "fired"
    /\ budget' = IF budget = "off" THEN "off" ELSE "fired"
    /\ UNCHANGED <<Given, chrome, stage, k, asked, last, said, blame, timeline,
                   todo, tries, files>>

TimePasses ==
    /\ timer \in {"set", "due"}
    /\ timer' = IF timer = "set" THEN "due" ELSE "fired"
    /\ UNCHANGED <<Given, World, stage, k, asked, last, said, blame, timeline,
                   todo, Evidence>>

BudgetEnds ==
    /\ budget = "set" /\ budget' = "fired" /\ timer' = "fired"
    /\ UNCHANGED <<Given, World, stage, k, asked, last, said, blame, timeline,
                   todo, tries, files>>

\* A timer started now.
NewTimer == IF deadline = "past" THEN "fired" ELSE "set"

\* What a call under the timer may come back with (chromedpDriver.run): an
\* answer of the page, or the end of its own copy of the deadline.
Replies(answers) ==
    (IF chrome = "mute" \/ deadline = "past" \/ budget = "fired" THEN {} ELSE answers)
    \cup (IF timer \in {"due", "fired"} THEN {"cut"} ELSE {})

\* A call with no deadline but the run's.
RepliesToRead(answers) ==
    (IF chrome = "mute" \/ deadline = "past" THEN {} ELSE answers)
    \cup (IF deadline = "past" THEN {"cut"} ELSE {})
-----------------------------------------------------------------------------
(* Execute.                                                                *)

\* acquireSession, then acquireScenarioCtx: the scenario's Chrome of an earlier
\* step, or a new one.
Open ==
    /\ stage = "open"
    /\ stage' \in {"begin", "start"}
    /\ UNCHANGED <<Given, World, k, Waiting, blame, timeline, todo, Evidence>>

\* newScenarioContext starts Chrome under a context of its own: neither the
\* action's nor the run's deadline ends a start that is not answered.
StartChrome ==
    /\ stage = "start" /\ chrome = "up"
    /\ \/ stage' = "begin" /\ UNCHANGED blame
       \/ stage' = "over" /\ blame' = "start"
    /\ UNCHANGED <<Given, World, k, Waiting, timeline, todo, Evidence>>

Capture == <<"shot", "dom">>
Diagnostics == <<"state", "records">>
If(condition, s) == IF condition THEN s ELSE <<>>

\* After the last expectation: the snapshot for the captures, then what the
\* mode wants of a step that passed.
Succeed ==
    /\ stage = "begin" /\ k > Len(Wanted) /\ todo = <<>>
    /\ stage' = "report"
    /\ todo' = <<"read", "read", "read", "read">>
               \o If(shots = "steps", Capture) \o If(shots = "actions", Diagnostics)
    /\ UNCHANGED <<Given, World, k, Waiting, blame, timeline, Evidence>>

StageOf(kind) ==
    CASE kind \in {"click"}             -> "probe"
      [] kind \in {"check"}             -> "look"
      [] kind \in {"enabled", "text"}   -> "poll"
      [] kind \in {"call", "visible"}   -> "call"
      [] kind \in {"perf"}              -> "perf"

Begin ==
    /\ stage = "begin" /\ k <= Len(Wanted) /\ todo = <<>>
    /\ stage' = StageOf(Wanted[k])
    /\ timer' = IF Wanted[k] = "perf" THEN "off" ELSE NewTimer
    /\ asked' = TRUE /\ last' = Nothing /\ said' = Nothing
    /\ UNCHANGED <<Given, World, k, blame, timeline, todo, Evidence>>

\* The action or expectation at k is done.
Advance ==
    /\ stage' = "begin" /\ k' = k + 1 /\ timer' = "off" /\ asked' = FALSE
    /\ timeline' = IF AnAction(k) THEN Append(timeline, "pass") ELSE timeline
    /\ todo' = If(AnAction(k) /\ shots = "actions", Capture)
    /\ UNCHANGED blame

\* runActions and failStep: the queue behind a failing action is skipped; then
\* the capture of the action, the URL and the title, the capture of the step
\* and its diagnostics.
Fail(e) ==
    /\ stage' = "report" /\ blame' = e /\ timer' = "off" /\ asked' = FALSE
    /\ timeline' = timeline \o
                   If(AnAction(k),
                      <<"fail">> \o [j \in 1..(Len(form.actions) - k) |-> "skipped"])
    /\ todo' = If(AnAction(k) /\ shots # "none", Capture) \o <<"read", "read">>
               \o If(shots # "none", Capture \o Diagnostics)
    /\ UNCHANGED k

\* One CDP call, or a wait that chromedp makes itself (waitFor).
Call ==
    /\ stage = "call"
    /\ \E r \in Replies({"ok", "failed"}) : IF r = "ok" THEN Advance ELSE Fail(r)
    /\ UNCHANGED <<Given, World, last, said, Evidence>>

\* expect.web_perf reads its metrics once.
Perf ==
    /\ stage = "perf"
    /\ \E r \in RepliesToRead({"ok", "failed"}) :
          IF r = "ok" THEN Advance ELSE Fail(r)
    /\ UNCHANGED <<Given, World, last, said, Evidence>>
-----------------------------------------------------------------------------
(* Waits.                                                                  *)

Remember(r) ==
    /\ last' = r /\ asked' = FALSE
    /\ UNCHANGED <<stage, k, timer, blame, timeline, todo>>

\* The interval is over.  With the deadline passed as well select may still
\* take it; the question is then cut at once, and TooLate stands for that.
AskAgain ==
    /\ stage \in {"probe", "look", "verify", "poll"} /\ ~asked
    /\ timer # "fired"
    /\ asked' = TRUE
    /\ UNCHANGED <<Given, World, stage, k, timer, last, said, blame, timeline,
                   todo, Evidence>>

\* Mutant (issue #92): only the caller's own timer counts.
ContextIsDone(r) == timer = "fired"

\* interruptedByDeadline: the caller's timer has fired, or the call's own did
\* and the deadline has passed.
InterruptedByDeadline(r) == timer = "fired" \/ (r = "cut" /\ timer = "due")

\* awaitActionable.  "failed" is a probe that did not answer, because the page
\* navigated under it.
Probe ==
    /\ stage = "probe" /\ asked
    /\ \E r \in Replies({"hidden", "covered", "ready", "fatal", "failed"}) :
          /\ said' = IF r = "cut" \/ (r = "failed" /\ timer = "fired") THEN said ELSE r
          /\ \/ r \in {"failed", "cut"} /\ InterruptedByDeadline(r)
                /\ Fail(last) /\ UNCHANGED last
             \/ r \in {"failed", "cut"} /\ ~InterruptedByDeadline(r) /\ Remember("failed")
             \/ r = "fatal" /\ Fail("fatal") /\ UNCHANGED last
             \/ r = "ready" /\ stage' = "mouse" /\ asked' = FALSE
                /\ UNCHANGED <<k, timer, last, blame, timeline, todo>>
             \/ r \in {"hidden", "covered"} /\ Remember(r)
    /\ UNCHANGED <<Given, World, Evidence>>

\* The mouse is sent to the point of the last probe, under the same deadline.
\* A check then reads the state again until it has changed.
Mouse ==
    /\ stage = "mouse"
    /\ \E r \in Replies({"ok", "failed"}) :
          IF r # "ok" THEN Fail("mouse")
          ELSE IF Wanted[k] = "click" THEN Advance
          ELSE stage' = "verify" /\ asked' = TRUE
               /\ UNCHANGED <<k, timer, blame, timeline, todo>>
    /\ last' = Nothing /\ said' = Nothing
    /\ UNCHANGED <<Given, World, Evidence>>

\* setChecked: nothing to do when the state is the wanted one, which a click
\* cannot bring about for a radio button to be unchecked.  Errors are read
\* over until the deadline.
Look ==
    /\ stage = "look" /\ asked
    /\ \E r \in Replies({"absent", "on", "off", "radio", "fatal", "failed"}) :
          \/ r = "on" /\ Advance
          \/ r \in {"fatal", "radio"} /\ Fail(r)
          \/ r = "off" /\ stage' = "probe" /\ UNCHANGED <<k, timer, asked, blame, timeline, todo>>
          \/ r \in {"absent", "failed", "cut"} /\ asked' = FALSE
             /\ UNCHANGED <<stage, k, timer, blame, timeline, todo>>
    /\ UNCHANGED <<Given, World, last, said, Evidence>>

Verify ==
    /\ stage = "verify" /\ asked
    /\ \E r \in Replies({"on", "off", "fatal", "failed"}) :
          \/ r = "on" /\ Advance
          \/ r = "fatal" /\ Fail("unchanged")
          \/ r \in {"off", "failed", "cut"} /\ asked' = FALSE
             /\ UNCHANGED <<stage, k, timer, blame, timeline, todo>>
    /\ UNCHANGED <<Given, World, last, said, Evidence>>

\* pollUntilMatch keeps the last error, the cut of its own deadline included.
Poll ==
    /\ stage = "poll" /\ asked
    /\ \E r \in Replies({"ok", "mismatch", "failed"}) :
          \/ r = "ok" /\ Advance /\ UNCHANGED last
          \/ r # "ok" /\ Remember(r)
    /\ UNCHANGED <<Given, World, said, Evidence>>

\* The deadline comes between two questions.
TooLate ==
    /\ ~asked /\ timer = "fired"
    /\ \/ stage = "probe" /\ Fail(last)
       \/ stage = "look" /\ Fail("absent")
       \/ stage = "verify" /\ Fail("unchanged")
       \/ stage = "poll" /\ \E e \in {last, "cut"} : Fail(e)
    /\ UNCHANGED <<Given, World, last, said, Evidence>>
-----------------------------------------------------------------------------
(* Evidence: capture, retryCapture, readPageState and the files.           *)

Reads == {"shot", "dom", "state"}

\* The attempt at the first of todo is given a timer; the screenshot and the
\* page state begin a capture, with a budget, and the DOM shares the budget of
\* the screenshot.
OpenCapture ==
    /\ todo # <<>> /\ Head(todo) \in Reads /\ tries = 0
    /\ budget' = IF Head(todo) = "dom" THEN budget ELSE NewTimer
    /\ timer' = IF budget' = "fired" THEN "fired" ELSE NewTimer
    /\ tries' = 1
    /\ UNCHANGED <<Given, World, stage, k, asked, last, said, blame, timeline,
                   todo, files>>

\* A call that Chrome never answers, because a navigation replaced its
\* document, ends with the attempt; a screenshot notices the navigation.
CaptureAnswers(read) ==
    {"ok", "failed"} \cup (IF read = "shot" THEN {"navigated"} ELSE {})

\* retryCapture: `expired` looks at the attempt's own timer, so an attempt whose
\* call was cut by the other timer first is not made again.
Retries(r) ==
    /\ r # "ok" /\ budget = "set" /\ tries < CaptureMaxAttempts
    /\ timer = "fired" \/ r = "navigated"

Attempt ==
    /\ todo # <<>> /\ Head(todo) \in Reads /\ tries > 0
    /\ \E r \in Replies(CaptureAnswers(Head(todo))) :
          IF Retries(r)
          THEN /\ timer' = NewTimer /\ tries' = tries + 1
               /\ UNCHANGED <<todo, budget, files>>
          ELSE /\ todo' = Tail(todo) /\ tries' = 0 /\ timer' = "off"
               /\ budget' = IF Head(todo) = "shot" THEN budget ELSE "off"
               /\ files' = IF r = "ok" THEN files \cup {Head(todo)} ELSE files
    /\ UNCHANGED <<Given, World, stage, k, asked, last, said, blame, timeline>>

\* recordSnapshot and browserResponseValues: under the run's deadline only, and
\* their errors are ignored.
Read ==
    /\ todo # <<>> /\ Head(todo) = "read"
    /\ RepliesToRead({"ok", "failed"}) # {}
    /\ todo' = Tail(todo)
    /\ UNCHANGED <<Given, World, stage, k, Waiting, blame, timeline, Evidence>>

\* Mutant: without the page's state nothing more is written.
WriteRecordsOfAnsweringPage ==
    /\ todo # <<>> /\ Head(todo) = "records" /\ todo' = Tail(todo)
    /\ files' = IF "state" \in files THEN files \cup {"console", "network"} ELSE files
    /\ UNCHANGED <<Given, World, stage, k, Waiting, blame, timeline, budget, tries>>

\* The console and the network come from memory.
WriteRecords ==
    /\ todo # <<>> /\ Head(todo) = "records" /\ todo' = Tail(todo)
    /\ files' = files \cup {"console", "network"}
    /\ UNCHANGED <<Given, World, stage, k, Waiting, blame, timeline, budget, tries>>

Report ==
    /\ stage = "report" /\ todo = <<>> /\ stage' = "over"
    /\ UNCHANGED <<Given, World, k, Waiting, blame, timeline, todo, Evidence>>

Finished == stage = "over"
Terminating == Finished /\ UNCHANGED vars

\* A step held where nothing of its own bounds it: at a read, until the run's
\* deadline, and at the start of Chrome, past it.
Held == /\ chrome = "mute"
        /\ \/ stage = "start"
           \/ stage = "perf" /\ deadline = "ahead"
           \/ todo # <<>> /\ Head(todo) = "read" /\ deadline = "ahead"
HeldForever == Held /\ UNCHANGED vars

Work == \/ Open \/ StartChrome \/ Begin \/ Succeed \/ Call \/ Perf \/ Probe \/ Mouse
        \/ Look \/ Verify \/ Poll \/ TooLate \/ OpenCapture \/ Attempt \/ Read
        \/ WriteRecords \/ Report \/ TimePasses \/ BudgetEnds

Next == \/ Work \/ AskAgain \/ ChromeMutes \/ RunDeadline \/ Terminating \/ HeldForever

\* Timers fire, whatever is asked meanwhile, and goroutines run.  Nothing makes
\* the run's deadline pass (there may be none), nor Chrome answer a call; a
\* plain read of an "up" Chrome is taken to be answered in the end.
Spec == Init /\ [][Next]_vars /\ WF_vars(Work) /\ WF_vars(TimePasses)
-----------------------------------------------------------------------------
(* Properties.                                                             *)

Stages == {"open", "start", "begin", "probe", "mouse", "look", "verify", "poll",
           "call", "perf", "report", "over"}

\* The step, its timers and its evidence have their types.
TypeOK ==
    /\ form \in Forms /\ shots \in CaptureModes
    /\ chrome \in {"up", "mute"} /\ deadline \in {"ahead", "past"}
    /\ stage \in Stages /\ k \in 1..(Len(Wanted) + 1)
    /\ timer \in {"off", "set", "due", "fired"} /\ budget \in {"off", "set", "fired"}
    /\ tries \in 0..CaptureMaxAttempts
    /\ files \subseteq (Reads \cup {"console", "network"})

\* A click, hover, check or uncheck that runs out of time blames what the page
\* last said of the element ("covered by ..."), and nothing when it never said
\* a thing: the cut of the action's own deadline never takes its place
\* (awaitActionable, issue #92), nor an error that comes when it is over.
BlameIsTrue ==
    blame \in {"hidden", "covered", "failed", Nothing} /\ stage \in {"report", "over"}
    /\ k <= Len(Wanted) /\ Wanted[k] \in Pointers
        => blame = said

\* A failed step is written up with the console and the network that led to it,
\* even when the page has stopped answering or the run is over; and its
\* timeline has every action, those never reached included.
FailureIsDocumented ==
    stage = "over" /\ k <= Len(Wanted) /\ blame # "start" =>
        /\ shots # "none" => {"console", "network"} \subseteq files
        /\ Len(timeline) = Len(form.actions)
        /\ \A j \in DOMAIN timeline :
              timeline[j] = IF j < k THEN "pass" ELSE IF j = k THEN "fail" ELSE "skipped"

\* A step ends, whatever the page does to its captures and waits: only a Chrome
\* that stops answering holds it, while it starts, or, before the run's deadline
\* if there is one, at one of the reads that have no deadline of their own.
StepSettles == <>Finished \/ <>[]Held
=============================================================================
