----------------------------- MODULE MobileStep -----------------------------
(***************************************************************************)
(* One mobile step on one session, from the launch to its captures, with   *)
(* the retries of the step: the calls made to the driver, the polling      *)
(* waits and what they remember, the timeline of actions, the failure      *)
(* artifacts, and the accessibility tree kept for value() and text().      *)
(*                                                                         *)
(* The driver process may die at any moment and the run may be cancelled   *)
(* at any moment.  A session stays cached after the death of its driver,   *)
(* so every attempt runs on the same one.                                  *)
(***************************************************************************)
EXTENDS Naturals, Sequences, FiniteSets

CONSTANTS Steps,     \* the steps to run: see AStep
          Modes,     \* the capture modes of the provider
          Attempts,  \* retry.attempts
          MaxPolls   \* bound on the attempts of one wait

VARIABLES
    step, mode,  \* chosen once
    driver,      \* "up" or "dead"
    run,         \* "going", or "over" once the run's context has ended
    pc,          \* where the attempt is
    attempt,     \* its number
    i,           \* the action or expectation it is at
    left,        \* the plain calls it still has to make there
    w,           \* what the current wait remembers
    results,     \* output.ActionResults
    err,         \* the error of the attempt
    tree,        \* the attempt that recorded the last hierarchy, 0 for none
    arts,        \* the artifacts of the attempt
    log,         \* (history) what the current wait was answered
    diedBefore   \* (history) the driver was dead when the attempt started

vars == <<step, mode, driver, run, pc, attempt, i, left, w, results, err,
          tree, arts, log, diedBefore>>
Fixed == <<step, mode>>
World == <<driver, run>>

None == "none"
-----------------------------------------------------------------------------
(* What a step asks for.                                                   *)

DeviceKinds == {"device"}             \* press_key, press_button, ...
ElementKinds == {"tap", "type", "clear"}
StateKinds == {"state"}               \* text, value, enabled, disabled
Kinds == DeviceKinds \cup ElementKinds \cup StateKinds \cup {"shown", "gone", "scroll"}

AStep == [launch : {"no", "host", "driver"}, perms : Nat, actions : Seq(Kinds),
          expects : Seq(Kinds), terminate : BOOLEAN, capture : BOOLEAN]

\* The plain calls before the first action: the app's state is cleared or the
\* app installed, permissions are set, and the app is launched by the host and
\* activated, or launched by the driver.
Preparation(s) ==
    LET permissions == [k \in 1..s.perms |-> "host"]
    IN CASE s.launch = "no"     -> permissions
         [] s.launch = "host"   -> <<"host">> \o permissions \o <<"host", "drv">>
         [] s.launch = "driver" -> <<"host">> \o permissions \o <<"drv">>

Asks == step.actions \o step.expects
IsAction(k) == k <= Len(step.actions)

\* How many driver calls an action makes once its element is there: typing
\* taps first unless the field takes pasted text, and clearing an empty secure
\* field makes none.
CallCounts(kind) == CASE kind = "type"  -> {1, 2}
                      [] kind = "clear" -> {0, 2}
                      [] OTHER          -> {1}

FreshWait == [polls |-> 1, pos |-> "ask", late |-> FALSE, mismatch |-> FALSE,
              lastErr |-> None, cutOff |-> FALSE, fetched |-> FALSE]

Init ==
    /\ step \in Steps /\ mode \in Modes
    /\ driver = "up" /\ run = "going"
    /\ pc = "failed" /\ attempt = 0 /\ i = 0
    /\ left = <<>> /\ w = FreshWait
    /\ results = <<>> /\ err = None
    /\ tree = 0 /\ arts = {}
    /\ log = <<>> /\ diedBefore = FALSE
-----------------------------------------------------------------------------
(* The surroundings.                                                       *)

DriverDies == /\ driver = "up" /\ driver' = "dead"
              /\ UNCHANGED <<Fixed, run, pc, attempt, i, left, w, results, err,
                             tree, arts, log, diedBefore>>

RunEnds == /\ run = "going" /\ run' = "over"
           /\ UNCHANGED <<Fixed, driver, pc, attempt, i, left, w, results, err,
                          tree, arts, log, diedBefore>>

\* How a plain call may end.  "host" goes to simctl or adb, "drv" to the
\* driver process over HTTP.
Outcomes(call) ==
    IF run = "over" THEN {"cancelled"}
    ELSE IF call = "drv" /\ driver = "dead" THEN {"refused"}
    ELSE {"ok", "error"}
-----------------------------------------------------------------------------
(* Attempts.                                                               *)

StartAttempt ==
    /\ pc = "failed" /\ attempt < Attempts
    /\ pc' = "prep" /\ attempt' = attempt + 1 /\ i' = 1
    /\ left' = Preparation(step)
    /\ results' = <<>> /\ err' = None /\ arts' = {}
    /\ log' = <<>> /\ diedBefore' = (driver = "dead")
    /\ UNCHANGED <<Fixed, World, w, tree>>

\* The pause before a retry ends with the run: no further attempt.
RetryInterrupted ==
    /\ pc = "failed" /\ attempt \in 1..(Attempts - 1) /\ run = "over"
    /\ pc' = "stopped" /\ err' = "interrupted" /\ log' = <<>>
    /\ UNCHANGED <<Fixed, World, attempt, i, left, w, results, tree, 
                   arts, diedBefore>>

\* The attempt fails with e.  A failing action is followed in the timeline by
\* the actions that were queued behind it.
FailWith(e) ==
    /\ err' = e /\ pc' = "salvage" /\ left' = <<>>
    /\ results' = IF IsAction(i) /\ pc # "prep"
                  THEN results \o <<"fail">>
                       \o [k \in 1..(Len(step.actions) - i) |-> "skip"]
                  ELSE results

Call ==
    /\ left # <<>>
    /\ \E o \in Outcomes(Head(left)) :
          IF o = "ok" THEN left' = Tail(left) /\ UNCHANGED <<pc, err, results>>
                      ELSE FailWith(o)
    /\ UNCHANGED <<Fixed, World, attempt, i, w, tree, arts, log,
                   diedBefore>>

\* What comes at position k: the end-of-step capture sits between the actions
\* and the expectations.
Arrive(k) == IF k = Len(step.actions) + 1 THEN "stepend" ELSE "begin"

Prepared ==
    /\ pc = "prep" /\ left = <<>> /\ pc' = Arrive(1)
    /\ UNCHANGED <<Fixed, World, attempt, i, left, w, results, err, tree, 
                   arts, log, diedBefore>>

\* captureStepEnd: only in the mode "steps", and only when the screenshot or
\* the hierarchy could be taken.  Its errors are swallowed.
StepEnd ==
    /\ pc = "stepend" /\ pc' = "begin"
    /\ \/ mode = "steps" /\ results' = Append(results, "step_end")
       \/ UNCHANGED results
    /\ UNCHANGED <<Fixed, World, attempt, i, left, w, err, tree, arts,
                   log, diedBefore>>

Begin ==
    /\ pc = "begin"
    /\ IF i > Len(Asks) THEN pc' = "tree" /\ UNCHANGED <<left, w>>
       ELSE IF Asks[i] \in DeviceKinds
            THEN pc' = "act" /\ left' = <<"drv">> /\ UNCHANGED w
            ELSE pc' = "wait" /\ w' = FreshWait /\ UNCHANGED left
    /\ log' = <<>>
    /\ UNCHANGED <<Fixed, World, attempt, i, results, err, tree, arts,
                   diedBefore>>

\* The ask at i is satisfied.
Advance ==
    /\ results' = IF IsAction(i) THEN Append(results, "pass") ELSE results
    /\ i' = i + 1 /\ pc' = IF IsAction(i) THEN Arrive(i + 1) ELSE "begin"

Acted ==
    /\ pc = "act" /\ left = <<>>
    /\ Advance
    /\ UNCHANGED <<Fixed, World, attempt, left, w, err, tree, arts, log,
                   diedBefore>>
-----------------------------------------------------------------------------
(* Waits: poll and pollState.                                              *)

WaitOver == w.late \/ run = "over"
OwnErrors == {"error", "refused", "duplicate"}

\* An answer of the driver about the element: absent, there but not as the
\* wait wants it (hidden, disabled, another text), or as it wants it.  A
\* scroll_to is answered yes, or 404, which is an error.
Answers(kind) == IF kind = "scroll" THEN {"on", "error"}
                 ELSE {"absent", "off", "on", "error", "duplicate"}

\* What the attempt at the element may come back with.  Once the wait is over
\* its request is cut short, unless the answer had already arrived.
Replies(kind) ==
    IF w.pos = "late" THEN {"cut"}
    ELSE (IF driver = "dead" THEN {"refused"} ELSE Answers(kind))
         \cup (IF WaitOver THEN {"cut"} ELSE {})

\* Mutant: an element that cannot be looked up is gone.
UnresolvedIsGone(kind, reply) ==
    IF kind = "gone" THEN reply # "on" ELSE reply = "on"

Satisfied(kind, reply) ==
    IF kind = "gone" THEN reply \in {"absent", "off"} ELSE reply = "on"

\* Mutant: the request the deadline cut short is an error like another.
ObserveCutAsError(kind, reply) ==
    LET clean == reply \in {"absent", "off", "on"}
    IN [w EXCEPT !.pos = "pause",
                 !.lastErr = IF clean THEN None ELSE reply,
                 !.mismatch = @ \/ (kind \in StateKinds /\ reply = "off")]

\* pollState.observe and hierarchyLog.record
Observe(kind, reply) ==
    LET clean == reply \in {"absent", "off", "on"}
    IN [w EXCEPT
          !.pos = "pause",
          !.cutOff = @ \/ reply = "cut",
          !.lastErr = IF clean THEN None ELSE IF reply = "cut" THEN @ ELSE reply,
          !.mismatch = @ \/ (kind \in StateKinds /\ reply = "off"),
          !.fetched = @ \/ (kind # "scroll" /\ (clean \/ reply = "duplicate"))]

Poll ==
    /\ pc = "wait" /\ w.pos \in {"ask", "late"}
    /\ \E reply \in Replies(Asks[i]) :
          /\ log' = Append(log, reply)
          /\ IF ~Satisfied(Asks[i], reply)
             THEN w' = Observe(Asks[i], reply) /\ UNCHANGED <<pc, i, left, results>>
             ELSE /\ UNCHANGED w
                  /\ IF Asks[i] \in ElementKinds
                     THEN /\ pc' = "act" /\ UNCHANGED <<i, results>>
                          /\ \E n \in CallCounts(Asks[i]) :
                                left' = [k \in 1..n |-> "drv"]
                     ELSE Advance /\ UNCHANGED left
    /\ UNCHANGED <<Fixed, World, attempt, err, tree, arts, diedBefore>>

WaitDeadline ==
    /\ pc = "wait" /\ ~w.late /\ w' = [w EXCEPT !.late = TRUE]
    /\ UNCHANGED <<Fixed, World, pc, attempt, i, left, results, err, tree,
                   arts, log, diedBefore>>

\* The ticker fired.  When the deadline has passed as well, select may still
\* take the tick: one more request, made with a context that has ended.
PollAgain ==
    /\ pc = "wait" /\ w.pos = "pause" /\ w.polls < MaxPolls
    /\ w' = [w EXCEPT !.polls = @ + 1, !.pos = IF WaitOver THEN "late" ELSE "ask"]
    /\ UNCHANGED <<Fixed, World, pc, attempt, i, left, results, err, tree,
                   arts, log, diedBefore>>

\* pollState.outcome, then waitFailure.
Verdict == IF w.mismatch THEN "mismatch"
           ELSE IF w.lastErr # None THEN w.lastErr
           ELSE IF run = "over" THEN "interrupted"
           ELSE IF w.cutOff /\ ~w.fetched THEN "unanswered"
           ELSE "expired"

\* Mutant: only the end of the run ends a wait.
GiveUpWithRun ==
    /\ pc = "wait" /\ w.pos = "pause" /\ run = "over"
    /\ FailWith(Verdict)
    /\ UNCHANGED <<Fixed, World, attempt, i, w, tree, arts, log,
                   diedBefore>>

GiveUp ==
    /\ pc = "wait" /\ w.pos = "pause" /\ WaitOver
    /\ FailWith(Verdict)
    /\ UNCHANGED <<Fixed, World, attempt, i, w, tree, arts, log,
                   diedBefore>>
-----------------------------------------------------------------------------
(* The end of an attempt.                                                  *)

\* finalizeStep fetches the tree for the captures; an error is ignored.
RecordTree ==
    /\ pc = "tree" /\ pc' = "end"
    /\ \E o \in Outcomes("drv") : tree' = IF o = "ok" THEN attempt ELSE tree
    /\ left' = IF step.terminate THEN <<"drv">> ELSE <<>>
    /\ UNCHANGED <<Fixed, World, attempt, i, w, results, err, arts, log,
                   diedBefore>>

\* value() and text() answer from the last tree recorded for this scenario
\* and step name, and fail when there is none or the element is not in it.
\* A failing capture leaves no failure artifact: the provider has returned.
Capture ==
    /\ pc = "end" /\ left = <<>>
    /\ IF ~step.capture
       THEN pc' = "passed" /\ UNCHANGED err
       ELSE \/ tree # 0 /\ pc' = "passed" /\ UNCHANGED err
            \/ pc' = "failed" /\ err' = "capture"
    /\ UNCHANGED <<Fixed, World, attempt, i, left, w, results, tree, arts, log,
                   diedBefore>>

DriverDeathArtifacts(e) == IF e = "refused" THEN {<<"driver_log", 0>>} ELSE {}

\* writeFailureArtifacts: up to three fetches of the tree, else the last one
\* recorded.  Then the logs of a driver that looks dead.
Salvage ==
    /\ pc = "salvage" /\ pc' = "failed"
    /\ \E o \in Outcomes("drv") :
          /\ tree' = IF mode # "none" /\ o = "ok" THEN attempt ELSE tree
          /\ arts' = (IF mode # "none" /\ tree' # 0 THEN {<<"hierarchy", tree'>>}
                                                   ELSE {})
                     \cup DriverDeathArtifacts(err)
    /\ UNCHANGED <<Fixed, World, attempt, i, left, w, results, err, log,
                   diedBefore>>

Idle == \/ pc \in {"passed", "stopped"}
        \/ pc = "failed" /\ attempt = Attempts
Terminating == Idle /\ UNCHANGED vars

Work == \/ StartAttempt \/ RetryInterrupted \/ Call \/ Prepared \/ StepEnd
        \/ Begin \/ Acted \/ Poll \/ WaitDeadline \/ GiveUp
        \/ RecordTree \/ Capture \/ Salvage

Next == \/ Work \/ PollAgain \/ DriverDies \/ RunEnds \/ Terminating

\* Each request has its own timeout and each wait its deadline, so the step
\* always has a step to take; the ticker is not needed for progress.
Spec == Init /\ [][Next]_vars /\ WF_vars(Work)
-----------------------------------------------------------------------------
(* Properties.                                                             *)

Verdicts == {"mismatch", "error", "refused", "duplicate", "interrupted",
             "unanswered", "expired"}

\* The step, its timeline and what a wait remembers have their types.
TypeOK ==
    /\ step \in Steps /\ mode \in Modes
    /\ driver \in {"up", "dead"} /\ run \in {"going", "over"}
    /\ pc \in {"prep", "stepend", "begin", "wait", "act", "tree", "end",
               "salvage", "passed", "failed", "stopped"}
    /\ attempt \in 0..Attempts /\ tree \in 0..attempt
    /\ i \in 0..(Len(Asks) + 1)
    /\ left \in Seq({"host", "drv"})
    /\ err \in Verdicts \cup {None, "cancelled", "capture"}
    /\ results \in Seq({"pass", "fail", "skip", "step_end"})
    /\ diedBefore \in BOOLEAN

Said == {log[k] : k \in DOMAIN log}
OwnAnswers == {k \in DOMAIN log : log[k] # "cut"}
LastOwn == log[CHOOSE k \in OwnAnswers : \A m \in OwnAnswers : m <= k]

\* What ended a wait, told from everything the driver answered meanwhile
\* rather than from the four things pollState keeps: a mismatch is reported
\* when one was read; else the driver is blamed when its last own answer was
\* an error; else the run, when it was cancelled; else silence, when nothing
\* but requests cut short came back.  Otherwise the element never came.
TrueVerdict(kind) ==
    IF kind \in StateKinds /\ "off" \in Said THEN "mismatch"
    ELSE IF OwnAnswers # {} /\ LastOwn \in OwnErrors THEN LastOwn
    ELSE IF run = "over" THEN "interrupted"
    ELSE IF Said = {"cut"} THEN "unanswered"
    ELSE "expired"

\* A wait that gives up tells the truth about why (poll, pollState and
\* waitFailure, issue #73): the request its own deadline cancelled is never
\* the reason when the driver was answering.
VerdictIsTrue ==
    (pc = "wait" /\ w.pos = "pause" /\ WaitOver) => Verdict = TrueVerdict(Asks[i])

\* A driver dead since before the attempt (its session is still cached) never
\* lets it pass when it asks the driver for anything, and the waits blame the
\* driver, the clock or the run, never the app.  A refused connection leads to
\* the driver's logs, whatever the capture mode.
DeadDriverIsNotHidden ==
    /\ diedBefore =>
          /\ pc = "passed" => /\ Asks = <<>> /\ ~step.terminate
                              /\ step.launch = "no"
          /\ err \notin {"mismatch", "duplicate", "expired"}
    /\ pc = "failed" /\ err = "refused" => <<"driver_log", 0>> \in arts

\* The timeline adds up: no entry when the launch failed; else the actions that
\* passed in order, then at most one that failed with every action queued
\* behind it marked as skipped, or the end-of-step capture.
TimelineAddsUp ==
    pc \in {"salvage", "failed", "passed"} /\ attempt > 0 =>
        LET n == Len(step.actions)
            Passes(k) == [m \in 1..k |-> "pass"]
            failing == IsAction(i) /\ err # None
        IN \/ results = <<>>
           \/ failing /\ results = Passes(i - 1) \o <<"fail">>
                                       \o [m \in 1..(n - i) |-> "skip"]
           \/ ~failing /\ results \in {Passes(n), Append(Passes(n), "step_end")}

\* Every step ends, whatever the driver answers.
StepEnds == <>[]Idle
=============================================================================
