---------------------------- MODULE AndroidDriver ----------------------------
(***************************************************************************)
(* The Android driver on one device, over the lives of several tales        *)
(* commands of two releases: the install guarded by a marker on the device, *)
(* the forwarded port, the instrumentation and its health check, and what   *)
(* is left when a start fails, a session closes or the command is killed.   *)
(*                                                                         *)
(* Everything goes through adb, which may fail, and does fail once the      *)
(* context of the call has ended.  An instrumentation can outlive its host  *)
(* process, and holds the device's port as long as it does.                 *)
(***************************************************************************)
EXTENDS Naturals

CONSTANTS Versions,  \* the releases of tales: each embeds its own driver
          MaxLives   \* bound on the commands run on the device

VARIABLES
    life,      \* the number of the command
    version,   \* its release
    context,       \* "going", or "over" once its context has ended
    place,        \* where it is in the session
    host,      \* its adb process: "none", "alive" or "dead"
    onDevice,  \* the lives whose instrumentation is alive on the device
    bound,     \* the one that holds the device's port, 0 for none
    app, test, \* the releases of the two driver packages installed
    marker,    \* what the marker on the device says
    forwards,  \* the lives whose port is still forwarded
    answered,  \* the instrumentation that answered the health check
    excuse,    \* (history) the lives that lost their forward to adb or a kill
    cut        \* (history) an install has been cut short

vars == <<life, version, context, place, host, onDevice, bound, app, test,
          marker, forwards, answered, excuse, cut>>
Device == <<onDevice, bound, app, test, marker>>
Installed == <<app, test, marker>>
Command == <<life, version, context>>
History == <<excuse, cut>>

None == "none"

Init ==
    /\ life = 1 /\ version \in Versions /\ context = "going"
    /\ place = "stop old" /\ host = "none"
    /\ onDevice = {} /\ bound = 0
    /\ app = None /\ test = None /\ marker = None
    /\ forwards = {} /\ answered = 0 /\ excuse = {} /\ cut = FALSE

\* How an adb call may end.
Adb == IF context = "over" THEN {"error"} ELSE {"ok", "error"}
-----------------------------------------------------------------------------
(* The surroundings.                                                       *)

RunEnds ==
    /\ context = "going" /\ context' = "over"
    /\ UNCHANGED <<life, version, place, host, Device, forwards, answered, History>>

Unbind(gone) == /\ onDevice' = onDevice \ gone
                /\ bound' = IF bound \in gone THEN 0 ELSE bound

\* An instrumentation without its host process ends on its own, in time.
Fades ==
    /\ \E l \in onDevice :
          /\ l # life \/ host # "alive"
          /\ Unbind({l})
    /\ UNCHANGED <<Command, place, host, Installed, forwards, answered, History>>

\* The command is killed outright, or has ended: another one is run.
Rerun ==
    /\ life < MaxLives /\ life' = life + 1
    /\ version' \in Versions /\ context' = "going"
    /\ place' = "stop old" /\ host' = "none" /\ answered' = 0
    /\ excuse' = IF place \in {"failed", "closed"} THEN excuse
                                                   ELSE excuse \cup {life}
    /\ cut' = (cut \/ place \in {"install test", "mark"})
    /\ UNCHANGED <<Device, forwards>>
-----------------------------------------------------------------------------
(* EnsureDriver.                                                           *)

\* One adb call: on to the next, or the session is not built.
Step(from, next, done) ==
    /\ place = from
    /\ \E o \in Adb : IF o = "ok" THEN place' = next /\ done /\ UNCHANGED cut
                      ELSE /\ place' = "failed" /\ UNCHANGED Device
                           /\ cut' = (cut \/ from = "install test")
    /\ UNCHANGED <<Command, host, forwards, answered, excuse>>

\* Mutant: the .test package alone is stopped, the driver's code runs in the
\* process of the other.
StopTestPackage == Step("stop old", "look", UNCHANGED Device)

\* TerminateDriverRunner force-stops both packages.
StopOld ==
    Step("stop old", "look",
         Unbind(onDevice) /\ UNCHANGED Installed)

\* The packages are taken for this release's when the marker says so and one
\* is there; a failing call means an install.
Look ==
    /\ place = "look"
    /\ \/ context = "going" /\ marker = version /\ test # None /\ place' = "forward"
       \/ place' = "install app"
    /\ UNCHANGED <<Command, host, Device, forwards, answered, History>>

InstallApp ==
    Step("install app", "install test",
         app' = version /\ UNCHANGED <<onDevice, bound, test, marker>>)

InstallTest ==
    Step("install test", "mark",
         test' = version /\ UNCHANGED <<onDevice, bound, app, marker>>)

\* The error of the write is ignored.
Mark ==
    /\ place = "mark" /\ place' = "forward"
    /\ \E o \in Adb : marker' = IF o = "ok" THEN version ELSE marker
    /\ UNCHANGED <<Command, host, onDevice, bound, app, test, forwards,
                   answered, History>>

Forward ==
    /\ place = "forward"
    /\ \E o \in Adb :
          IF o = "ok" THEN place' = "spawn" /\ forwards' = forwards \cup {life}
                      ELSE place' = "failed" /\ UNCHANGED forwards
    /\ UNCHANGED <<Command, host, Device, answered, History>>

\* Spawn detaches the process from the context.  The instrumentation that
\* finds the port taken goes on without it.
Spawn ==
    /\ place = "spawn"
    /\ \/ /\ host' = "alive" /\ place' = "health"
          /\ onDevice' = onDevice \cup {life}
          /\ bound' = IF bound = 0 THEN life ELSE bound
       \/ place' = "undo" /\ UNCHANGED <<host, onDevice, bound>>
    /\ UNCHANGED <<Command, Installed, forwards, answered, History>>

\* waitForHealth: whoever holds the port answers.
Healthy ==
    /\ place = "health" /\ context = "going" /\ bound # 0
    /\ answered' = bound /\ place' = "up"
    /\ UNCHANGED <<Command, host, Device, forwards, History>>

\* Mutant: the process is left running.
UnhealthyUnstopped ==
    /\ place = "health" /\ place' = "undo"
    /\ UNCHANGED <<Command, host, Device, forwards, answered, History>>

\* The startup timeout, or the end of the run.
Unhealthy ==
    /\ place = "health" /\ host' = "dead" /\ place' = "undo"
    /\ UNCHANGED <<Command, Device, forwards, answered, History>>

\* RemoveForward, its outcome ignored.
DropForward(outcomes) ==
    /\ \E o \in outcomes :
          IF o = "ok" THEN forwards' = forwards \ {life} /\ UNCHANGED excuse
                      ELSE UNCHANGED forwards /\ excuse' = excuse \cup {life}
    /\ UNCHANGED cut

Undo ==
    /\ place = "undo" /\ place' = "failed" /\ DropForward(Adb)
    /\ UNCHANGED <<Command, host, Device, answered>>
-----------------------------------------------------------------------------
(* Close, on a context of its own: the host process, then the forward, then *)
(* whatever is left on the device.                                         *)

StopHost ==
    /\ place = "up" /\ host' = "dead" /\ place' = "stop runner"
    /\ DropForward({"ok", "error"})
    /\ UNCHANGED <<Command, Device, answered>>

StopRunner ==
    /\ place = "stop runner" /\ place' = "closed"
    /\ \/ Unbind(onDevice)
       \/ UNCHANGED <<onDevice, bound>>
    /\ UNCHANGED <<Command, host, Installed, forwards, answered, History>>

Build == \/ StopOld \/ Look \/ InstallApp \/ InstallTest \/ Mark \/ Forward
         \/ Spawn \/ Healthy \/ Unhealthy \/ Undo \/ StopHost \/ StopRunner

Settled == place \in {"failed", "closed"}
Terminating == Settled /\ life = MaxLives /\ UNCHANGED vars

Next == Build \/ Fades \/ RunEnds \/ Rerun \/ Terminating

\* Every call to adb and every wait ends.
Spec == Init /\ [][Next]_vars /\ WF_vars(Build)
-----------------------------------------------------------------------------
(* Properties.                                                             *)

\* The command, its session and the device have their types.
TypeOK ==
    /\ life \in 1..MaxLives /\ version \in Versions
    /\ context \in {"going", "over"} /\ host \in {"none", "alive", "dead"}
    /\ place \in {"stop old", "look", "install app", "install test", "mark",
               "forward", "spawn", "health", "undo", "up", "stop runner",
               "failed", "closed"}
    /\ onDevice \subseteq 1..life /\ bound \in onDevice \cup {0}
    /\ {app, test, marker} \subseteq Versions \cup {None}
    /\ forwards \subseteq 1..life /\ excuse \subseteq 1..life
    /\ cut \in BOOLEAN
    /\ answered \in 0..life

\* The driver that answers the health check is the one just started, never one
\* left by a killed command that still answers and is about to die
\* (TerminateDriverRunner).
AnsweredByOurs == place = "up" => answered = life

\* A session that was not built, or was closed, leaves no host process, and no
\* forwarded port unless adb itself refused to drop it or the command was
\* killed.
NothingLeftBehind ==
    /\ Settled => host # "alive"
    /\ forwards \subseteq excuse \cup (IF Settled THEN {} ELSE {life})

\* As long as every install went through, a marker that could not be written
\* costs a reinstall at most (android.go: "a failed marker write only costs a
\* reinstall next time"): a release never runs another's driver.
RunsItsOwnDriver ==
    ~cut /\ place \in {"health", "up"} => app = version /\ test = version

\* Every session is closed or not built in the end.
SessionSettles == <>[](Settled \/ life < MaxLives)
=============================================================================
