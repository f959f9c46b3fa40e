----------------------------- MODULE AppleDriver -----------------------------
(***************************************************************************)
(* The build cache of the embedded Apple driver and the start of a driver   *)
(* from it (embeddeddriver.Manager, Lifecycle.startEmbeddedDriver).         *)
(*                                                                         *)
(* Each process of Procs is one session being built: a goroutine of some    *)
(* tales command, all of them with the same cache key, hence the same       *)
(* directory.  Prepare holds the file lock; InvalidateBuild does not, and   *)
(* neither does the driver that is started from the directory.  A process   *)
(* may be killed at any moment, and its command run again.                  *)
(***************************************************************************)
EXTENDS Naturals

CONSTANTS Procs,      \* the sessions that share one cache directory
          MaxFailures \* bound on builds and starts that fail, and on kills

VARIABLES
    lock,       \* who holds the file lock: nobody or one process
    source,     \* the extracted tree: "none", "part" or "whole"
    extractOK,  \* its marker is there
    products,   \* the number of the build on the disk, 0 for none or half of one
    buildOK,    \* the build its marker names, 0 for none
    linked,     \* the marker being written still has its name
    builds,     \* builds completed so far
    at,         \* where each process is
    try,        \* its first or its second start
    got,        \* the build its Prepare returned
    failed,     \* (history) the build its first start failed with
    failures    \* failures and kills so far

vars == <<lock, source, extractOK, products, buildOK, linked, builds, at, try,
          got, failed, failures>>
Disk == <<source, extractOK, products, buildOK, linked, builds>>

Missing == 0

Init ==
    /\ lock = {}
    /\ source = "none" /\ extractOK = FALSE
    /\ products = 0 /\ buildOK = Missing
    /\ linked = FALSE /\ builds = 0
    /\ at = [p \in Procs |-> "prepare"] /\ try = [p \in Procs |-> 1]
    /\ got = [p \in Procs |-> 0] /\ failed = [p \in Procs |-> 0]
    /\ failures = 0

Goto(p, next) == at' = [at EXCEPT ![p] = next]
Fails == failures < MaxFailures /\ failures' = failures + 1
-----------------------------------------------------------------------------
(* Prepare.                                                                *)

\* Mutant: the lock keeps nobody out.
AcquireAnyway(p) ==
    /\ at[p] = "prepare" /\ lock' = {p}
    /\ Goto(p, "extract")
    /\ UNCHANGED <<Disk, try, got, failed, failures>>

Acquire(p) ==
    /\ at[p] = "prepare" /\ lock = {} /\ lock' = {p}
    /\ Goto(p, "extract")
    /\ UNCHANGED <<Disk, try, got, failed, failures>>

\* ensureExtracted: the marker and the project file together.
Extracted(p) ==
    /\ at[p] = "extract" /\ extractOK /\ source # "none"
    /\ Goto(p, "check")
    /\ UNCHANGED <<lock, Disk, try, got, failed, failures>>

\* Extract writes the tree beside, removes the old one and renames; a kill
\* during the removal leaves part of the old one.
ClearSource(p) ==
    /\ at[p] = "extract" /\ ~(extractOK /\ source # "none")
    /\ source' = IF source = "none" THEN "none" ELSE "part"
    /\ Goto(p, "rename")
    /\ UNCHANGED <<lock, extractOK, products, buildOK, linked, builds, try, got, failed,
                   failures>>

RenameSource(p) ==
    /\ at[p] = "rename" /\ source' = "whole" /\ Goto(p, "mark source")
    /\ UNCHANGED <<lock, extractOK, products, buildOK, linked, builds, try, got, failed,
                   failures>>

MarkSource(p) ==
    /\ at[p] = "mark source" /\ extractOK' = TRUE /\ Goto(p, "check")
    /\ UNCHANGED <<lock, source, products, buildOK, linked, builds, try, got, failed,
                   failures>>

\* ensureBuilt with a marker: it names the test run file, which must exist.
Release(p) == lock' = {} /\ Goto(p, "start")
Built(p) ==
    /\ at[p] = "check" /\ buildOK \in 1..builds /\ products # 0
    /\ got' = [got EXCEPT ![p] = products]
    /\ Release(p)
    /\ UNCHANGED <<Disk, try, failed, failures>>

\* Otherwise the marker goes, and the products of the last build with it.
BeginBuild(p) ==
    /\ at[p] = "check" /\ ~(buildOK \in 1..builds /\ products # 0)
    /\ buildOK' = Missing /\ products' = 0 /\ Goto(p, "build")
    /\ UNCHANGED <<lock, source, extractOK, linked, builds, try, got, failed, failures>>

EndBuild(p) ==
    /\ at[p] = "build"
    /\ products' = builds + 1 /\ builds' = builds + 1 /\ Goto(p, "open")
    /\ UNCHANGED <<lock, source, extractOK, buildOK, linked, try, got, failed, failures>>

\* The build fails, or the run is cancelled and takes xcodebuild with it.
BuildFails(p) ==
    /\ at[p] = "build" /\ Fails
    /\ lock' = {} /\ Goto(p, "failed")
    /\ UNCHANGED <<Disk, try, got, failed>>

\* os.WriteFile creates the marker, then writes it.
OpenMarker(p) ==
    /\ at[p] = "open" /\ linked' = TRUE /\ Goto(p, "mark")
    /\ UNCHANGED <<lock, source, extractOK, products, buildOK, builds, try, got, failed,
                   failures>>

\* Mutant: the build is never marked.
WriteNoMarker(p) ==
    /\ at[p] = "mark"
    /\ got' = [got EXCEPT ![p] = products]
    /\ Release(p)
    /\ UNCHANGED <<Disk, try, failed, failures>>

\* What was created may have been removed meanwhile by an InvalidateBuild: then
\* the name is written to a file that has none.
WriteMarker(p) ==
    /\ at[p] = "mark"
    /\ buildOK' = IF linked THEN products ELSE Missing
    /\ got' = [got EXCEPT ![p] = products]
    /\ Release(p)
    /\ UNCHANGED <<source, extractOK, products, linked, builds, try, failed,
                   failures>>
-----------------------------------------------------------------------------
(* The start, and the one retry.                                           *)

StartSucceeds(p) ==
    /\ at[p] = "start" /\ products # 0 /\ Goto(p, "up")
    /\ UNCHANGED <<lock, Disk, try, got, failed, failures>>

\* The driver does not become healthy; it certainly does not when another
\* process is rebuilding what it starts from.
StartFails(p) ==
    /\ at[p] = "start"
    /\ products = 0 \/ failures < MaxFailures
    /\ failures' = failures + 1
    /\ failed' = [failed EXCEPT ![p] = IF try[p] = 1 THEN got[p] ELSE @]
    /\ Goto(p, IF try[p] = 1 THEN "invalidate" ELSE "failed")
    /\ UNCHANGED <<lock, Disk, try, got>>

\* Mutant: the second attempt starts from what the first one started from.
InvalidateNothing(p) ==
    /\ at[p] = "invalidate" /\ Goto(p, "prepare")
    /\ try' = [try EXCEPT ![p] = 2]
    /\ UNCHANGED <<lock, Disk, got, failed, failures>>

\* InvalidateBuild takes no lock.
Invalidate(p) ==
    /\ at[p] = "invalidate" /\ Goto(p, "prepare")
    /\ buildOK' = Missing /\ linked' = FALSE
    /\ try' = [try EXCEPT ![p] = 2]
    /\ UNCHANGED <<lock, source, extractOK, products, builds, got, failed,
                   failures>>

\* A kill releases the lock, and may catch the removal of the old tree half way.
Kill(p) ==
    /\ at[p] \notin {"up", "failed", "down"} /\ Fails
    /\ Goto(p, "down")
    /\ lock' = lock \ {p}
    /\ source' \in IF at[p] = "rename" THEN {source, "none"} ELSE {source}
    /\ UNCHANGED <<extractOK, products, buildOK, linked, builds, try, got, failed>>

Restart(p) ==
    /\ at[p] = "down" /\ Goto(p, "prepare")
    /\ try' = [try EXCEPT ![p] = 1]
    /\ got' = [got EXCEPT ![p] = 0] /\ failed' = [failed EXCEPT ![p] = 0]
    /\ UNCHANGED <<lock, Disk, failures>>

Work(p) ==
    \/ Acquire(p) \/ Extracted(p) \/ ClearSource(p) \/ RenameSource(p)
    \/ MarkSource(p) \/ Built(p) \/ BeginBuild(p) \/ EndBuild(p)
    \/ OpenMarker(p) \/ WriteMarker(p) \/ StartSucceeds(p) \/ StartFails(p)
    \/ Invalidate(p) \/ Restart(p)

Settled == \A p \in Procs : at[p] \in {"up", "failed"}
Terminating == Settled /\ UNCHANGED vars

Next == (\E p \in Procs : Work(p) \/ BuildFails(p) \/ Kill(p)) \/ Terminating

\* A process runs on unless it is killed, and the kernel hands the lock to one
\* that waits; a process is not starved, for the others ask a bounded number of
\* times.
Spec == Init /\ [][Next]_vars /\ \A p \in Procs : WF_vars(Work(p))
-----------------------------------------------------------------------------
(* Properties.                                                             *)

Places == {"prepare", "extract", "rename", "mark source", "check", "build",
           "open", "mark", "start", "invalidate", "up", "failed", "down"}
Locked == {"extract", "rename", "mark source", "check", "build", "open", "mark"}

\* The cache and the processes have their types.
TypeOK ==
    /\ lock \subseteq Procs
    /\ source \in {"none", "part", "whole"} /\ extractOK \in BOOLEAN
    /\ builds \in Nat /\ products \in 0..builds
    /\ buildOK \in 0..builds /\ linked \in BOOLEAN
    /\ at \in [Procs -> Places] /\ try \in [Procs -> {1, 2}]
    /\ got \in [Procs -> 0..builds] /\ failed \in [Procs -> 0..builds]
    /\ failures \in Nat

\* Whenever the lock is free, a marker stands for the whole thing: whatever
\* was killed, and wherever an InvalidateBuild fell, build.ok names the
\* products that are on the disk, and they were built from a whole source.
MarkersTellTheTruth ==
    /\ extractOK => source = "whole"
    /\ buildOK \in 1..builds => buildOK = products /\ extractOK

\* The retry never runs the build that failed (apple.go, "invalidate the
\* cached build, force a rebuild, and try again"), though others build,
\* invalidate and read the same directory meanwhile.
RetryIsFresh ==
    \A p \in Procs : at[p] = "start" /\ try[p] = 2 => got[p] # failed[p]

\* No storm of rebuilds: a build is made once, and again only for a failure, a
\* kill, or a start that found another process rebuilding.
BuildsAreAccountedFor ==
    builds <= 1 + failures

\* Every session comes up or fails: nobody waits for the lock for ever, kills
\* included.
EveryoneSettles == \A p \in Procs : <>[](at[p] \in {"up", "failed"})
=============================================================================
