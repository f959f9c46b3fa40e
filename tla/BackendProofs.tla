---------------------------- MODULE BackendProofs ----------------------------
(***************************************************************************)
(* Proofs about the backends of the steps that drive a user interface.     *)
(*                                                                         *)
(* First, how a command comes by a driver of its own: the build cache of   *)
(* the Apple driver, for any number of processes, failures and kills, and  *)
(* the Android driver, for any number of commands. Then the steps: what    *)
(* the recorder of a page keeps of its network, whatever the limits and    *)
(* the traffic; what a browser step blames and writes when it fails; what  *)
(* a mobile step reports, blames and collects, whatever its driver answers.*)
(***************************************************************************)
EXTENDS MCBackends, FiniteSetTheorems, SequenceTheorems, TLAPS

-----------------------------------------------------------------------------
(* A driver of one's own: the build cache of the Apple driver.             *)

\* Who is inside Prepare holds the lock, alone.
Exclusive == \A p \in Procs : at[p] \in Locked => lock = {p}

\* What the holder of the lock knows of the disk: the places it has passed are done,
\* and nobody undoes them.
SourceInPlace ==
    \A p \in Procs :
        /\ at[p] = "rename" => ~extractOK
        /\ at[p] = "mark source" => source = "whole"
        /\ at[p] \in {"check", "build", "open", "mark"} => extractOK
        /\ at[p] \in {"build", "open", "mark"} => buildOK = Missing

\* A build that has no marker yet is one nobody has got, or failed with.
UnmarkedIsNew ==
    \A p, q \in Procs :
        at[q] \in {"open", "mark"} =>
            products # 0 /\ products # got[p] /\ products # failed[p]

\* While a process retries, no marker names the build it failed with.
FailedIsUnmarked ==
    \A p \in Procs : try[p] = 2 => buildOK = Missing \/ buildOK # failed[p]

\* The inductive invariant: the lock, what its holder has done, and what a marker
\* or a build without one may stand for.
IInv ==
    /\ TypeOK /\ Exclusive /\ MarkersTellTheTruth /\ SourceInPlace
    /\ UnmarkedIsNew /\ FailedIsUnmarked /\ RetryIsFresh

\* A marker that names no build stands for nothing.
LEMMA ZeroIsNoBuild == \A n \in Nat : 0 \notin 1..n /\ 0 \notin 1..(n + 1)
  OBVIOUS

\* Every step keeps the types.
LEMMA TypeOKStep ==
  TypeOK /\ [Next]_vars => TypeOK'
<1> SUFFICES ASSUME TypeOK, [Next]_vars PROVE TypeOK'
  OBVIOUS
<1> USE DEF TypeOK, Missing, Disk, Goto, Fails, Release
<1>1. ASSUME NEW p \in Procs, Acquire(p) PROVE TypeOK'
  BY <1>1 DEF Acquire, Places, Locked
<1>2. ASSUME NEW p \in Procs, Extracted(p) PROVE TypeOK'
  BY <1>2 DEF Extracted, Places, Locked
<1>3. ASSUME NEW p \in Procs, ClearSource(p) PROVE TypeOK'
  BY <1>3 DEF ClearSource, Places, Locked
<1>4. ASSUME NEW p \in Procs, RenameSource(p) PROVE TypeOK'
  BY <1>4 DEF RenameSource, Places, Locked
<1>5. ASSUME NEW p \in Procs, MarkSource(p) PROVE TypeOK'
  BY <1>5 DEF MarkSource, Places, Locked
<1>6. ASSUME NEW p \in Procs, Built(p) PROVE TypeOK'
  BY <1>6 DEF Built, Places, Locked
<1>7. ASSUME NEW p \in Procs, BeginBuild(p) PROVE TypeOK'
  <2>1. buildOK' = 0 /\ products' = 0 /\ builds' = builds
    BY <1>7 DEF BeginBuild, Places
  <2>2. products' \in 0..builds' /\ buildOK' \in 0..builds'
    BY <2>1
  <2>3. at' \in [Procs -> Places]
    BY <1>7 DEF BeginBuild, Places
  <2>4. UNCHANGED <<lock, source, extractOK, linked, builds, try, got, failed, failures>>
    BY <1>7 DEF BeginBuild, Places
  <2> QED
    BY <2>1, <2>2, <2>3, <2>4
<1>8. ASSUME NEW p \in Procs, EndBuild(p) PROVE TypeOK'
  <2>1. products' = builds + 1 /\ builds' = builds + 1 /\ buildOK' = buildOK
    BY <1>8 DEF EndBuild, Places
  <2>2. builds' \in Nat /\ products' \in 0..builds' /\ buildOK' \in 0..builds'
    BY <2>1
  <2>3. got' = got /\ failed' = failed
    BY <1>8 DEF EndBuild, Places
  <2>4. got' \in [Procs -> 0..builds'] /\ failed' \in [Procs -> 0..builds']
    BY <2>1, <2>3
  <2>5. at' \in [Procs -> Places]
    BY <1>8 DEF EndBuild, Places
  <2>6. UNCHANGED <<lock, source, extractOK, linked, try, failures>>
    BY <1>8 DEF EndBuild, Places
  <2> QED
    BY <2>1, <2>2, <2>3, <2>4, <2>5, <2>6
<1>9. ASSUME NEW p \in Procs, OpenMarker(p) PROVE TypeOK'
  BY <1>9 DEF OpenMarker, Places, Locked
<1>10. ASSUME NEW p \in Procs, WriteMarker(p) PROVE TypeOK'
  <2>1. buildOK' \in {products, 0} /\ products' = products /\ builds' = builds
    BY <1>10 DEF WriteMarker, Places
  <2>2. products' \in 0..builds' /\ buildOK' \in 0..builds'
    BY <2>1
  <2>3. at' \in [Procs -> Places]
    BY <1>10 DEF WriteMarker, Places
  <2>4. got' \in [Procs -> 0..builds]
    BY <1>10 DEF WriteMarker, Places
  <2>5. lock' = {} /\ UNCHANGED <<source, extractOK, linked, builds, try, failed, failures>>
    BY <1>10 DEF WriteMarker, Places
  <2> QED
    BY <2>1, <2>2, <2>3, <2>4, <2>5
<1>11. ASSUME NEW p \in Procs, StartSucceeds(p) PROVE TypeOK'
  BY <1>11 DEF StartSucceeds, Places, Locked
<1>12. ASSUME NEW p \in Procs, StartFails(p) PROVE TypeOK'
  <2>1. failures' = failures + 1
    BY <1>12 DEF StartFails, Places
  <2>2. failures' \in Nat
    BY <2>1
  <2>3. at' \in [Procs -> Places]
    BY <1>12 DEF StartFails, Places
  <2>4. failed' \in [Procs -> 0..builds]
    BY <1>12 DEF StartFails, Places
  <2>5. UNCHANGED <<lock, source, extractOK, products, buildOK, linked, builds, try, got>>
    BY <1>12 DEF StartFails, Places
  <2> QED
    BY <2>1, <2>2, <2>3, <2>4, <2>5
<1>13. ASSUME NEW p \in Procs, Invalidate(p) PROVE TypeOK'
  <2>1. buildOK' = 0 /\ products' = products /\ builds' = builds
    BY <1>13 DEF Invalidate, Places
  <2>2. products' \in 0..builds' /\ buildOK' \in 0..builds'
    BY <2>1
  <2>3. at' \in [Procs -> Places]
    BY <1>13 DEF Invalidate, Places
  <2>4. try' \in [Procs -> {1, 2}] /\ linked' = FALSE
    BY <1>13 DEF Invalidate, Places
  <2>5. UNCHANGED <<lock, source, extractOK, builds, got, failed, failures>>
    BY <1>13 DEF Invalidate, Places
  <2> QED
    BY <2>1, <2>2, <2>3, <2>4, <2>5
<1>14. ASSUME NEW p \in Procs, Restart(p) PROVE TypeOK'
  <2>1. 0 \in 0..builds
    OBVIOUS
  <2>2. got' \in [Procs -> 0..builds] /\ failed' \in [Procs -> 0..builds]
    BY <1>14, <2>1 DEF Restart
  <2>3. at' \in [Procs -> Places]
    BY <1>14 DEF Restart, Places
  <2>4. try' \in [Procs -> {1, 2}]
    BY <1>14 DEF Restart, Places
  <2>5. UNCHANGED <<lock, Disk, failures>>
    BY <1>14 DEF Restart, Places
  <2> QED
    BY <2>1, <2>2, <2>3, <2>4, <2>5
<1>15. ASSUME NEW p \in Procs, BuildFails(p) PROVE TypeOK'
  <2>1. failures' = failures + 1
    BY <1>15 DEF BuildFails, Places
  <2>2. failures' \in Nat
    BY <2>1
  <2>3. at' \in [Procs -> Places]
    BY <1>15 DEF BuildFails, Places
  <2>4. lock' = {} /\ UNCHANGED <<Disk, try, got, failed>>
    BY <1>15 DEF BuildFails, Places
  <2> QED
    BY <2>1, <2>2, <2>3, <2>4
<1>16. ASSUME NEW p \in Procs, Kill(p) PROVE TypeOK'
  <2>1. failures' = failures + 1
    BY <1>16 DEF Kill, Places
  <2>2. failures' \in Nat
    BY <2>1
  <2>3. at' \in [Procs -> Places]
    BY <1>16 DEF Kill, Places
  <2>4. lock' \subseteq Procs /\ source' \in {"none", "part", "whole"}
    BY <1>16 DEF Kill, Places
  <2>5. UNCHANGED <<extractOK, products, buildOK, linked, builds, try, got, failed>>
    BY <1>16 DEF Kill, Places
  <2> QED
    BY <2>1, <2>2, <2>3, <2>4, <2>5
<1>17. CASE UNCHANGED vars
  BY <1>17 DEF vars
<1> QED
  <2> HIDE DEF TypeOK
  <2> QED
    BY <1>1, <1>2, <1>3, <1>4, <1>5, <1>6, <1>7, <1>8, <1>9,
       <1>10, <1>11, <1>12, <1>13, <1>14, <1>15, <1>16, <1>17
       DEF Next, Work, Terminating


\* The lock, released by the kernel when its holder is killed, lets in one at a time.
LEMMA ExclusiveStep ==
  Exclusive /\ TypeOK /\ [Next]_vars => Exclusive'
<1> SUFFICES ASSUME Exclusive, TypeOK, [Next]_vars PROVE Exclusive'
  OBVIOUS
<1> USE DEF Exclusive, TypeOK, Missing, Disk, Goto, Fails, Release
<1>1. ASSUME NEW p \in Procs, Acquire(p) PROVE Exclusive'
  BY <1>1 DEF Acquire, Places, Locked
<1>2. ASSUME NEW p \in Procs, Extracted(p) PROVE Exclusive'
  BY <1>2 DEF Extracted, Places, Locked
<1>3. ASSUME NEW p \in Procs, ClearSource(p) PROVE Exclusive'
  BY <1>3 DEF ClearSource, Places, Locked
<1>4. ASSUME NEW p \in Procs, RenameSource(p) PROVE Exclusive'
  BY <1>4 DEF RenameSource, Places, Locked
<1>5. ASSUME NEW p \in Procs, MarkSource(p) PROVE Exclusive'
  BY <1>5 DEF MarkSource, Places, Locked
<1>6. ASSUME NEW p \in Procs, Built(p) PROVE Exclusive'
  BY <1>6 DEF Built, Places, Locked
<1>7. ASSUME NEW p \in Procs, BeginBuild(p) PROVE Exclusive'
  BY <1>7 DEF BeginBuild, Places, Locked
<1>8. ASSUME NEW p \in Procs, EndBuild(p) PROVE Exclusive'
  BY <1>8 DEF EndBuild, Places, Locked
<1>9. ASSUME NEW p \in Procs, OpenMarker(p) PROVE Exclusive'
  BY <1>9 DEF OpenMarker, Places, Locked
<1>10. ASSUME NEW p \in Procs, WriteMarker(p) PROVE Exclusive'
  BY <1>10 DEF WriteMarker, Places, Locked
<1>11. ASSUME NEW p \in Procs, StartSucceeds(p) PROVE Exclusive'
  BY <1>11 DEF StartSucceeds, Places, Locked
<1>12. ASSUME NEW p \in Procs, StartFails(p) PROVE Exclusive'
  BY <1>12 DEF StartFails, Places, Locked
<1>13. ASSUME NEW p \in Procs, Invalidate(p) PROVE Exclusive'
  BY <1>13 DEF Invalidate, Places, Locked
<1>14. ASSUME NEW p \in Procs, Restart(p) PROVE Exclusive'
  BY <1>14 DEF Restart, Places, Locked
<1>15. ASSUME NEW p \in Procs, BuildFails(p) PROVE Exclusive'
  BY <1>15 DEF BuildFails, Places, Locked
<1>16. ASSUME NEW p \in Procs, Kill(p) PROVE Exclusive'
  BY <1>16 DEF Kill, Places, Locked
<1>17. CASE UNCHANGED vars
  BY <1>17 DEF vars
<1> QED
  <2> HIDE DEF Exclusive, TypeOK
  <2> QED
    BY <1>1, <1>2, <1>3, <1>4, <1>5, <1>6, <1>7, <1>8, <1>9,
       <1>10, <1>11, <1>12, <1>13, <1>14, <1>15, <1>16, <1>17
       DEF Next, Work, Terminating


\* What the holder of the lock has done stays done: the others touch the
\* build marker only, and only to remove it.
LEMMA SourceInPlaceStep ==
  SourceInPlace /\ TypeOK /\ Exclusive /\ MarkersTellTheTruth /\ [Next]_vars => SourceInPlace'
<1> SUFFICES ASSUME SourceInPlace, TypeOK, Exclusive, MarkersTellTheTruth, [Next]_vars PROVE SourceInPlace'
  OBVIOUS
<1> USE DEF SourceInPlace, TypeOK, Exclusive, MarkersTellTheTruth, Missing, Disk, Goto, Fails, Release
<1>1. ASSUME NEW p \in Procs, Acquire(p) PROVE SourceInPlace'
  BY <1>1 DEF Acquire, Places, Locked
<1>2. ASSUME NEW p \in Procs, Extracted(p) PROVE SourceInPlace'
  BY <1>2 DEF Extracted, Places, Locked
<1>3. ASSUME NEW p \in Procs, ClearSource(p) PROVE SourceInPlace'
  BY <1>3 DEF ClearSource, Places, Locked
<1>4. ASSUME NEW p \in Procs, RenameSource(p) PROVE SourceInPlace'
  BY <1>4 DEF RenameSource, Places, Locked
<1>5. ASSUME NEW p \in Procs, MarkSource(p) PROVE SourceInPlace'
  BY <1>5 DEF MarkSource, Places, Locked
<1>6. ASSUME NEW p \in Procs, Built(p) PROVE SourceInPlace'
  BY <1>6 DEF Built, Places, Locked
<1>7. ASSUME NEW p \in Procs, BeginBuild(p) PROVE SourceInPlace'
  BY <1>7 DEF BeginBuild, Places, Locked
<1>8. ASSUME NEW p \in Procs, EndBuild(p) PROVE SourceInPlace'
  BY <1>8 DEF EndBuild, Places, Locked
<1>9. ASSUME NEW p \in Procs, OpenMarker(p) PROVE SourceInPlace'
  BY <1>9 DEF OpenMarker, Places, Locked
<1>10. ASSUME NEW p \in Procs, WriteMarker(p) PROVE SourceInPlace'
  BY <1>10 DEF WriteMarker, Places, Locked
<1>11. ASSUME NEW p \in Procs, StartSucceeds(p) PROVE SourceInPlace'
  BY <1>11 DEF StartSucceeds, Places, Locked
<1>12. ASSUME NEW p \in Procs, StartFails(p) PROVE SourceInPlace'
  BY <1>12 DEF StartFails, Places, Locked
<1>13. ASSUME NEW p \in Procs, Invalidate(p) PROVE SourceInPlace'
  BY <1>13 DEF Invalidate, Places, Locked
<1>14. ASSUME NEW p \in Procs, Restart(p) PROVE SourceInPlace'
  BY <1>14 DEF Restart, Places, Locked
<1>15. ASSUME NEW p \in Procs, BuildFails(p) PROVE SourceInPlace'
  BY <1>15 DEF BuildFails, Places, Locked
<1>16. ASSUME NEW p \in Procs, Kill(p) PROVE SourceInPlace'
  BY <1>16 DEF Kill, Places, Locked
<1>17. CASE UNCHANGED vars
  BY <1>17 DEF vars
<1> QED
  <2> HIDE DEF SourceInPlace, TypeOK, Exclusive, MarkersTellTheTruth
  <2> QED
    BY <1>1, <1>2, <1>3, <1>4, <1>5, <1>6, <1>7, <1>8, <1>9,
       <1>10, <1>11, <1>12, <1>13, <1>14, <1>15, <1>16, <1>17
       DEF Next, Work, Terminating


\* A marker is written by the holder of the lock, for what it has just
\* made, or not at all when its file was removed under it.
LEMMA MarkersTellTheTruthStep ==
  MarkersTellTheTruth /\ TypeOK /\ Exclusive /\ SourceInPlace /\ [Next]_vars => MarkersTellTheTruth'
<1> SUFFICES ASSUME MarkersTellTheTruth, TypeOK, Exclusive, SourceInPlace, [Next]_vars PROVE MarkersTellTheTruth'
  OBVIOUS
<1> USE DEF MarkersTellTheTruth, TypeOK, Exclusive, SourceInPlace, Missing, Disk, Goto, Fails, Release
<1>1. ASSUME NEW p \in Procs, Acquire(p) PROVE MarkersTellTheTruth'
  BY <1>1 DEF Acquire, Places, Locked
<1>2. ASSUME NEW p \in Procs, Extracted(p) PROVE MarkersTellTheTruth'
  BY <1>2 DEF Extracted, Places, Locked
<1>3. ASSUME NEW p \in Procs, ClearSource(p) PROVE MarkersTellTheTruth'
  BY <1>3 DEF ClearSource, Places, Locked
<1>4. ASSUME NEW p \in Procs, RenameSource(p) PROVE MarkersTellTheTruth'
  BY <1>4 DEF RenameSource, Places, Locked
<1>5. ASSUME NEW p \in Procs, MarkSource(p) PROVE MarkersTellTheTruth'
  BY <1>5 DEF MarkSource, Places, Locked
<1>6. ASSUME NEW p \in Procs, Built(p) PROVE MarkersTellTheTruth'
  BY <1>6 DEF Built, Places, Locked
<1>7. ASSUME NEW p \in Procs, BeginBuild(p) PROVE MarkersTellTheTruth'
  BY <1>7 DEF BeginBuild, Places, Locked
<1>8. ASSUME NEW p \in Procs, EndBuild(p) PROVE MarkersTellTheTruth'
  <2>1. buildOK' = 0 /\ extractOK' = extractOK /\ source' = source /\ builds' = builds + 1
    BY <1>8 DEF EndBuild
  <2> QED
    BY <2>1, ZeroIsNoBuild
<1>9. ASSUME NEW p \in Procs, OpenMarker(p) PROVE MarkersTellTheTruth'
  BY <1>9 DEF OpenMarker, Places, Locked
<1>10. ASSUME NEW p \in Procs, WriteMarker(p) PROVE MarkersTellTheTruth'
  <2>1. extractOK /\ extractOK' = extractOK /\ source' = source /\ products' = products
    BY <1>10 DEF WriteMarker, Places, Locked
  <2>2. buildOK' = products \/ buildOK' = 0
    BY <1>10 DEF WriteMarker
  <2>3. builds' \in Nat
    BY <1>10 DEF WriteMarker
  <2> QED
    BY <2>1, <2>2, <2>3, ZeroIsNoBuild
<1>11. ASSUME NEW p \in Procs, StartSucceeds(p) PROVE MarkersTellTheTruth'
  BY <1>11 DEF StartSucceeds, Places, Locked
<1>12. ASSUME NEW p \in Procs, StartFails(p) PROVE MarkersTellTheTruth'
  BY <1>12 DEF StartFails, Places, Locked
<1>13. ASSUME NEW p \in Procs, Invalidate(p) PROVE MarkersTellTheTruth'
  <2>1. buildOK' = 0 /\ extractOK' = extractOK /\ source' = source
    BY <1>13 DEF Invalidate
  <2>2. builds' \in Nat
    BY <1>13 DEF Invalidate
  <2> QED
    BY <2>1, <2>2, ZeroIsNoBuild
<1>14. ASSUME NEW p \in Procs, Restart(p) PROVE MarkersTellTheTruth'
  BY <1>14 DEF Restart, Places, Locked
<1>15. ASSUME NEW p \in Procs, BuildFails(p) PROVE MarkersTellTheTruth'
  BY <1>15 DEF BuildFails, Places, Locked
<1>16. ASSUME NEW p \in Procs, Kill(p) PROVE MarkersTellTheTruth'
  BY <1>16 DEF Kill, Places, Locked
<1>17. CASE UNCHANGED vars
  BY <1>17 DEF vars
<1> QED
  <2> HIDE DEF MarkersTellTheTruth, TypeOK, Exclusive, SourceInPlace
  <2> QED
    BY <1>1, <1>2, <1>3, <1>4, <1>5, <1>6, <1>7, <1>8, <1>9,
       <1>10, <1>11, <1>12, <1>13, <1>14, <1>15, <1>16, <1>17
       DEF Next, Work, Terminating


\* Builds are numbered, so a new one is none that a process has had.
LEMMA UnmarkedIsNewStep ==
  UnmarkedIsNew /\ TypeOK /\ Exclusive /\ [Next]_vars => UnmarkedIsNew'
<1> SUFFICES ASSUME UnmarkedIsNew, TypeOK, Exclusive, [Next]_vars PROVE UnmarkedIsNew'
  OBVIOUS
<1> USE DEF UnmarkedIsNew, TypeOK, Exclusive, Missing, Disk, Goto, Fails, Release
<1>1. ASSUME NEW p \in Procs, Acquire(p) PROVE UnmarkedIsNew'
  BY <1>1 DEF Acquire, Places, Locked
<1>2. ASSUME NEW p \in Procs, Extracted(p) PROVE UnmarkedIsNew'
  BY <1>2 DEF Extracted, Places, Locked
<1>3. ASSUME NEW p \in Procs, ClearSource(p) PROVE UnmarkedIsNew'
  BY <1>3 DEF ClearSource, Places, Locked
<1>4. ASSUME NEW p \in Procs, RenameSource(p) PROVE UnmarkedIsNew'
  BY <1>4 DEF RenameSource, Places, Locked
<1>5. ASSUME NEW p \in Procs, MarkSource(p) PROVE UnmarkedIsNew'
  BY <1>5 DEF MarkSource, Places, Locked
<1>6. ASSUME NEW p \in Procs, Built(p) PROVE UnmarkedIsNew'
  BY <1>6 DEF Built, Places, Locked
<1>7. ASSUME NEW p \in Procs, BeginBuild(p) PROVE UnmarkedIsNew'
  BY <1>7 DEF BeginBuild, Places, Locked
<1>8. ASSUME NEW p \in Procs, EndBuild(p) PROVE UnmarkedIsNew'
  <2>1. products' = builds + 1 /\ got' = got /\ failed' = failed
    BY <1>8 DEF EndBuild, Places, Locked
  <2>2. ASSUME NEW q \in Procs PROVE products' # got[q] /\ products' # failed[q]
    <3>1. builds \in Nat /\ got[q] \in 0..builds /\ failed[q] \in 0..builds
      BY DEF TypeOK
    <3>2. \A n \in 0..builds : builds + 1 # n
      BY <3>1
    <3> QED
      BY <2>1, <3>1, <3>2
  <2>3. products' # 0
    <3>1. builds \in Nat
      BY DEF TypeOK
    <3> QED
      BY <2>1, <3>1
  <2> QED
    BY <2>1, <2>2, <2>3
<1>9. ASSUME NEW p \in Procs, OpenMarker(p) PROVE UnmarkedIsNew'
  BY <1>9 DEF OpenMarker, Places, Locked
<1>10. ASSUME NEW p \in Procs, WriteMarker(p) PROVE UnmarkedIsNew'
  BY <1>10 DEF WriteMarker, Places, Locked
<1>11. ASSUME NEW p \in Procs, StartSucceeds(p) PROVE UnmarkedIsNew'
  BY <1>11 DEF StartSucceeds, Places, Locked
<1>12. ASSUME NEW p \in Procs, StartFails(p) PROVE UnmarkedIsNew'
  BY <1>12 DEF StartFails, Places, Locked
<1>13. ASSUME NEW p \in Procs, Invalidate(p) PROVE UnmarkedIsNew'
  BY <1>13 DEF Invalidate, Places, Locked
<1>14. ASSUME NEW p \in Procs, Restart(p) PROVE UnmarkedIsNew'
  BY <1>14 DEF Restart, Places, Locked
<1>15. ASSUME NEW p \in Procs, BuildFails(p) PROVE UnmarkedIsNew'
  BY <1>15 DEF BuildFails, Places, Locked
<1>16. ASSUME NEW p \in Procs, Kill(p) PROVE UnmarkedIsNew'
  BY <1>16 DEF Kill, Places, Locked
<1>17. CASE UNCHANGED vars
  BY <1>17 DEF vars
<1> QED
  <2> HIDE DEF UnmarkedIsNew, TypeOK, Exclusive
  <2> QED
    BY <1>1, <1>2, <1>3, <1>4, <1>5, <1>6, <1>7, <1>8, <1>9,
       <1>10, <1>11, <1>12, <1>13, <1>14, <1>15, <1>16, <1>17
       DEF Next, Work, Terminating


\* InvalidateBuild takes the marker of the build that failed, and a marker
\* written after it is of a new build.
LEMMA FailedIsUnmarkedStep ==
  FailedIsUnmarked /\ TypeOK /\ UnmarkedIsNew /\ [Next]_vars => FailedIsUnmarked'
<1> SUFFICES ASSUME FailedIsUnmarked, TypeOK, UnmarkedIsNew, [Next]_vars PROVE FailedIsUnmarked'
  OBVIOUS
<1> USE DEF FailedIsUnmarked, TypeOK, UnmarkedIsNew, Missing, Disk, Goto, Fails, Release
<1>1. ASSUME NEW p \in Procs, Acquire(p) PROVE FailedIsUnmarked'
  BY <1>1 DEF Acquire, Places, Locked
<1>2. ASSUME NEW p \in Procs, Extracted(p) PROVE FailedIsUnmarked'
  BY <1>2 DEF Extracted, Places, Locked
<1>3. ASSUME NEW p \in Procs, ClearSource(p) PROVE FailedIsUnmarked'
  BY <1>3 DEF ClearSource, Places, Locked
<1>4. ASSUME NEW p \in Procs, RenameSource(p) PROVE FailedIsUnmarked'
  BY <1>4 DEF RenameSource, Places, Locked
<1>5. ASSUME NEW p \in Procs, MarkSource(p) PROVE FailedIsUnmarked'
  BY <1>5 DEF MarkSource, Places, Locked
<1>6. ASSUME NEW p \in Procs, Built(p) PROVE FailedIsUnmarked'
  BY <1>6 DEF Built, Places, Locked
<1>7. ASSUME NEW p \in Procs, BeginBuild(p) PROVE FailedIsUnmarked'
  BY <1>7 DEF BeginBuild, Places, Locked
<1>8. ASSUME NEW p \in Procs, EndBuild(p) PROVE FailedIsUnmarked'
  BY <1>8 DEF EndBuild, Places, Locked
<1>9. ASSUME NEW p \in Procs, OpenMarker(p) PROVE FailedIsUnmarked'
  BY <1>9 DEF OpenMarker, Places, Locked
<1>10. ASSUME NEW p \in Procs, WriteMarker(p) PROVE FailedIsUnmarked'
  BY <1>10 DEF WriteMarker, Places, Locked
<1>11. ASSUME NEW p \in Procs, StartSucceeds(p) PROVE FailedIsUnmarked'
  BY <1>11 DEF StartSucceeds, Places, Locked
<1>12. ASSUME NEW p \in Procs, StartFails(p) PROVE FailedIsUnmarked'
  <2>1. try' = try /\ buildOK' = buildOK
    BY <1>12 DEF StartFails
  <2>2. ASSUME NEW q \in Procs, try[q] = 2 PROVE failed'[q] = failed[q]
    <3>1. failed' = [failed EXCEPT ![p] = IF try[p] = 1 THEN got[p] ELSE @]
      BY <1>12 DEF StartFails
    <3>2. CASE q = p
      BY <2>2, <3>1, <3>2
    <3>3. CASE q # p
      BY <3>1, <3>3
    <3> QED
      BY <3>2, <3>3
  <2> QED
    BY <2>1, <2>2
<1>13. ASSUME NEW p \in Procs, Invalidate(p) PROVE FailedIsUnmarked'
  BY <1>13 DEF Invalidate, Places, Locked
<1>14. ASSUME NEW p \in Procs, Restart(p) PROVE FailedIsUnmarked'
  BY <1>14 DEF Restart, Places, Locked
<1>15. ASSUME NEW p \in Procs, BuildFails(p) PROVE FailedIsUnmarked'
  BY <1>15 DEF BuildFails, Places, Locked
<1>16. ASSUME NEW p \in Procs, Kill(p) PROVE FailedIsUnmarked'
  BY <1>16 DEF Kill, Places, Locked
<1>17. CASE UNCHANGED vars
  BY <1>17 DEF vars
<1> QED
  <2> HIDE DEF FailedIsUnmarked, TypeOK, UnmarkedIsNew
  <2> QED
    BY <1>1, <1>2, <1>3, <1>4, <1>5, <1>6, <1>7, <1>8, <1>9,
       <1>10, <1>11, <1>12, <1>13, <1>14, <1>15, <1>16, <1>17
       DEF Next, Work, Terminating


\* A retry gets what a marker stands for, or what it has built itself.
LEMMA RetryIsFreshStep ==
  RetryIsFresh /\ TypeOK /\ MarkersTellTheTruth /\ UnmarkedIsNew /\ FailedIsUnmarked /\ [Next]_vars => RetryIsFresh'
<1> SUFFICES ASSUME RetryIsFresh, TypeOK, MarkersTellTheTruth, UnmarkedIsNew, FailedIsUnmarked, [Next]_vars PROVE RetryIsFresh'
  OBVIOUS
<1> USE DEF RetryIsFresh, TypeOK, MarkersTellTheTruth, UnmarkedIsNew, FailedIsUnmarked, Missing, Disk, Goto, Fails, Release
<1>1. ASSUME NEW p \in Procs, Acquire(p) PROVE RetryIsFresh'
  BY <1>1 DEF Acquire, Places, Locked
<1>2. ASSUME NEW p \in Procs, Extracted(p) PROVE RetryIsFresh'
  BY <1>2 DEF Extracted, Places, Locked
<1>3. ASSUME NEW p \in Procs, ClearSource(p) PROVE RetryIsFresh'
  BY <1>3 DEF ClearSource, Places, Locked
<1>4. ASSUME NEW p \in Procs, RenameSource(p) PROVE RetryIsFresh'
  BY <1>4 DEF RenameSource, Places, Locked
<1>5. ASSUME NEW p \in Procs, MarkSource(p) PROVE RetryIsFresh'
  BY <1>5 DEF MarkSource, Places, Locked
<1>6. ASSUME NEW p \in Procs, Built(p) PROVE RetryIsFresh'
  BY <1>6 DEF Built, Places, Locked
<1>7. ASSUME NEW p \in Procs, BeginBuild(p) PROVE RetryIsFresh'
  BY <1>7 DEF BeginBuild, Places, Locked
<1>8. ASSUME NEW p \in Procs, EndBuild(p) PROVE RetryIsFresh'
  BY <1>8 DEF EndBuild, Places, Locked
<1>9. ASSUME NEW p \in Procs, OpenMarker(p) PROVE RetryIsFresh'
  BY <1>9 DEF OpenMarker, Places, Locked
<1>10. ASSUME NEW p \in Procs, WriteMarker(p) PROVE RetryIsFresh'
  BY <1>10 DEF WriteMarker, Places, Locked
<1>11. ASSUME NEW p \in Procs, StartSucceeds(p) PROVE RetryIsFresh'
  BY <1>11 DEF StartSucceeds, Places, Locked
<1>12. ASSUME NEW p \in Procs, StartFails(p) PROVE RetryIsFresh'
  BY <1>12 DEF StartFails, Places, Locked
<1>13. ASSUME NEW p \in Procs, Invalidate(p) PROVE RetryIsFresh'
  BY <1>13 DEF Invalidate, Places, Locked
<1>14. ASSUME NEW p \in Procs, Restart(p) PROVE RetryIsFresh'
  BY <1>14 DEF Restart, Places, Locked
<1>15. ASSUME NEW p \in Procs, BuildFails(p) PROVE RetryIsFresh'
  BY <1>15 DEF BuildFails, Places, Locked
<1>16. ASSUME NEW p \in Procs, Kill(p) PROVE RetryIsFresh'
  BY <1>16 DEF Kill, Places, Locked
<1>17. CASE UNCHANGED vars
  BY <1>17 DEF vars
<1> QED
  <2> HIDE DEF RetryIsFresh, TypeOK, MarkersTellTheTruth, UnmarkedIsNew, FailedIsUnmarked
  <2> QED
    BY <1>1, <1>2, <1>3, <1>4, <1>5, <1>6, <1>7, <1>8, <1>9,
       <1>10, <1>11, <1>12, <1>13, <1>14, <1>15, <1>16, <1>17
       DEF Next, Work, Terminating

\* Nobody holds the lock at first, and nothing is on the disk.
LEMMA InitIInv == Init => IInv
<1> SUFFICES ASSUME Init PROVE IInv
  OBVIOUS
<1>1. TypeOK
  <2>1. 0 \in 0..0 /\ 0 \in Nat
    OBVIOUS
  <2> QED
    BY <2>1 DEF Init, TypeOK, Places, Missing
<1>2. Exclusive /\ SourceInPlace /\ UnmarkedIsNew
  BY DEF Init, Exclusive, SourceInPlace, UnmarkedIsNew, Locked, Missing
<1>3. FailedIsUnmarked /\ RetryIsFresh
  BY DEF Init, FailedIsUnmarked, RetryIsFresh, Missing
<1>4. MarkersTellTheTruth
  BY ZeroIsNoBuild DEF Init, MarkersTellTheTruth, Missing
<1> QED
  BY <1>1, <1>2, <1>3, <1>4 DEF IInv

\* The conjuncts of the invariant hold each other up.
LEMMA Inductive == Spec => []IInv
<1>1. IInv /\ [Next]_vars => IInv'
  BY TypeOKStep, ExclusiveStep, SourceInPlaceStep, MarkersTellTheTruthStep,
     UnmarkedIsNewStep, FailedIsUnmarkedStep, RetryIsFreshStep DEF IInv
<1> QED
  BY InitIInv, <1>1, PTL DEF Spec

\* The types of the cache and of its users (manager.go, Prepare, InvalidateBuild).
THEOREM TypeCorrect == Spec => []TypeOK
<1>1. IInv => TypeOK
  BY DEF IInv
<1> QED
  BY Inductive, <1>1, PTL

\* Two processes are never inside Prepare of one directory at once, kills included
\* (manager.go, lock.WithLock around ensureExtracted and ensureBuilt).
THEOREM PrepareIsExclusive == Spec => []Exclusive
<1>1. IInv => Exclusive
  BY DEF IInv
<1> QED
  BY Inductive, <1>1, PTL

\* A marker never stands for half a tree, an earlier build or none, whatever is killed
\* and wherever an InvalidateBuild falls, though that one takes no lock
\* (manager.go, ensureBuilt and InvalidateBuild).
THEOREM MarkersAreTrue == Spec => []MarkersTellTheTruth
<1>1. IInv => MarkersTellTheTruth
  BY DEF IInv
<1> QED
  BY Inductive, <1>1, PTL

\* The second attempt of a start never runs the build the first one failed with
\* (apple.go, startEmbeddedDriver).
THEOREM RetriesAreFresh == Spec => []RetryIsFresh
<1>1. IInv => RetryIsFresh
  BY DEF IInv
<1> QED
  BY Inductive, <1>1, PTL
\* A start that failed, whose build is about to be invalidated.
Rebuilders == {p \in Procs : at[p] = "invalidate"}

\* A build whose marker is on its way, and still has its name.
BeingMarked == \E p \in Procs : at[p] = "open" \/ (at[p] = "mark" /\ linked)

\* The builds that must still be made for what has happened so far.
Due == IF buildOK = Missing /\ ~BeingMarked THEN 1 ELSE 0

\* Every build, the one that is due and the ones that invalidations will ask for
\* are the first of all or have a failure of their own.
Accounted ==
    /\ IsFiniteSet(Rebuilders)
    /\ builds + Due + Cardinality(Rebuilders) <= 1 + failures

LEMMA DueIsSmall == Due \in {0, 1}
  BY DEF Due

LEMMA RebuildersAreCounted ==
  ASSUME IsFiniteSet(Rebuilders)
  PROVE  Cardinality(Rebuilders) \in Nat
  BY FS_CardinalityType

\* A step of a process that is at none of the places that count.
LEMMA QuietStep ==
  ASSUME Accounted, TypeOK, NEW p \in Procs, NEW next,
         at' = [at EXCEPT ![p] = next],
         at[p] \notin {"invalidate", "open", "mark"},
         next \notin {"invalidate", "open", "mark"},
         builds' = builds, buildOK' = buildOK, linked' = linked,
         failures' \in Nat, failures <= failures'
  PROVE  Accounted'
<1>1. at \in [Procs -> Places]
  BY DEF TypeOK
<1>2. \A q \in Procs : /\ at'[q] = "invalidate" <=> at[q] = "invalidate"
                       /\ at'[q] = "open" <=> at[q] = "open"
                       /\ at'[q] = "mark" <=> at[q] = "mark"
  BY <1>1
<1>3. Rebuilders' = Rebuilders
  BY <1>2 DEF Rebuilders
<1>4. BeingMarked' <=> BeingMarked
  BY <1>2 DEF BeingMarked
<1>5. Due' = Due
  BY <1>4 DEF Due
<1>6. /\ builds \in Nat /\ failures \in Nat /\ Due \in {0, 1}
      /\ Cardinality(Rebuilders) \in Nat
  BY DueIsSmall, RebuildersAreCounted DEF TypeOK, Accounted
<1>7. builds + Due + Cardinality(Rebuilders) <= 1 + failures
  BY DEF Accounted
<1>8. builds + Due + Cardinality(Rebuilders) <= 1 + failures'
  BY <1>6, <1>7
<1> QED
  BY <1>3, <1>5, <1>8 DEF Accounted

\* A process that leaves or enters the place of an invalidation: the count of these
\* follows, and a failure or the invalidation itself pays for what becomes due.
LEMMA AccountsBalance ==
  ASSUME TypeOK, Accounted, IsFiniteSet(Rebuilders'),
         builds' = builds, failures' \in Nat,
         \/ failures' = failures + 1 /\ Due' = Due
            /\ Cardinality(Rebuilders') <= Cardinality(Rebuilders) + 1
         \/ failures' = failures + 1
            /\ Cardinality(Rebuilders') <= Cardinality(Rebuilders)
         \/ failures' = failures
            /\ Cardinality(Rebuilders') + 1 = Cardinality(Rebuilders)
  PROVE  Accounted'
<1>1. /\ builds \in Nat /\ failures \in Nat /\ Due \in {0, 1} /\ Due' \in {0, 1}
      /\ Cardinality(Rebuilders) \in Nat
  BY DueIsSmall, RebuildersAreCounted DEF TypeOK, Accounted, Due
<1>2. Cardinality(Rebuilders') \in Nat
  BY FS_CardinalityType
<1>3. builds + Due + Cardinality(Rebuilders) <= 1 + failures
  BY DEF Accounted
<1>4. builds + Due' + Cardinality(Rebuilders') <= 1 + failures'
  BY <1>1, <1>2, <1>3
<1> QED
  BY <1>4 DEF Accounted

\* A process that leaves the place of an invalidation.
LEMMA RebuilderLeaves ==
  ASSUME TypeOK, IsFiniteSet(Rebuilders), NEW p \in Procs, NEW next,
         at' = [at EXCEPT ![p] = next], next # "invalidate",
         at[p] = "invalidate"
  PROVE  /\ IsFiniteSet(Rebuilders')
         /\ Cardinality(Rebuilders') + 1 = Cardinality(Rebuilders)
<1>1. at \in [Procs -> Places]
  BY DEF TypeOK
<1>2. Rebuilders' = Rebuilders \ {p} /\ p \in Rebuilders
  BY <1>1 DEF Rebuilders
<1>3. /\ IsFiniteSet(Rebuilders \ {p})
      /\ Cardinality(Rebuilders \ {p}) = Cardinality(Rebuilders) - 1
  BY <1>2, FS_RemoveElement
<1>4. Cardinality(Rebuilders) \in Nat
  BY FS_CardinalityType
<1> QED
  BY <1>2, <1>3, <1>4

\* What is built and marked is what was due, and what is due again has failed.
LEMMA AccountedStep ==
  IInv /\ Accounted /\ [Next]_vars => Accounted'
<1> SUFFICES ASSUME TypeOK, Exclusive, MarkersTellTheTruth, SourceInPlace, UnmarkedIsNew,
                    Accounted, [Next]_vars
             PROVE  Accounted'
  BY DEF IInv
<1>0. /\ at \in [Procs -> Places] /\ builds \in Nat /\ failures \in Nat
      /\ buildOK \in 0..builds
      /\ failures <= failures /\ failures <= failures + 1 /\ failures + 1 \in Nat
  BY DEF TypeOK
<1>1. ASSUME NEW p \in Procs,
             Acquire(p) \/ Extracted(p) \/ ClearSource(p) \/ RenameSource(p) \/ MarkSource(p)
             \/ Built(p) \/ StartSucceeds(p) \/ Restart(p)
      PROVE  Accounted'
  <2>1. /\ builds' = builds /\ buildOK' = buildOK /\ linked' = linked
        /\ failures' = failures /\ at[p] \notin {"invalidate", "open", "mark"}
    BY <1>1 DEF Acquire, Extracted, ClearSource, RenameSource, MarkSource, Built,
                StartSucceeds, Restart, Disk
  <2>2. PICK next : /\ at' = [at EXCEPT ![p] = next]
                    /\ next \notin {"invalidate", "open", "mark"}
    BY <1>1 DEF Acquire, Extracted, ClearSource, RenameSource, MarkSource, Built,
                StartSucceeds, Restart, Goto, Release
  <2> QED
    BY <1>0, <2>1, <2>2, QuietStep
<1>2. ASSUME NEW p \in Procs, BeginBuild(p) PROVE Accounted'
  <2>1. buildOK = 0
    <3>1. SUFFICES ASSUME buildOK # 0 PROVE FALSE
      OBVIOUS
    <3>2. buildOK \in 1..builds
      BY <1>0, <3>1
    <3>3. products # 0
      BY <3>1, <3>2 DEF MarkersTellTheTruth
    <3> QED
      BY <3>2, <3>3, <1>2 DEF BeginBuild
  <2>2. /\ builds' = builds /\ buildOK' = buildOK /\ linked' = linked
        /\ failures' = failures /\ at[p] = "check" /\ at' = [at EXCEPT ![p] = "build"]
    BY <2>1, <1>2 DEF BeginBuild, Goto, Missing
  <2> QED
    BY <1>0, <2>2, QuietStep
<1>3. ASSUME NEW p \in Procs, EndBuild(p) PROVE Accounted'
  <2>1. /\ at[p] = "build" /\ at' = [at EXCEPT ![p] = "open"] /\ builds' = builds + 1
        /\ buildOK' = buildOK /\ linked' = linked /\ failures' = failures
    BY <1>3 DEF EndBuild, Goto
  <2>2. lock = {p} /\ buildOK = Missing
    BY <2>1 DEF Exclusive, SourceInPlace, Locked
  <2>3. ~BeingMarked
    BY <2>1, <2>2 DEF BeingMarked, Exclusive, Locked
  <2>4. Due = 1
    BY <2>2, <2>3 DEF Due
  <2>5. at'[p] = "open"
    BY <1>0, <2>1
  <2>6. Due' = 0
    BY <2>5 DEF Due, BeingMarked
  <2>7. Rebuilders' = Rebuilders
    BY <1>0, <2>1 DEF Rebuilders
  <2>8. Cardinality(Rebuilders) \in Nat /\ builds + 1 + Cardinality(Rebuilders) <= 1 + failures
    BY <2>4, RebuildersAreCounted DEF Accounted
  <2>9. (builds + 1) + 0 + Cardinality(Rebuilders) <= 1 + failures
    BY <1>0, <2>8
  <2> QED
    BY <2>1, <2>6, <2>7, <2>9 DEF Accounted
<1>4. ASSUME NEW p \in Procs, BuildFails(p) PROVE Accounted'
  <2>1. /\ builds' = builds /\ buildOK' = buildOK /\ linked' = linked
        /\ failures' = failures + 1 /\ at[p] = "build" /\ at' = [at EXCEPT ![p] = "failed"]
    BY <1>4 DEF BuildFails, Goto, Fails, Disk
  <2> QED
    BY <1>0, <2>1, QuietStep
<1>5. ASSUME NEW p \in Procs, OpenMarker(p) PROVE Accounted'
  <2>1. /\ at[p] = "open" /\ at' = [at EXCEPT ![p] = "mark"] /\ builds' = builds
        /\ buildOK' = buildOK /\ linked' = TRUE /\ failures' = failures
    BY <1>5 DEF OpenMarker, Goto
  <2>2. at'[p] = "mark" /\ BeingMarked' /\ BeingMarked
    BY <1>0, <2>1 DEF BeingMarked
  <2>3. Due' = Due /\ Rebuilders' = Rebuilders
    BY <1>0, <2>1, <2>2 DEF Due, Rebuilders
  <2> QED
    BY <2>1, <2>3 DEF Accounted
<1>6. ASSUME NEW p \in Procs, WriteMarker(p) PROVE Accounted'
  <2>1. /\ at[p] = "mark" /\ at' = [at EXCEPT ![p] = "start"] /\ builds' = builds
        /\ linked' = linked /\ failures' = failures
        /\ buildOK' = IF linked THEN products ELSE Missing
    BY <1>6 DEF WriteMarker, Goto, Release
  <2>2. lock = {p} /\ buildOK = Missing /\ products # 0
    BY <2>1 DEF Exclusive, SourceInPlace, Locked, UnmarkedIsNew
  <2>3. Rebuilders' = Rebuilders
    BY <1>0, <2>1 DEF Rebuilders
  <2>4. Due' = Due
    <3>1. CASE linked
      <4>1. BeingMarked /\ buildOK' # Missing
        BY <3>1, <2>1, <2>2 DEF BeingMarked, Missing
      <4> QED
        BY <4>1 DEF Due
    <3>2. CASE ~linked
      <4>1. \A q \in Procs : q # p => at[q] # "open"
        BY <2>2 DEF Exclusive, Locked
      <4>2. ~BeingMarked
        BY <4>1, <3>2, <2>1 DEF BeingMarked
      <4>3. ~BeingMarked'
        BY <1>0, <4>1, <3>2, <2>1 DEF BeingMarked
      <4> QED
        BY <4>2, <4>3, <3>2, <2>1, <2>2 DEF Due
    <3> QED
      BY <3>1, <3>2
  <2> QED
    BY <2>1, <2>3, <2>4 DEF Accounted
<1>7. ASSUME NEW p \in Procs, StartFails(p) PROVE Accounted'
  <2>1. /\ at[p] = "start" /\ builds' = builds /\ buildOK' = buildOK /\ linked' = linked
        /\ failures' = failures + 1
        /\ at' = [at EXCEPT ![p] = IF try[p] = 1 THEN "invalidate" ELSE "failed"]
    BY <1>7 DEF StartFails, Goto, Disk
  <2>2. CASE try[p] # 1
    BY <1>0, <2>1, <2>2, QuietStep
  <2>3. CASE try[p] = 1
    <3>1. Rebuilders' = Rebuilders \cup {p} /\ p \notin Rebuilders
      BY <1>0, <2>1, <2>3 DEF Rebuilders
    <3>2. IsFiniteSet(Rebuilders)
      BY DEF Accounted
    <3>3. /\ IsFiniteSet(Rebuilders \cup {p})
          /\ Cardinality(Rebuilders \cup {p}) = Cardinality(Rebuilders) + 1
      BY <3>1, <3>2, FS_AddElement
    <3>4. BeingMarked' <=> BeingMarked
      BY <1>0, <2>1 DEF BeingMarked
    <3>5. Due' = Due
      BY <2>1, <3>4 DEF Due
    <3>6. Cardinality(Rebuilders) \in Nat
      BY <3>2, FS_CardinalityType
    <3>7. Cardinality(Rebuilders') <= Cardinality(Rebuilders) + 1
      BY <3>1, <3>3, <3>6
    <3> QED
      BY <1>0, <2>1, <3>1, <3>3, <3>5, <3>7, AccountsBalance
  <2> QED
    BY <2>2, <2>3
<1>8. ASSUME NEW p \in Procs, Invalidate(p) PROVE Accounted'
  <2>1. /\ at[p] = "invalidate" /\ at' = [at EXCEPT ![p] = "prepare"]
        /\ builds' = builds /\ failures' = failures
    BY <1>8 DEF Invalidate, Goto
  <2>2. IsFiniteSet(Rebuilders)
    BY DEF Accounted
  <2>3. /\ IsFiniteSet(Rebuilders')
        /\ Cardinality(Rebuilders') + 1 = Cardinality(Rebuilders)
    BY <2>1, <2>2, RebuilderLeaves
  <2> QED
    BY <1>0, <2>1, <2>3, AccountsBalance
<1>9. ASSUME NEW p \in Procs, Kill(p) PROVE Accounted'
  <2>1. /\ at' = [at EXCEPT ![p] = "down"] /\ builds' = builds
        /\ failures' = failures + 1
    BY <1>9 DEF Kill, Goto, Fails
  <2>2. IsFiniteSet(Rebuilders) /\ Cardinality(Rebuilders) \in Nat
    BY FS_CardinalityType DEF Accounted
  <2>3. IsFiniteSet(Rebuilders') /\ Cardinality(Rebuilders') <= Cardinality(Rebuilders)
    <3>1. CASE at[p] = "invalidate"
      <4>1. /\ IsFiniteSet(Rebuilders')
            /\ Cardinality(Rebuilders') + 1 = Cardinality(Rebuilders)
        BY <3>1, <2>1, <2>2, RebuilderLeaves
      <4>2. Cardinality(Rebuilders') \in Nat
        BY <4>1, FS_CardinalityType
      <4> QED
        BY <4>1, <4>2, <2>2
    <3>2. CASE at[p] # "invalidate"
      <4>1. Rebuilders' = Rebuilders
        BY <1>0, <2>1, <3>2 DEF Rebuilders
      <4> QED
        BY <4>1, <2>2
    <3> QED
      BY <3>1, <3>2
  <2> QED
    BY <1>0, <2>1, <2>3, AccountsBalance
<1>10. CASE UNCHANGED vars
  <2>1. /\ Rebuilders' = Rebuilders /\ Due' = Due
        /\ builds' = builds /\ failures' = failures
    BY <1>10 DEF vars, Rebuilders, Due, BeingMarked
  <2> QED
    BY <2>1 DEF Accounted
<1> QED
  BY <1>1, <1>2, <1>3, <1>4, <1>5, <1>6, <1>7, <1>8, <1>9, <1>10
     DEF Next, Work, Terminating

\* There is no storm of rebuilds, whatever the sessions, the failures and the kills: a
\* build is made once, and again for a failure or a kill of its own only
\* (manager.go, ensureBuilt; apple.go, startEmbeddedDriver).
THEOREM BuildsHaveReasons == Spec => []BuildsAreAccountedFor
<1>1. Init => Accounted
  <2> SUFFICES ASSUME Init PROVE Accounted
    OBVIOUS
  <2>1. Rebuilders = {}
    BY DEF Init, Rebuilders
  <2>2. IsFiniteSet({}) /\ Cardinality({}) = 0
    BY FS_EmptySet
  <2>3. builds = 0 /\ failures = 0 /\ Due \in {0, 1}
    BY DueIsSmall DEF Init
  <2> QED
    BY <2>1, <2>2, <2>3 DEF Accounted
<1>2. IInv /\ Accounted => BuildsAreAccountedFor
  <2> SUFFICES ASSUME TypeOK, Accounted PROVE BuildsAreAccountedFor
    BY DEF IInv
  <2>1. /\ builds \in Nat /\ failures \in Nat /\ Due \in {0, 1}
        /\ Cardinality(Rebuilders) \in Nat
    BY DueIsSmall, RebuildersAreCounted DEF TypeOK, Accounted
  <2>2. builds + Due + Cardinality(Rebuilders) <= 1 + failures
    BY DEF Accounted
  <2>3. builds <= 1 + failures
    BY <2>1, <2>2
  <2> QED
    BY <2>3 DEF BuildsAreAccountedFor
<1> QED
  BY Inductive, <1>1, AccountedStep, <1>2, PTL DEF Spec
-----------------------------------------------------------------------------
(* The Android driver, over any number of commands and releases.           *)

\* The places at which a forwarded port is the session's own.
Forwarded == {"spawn", "health", "undo", "up"}

\* The places after the old driver was stopped and before this one is.
OldIsStopped == {"look", "install app", "install test", "mark"} \cup Forwarded \cup {"forward"}

\* From the moment the old driver is stopped, what runs on the device and holds its
\* port, if anything does, is this command's own.
OwnDevice ==
    /\ bound \in onDevice \cup {0}
    /\ place \in OldIsStopped => onDevice \subseteq {life}

\* What a session still owes: its host process and its forward, as long as it is at
\* the places that clear them.
Debts ==
    /\ host = "alive" => place \in {"health", "up"}
    /\ forwards \subseteq excuse \cup (IF place \in Forwarded THEN {life} ELSE {})

\* The inductive invariant of the Android driver.
AndroidInv == life \in Nat \ {0} /\ OwnDevice /\ AnsweredByOurs /\ Debts

LEMMA AndroidStarts == Android!Init => AndroidInv
<1> SUFFICES ASSUME Android!Init PROVE AndroidInv
  OBVIOUS
<1>1. /\ life = 1 /\ place = "stop old" /\ host = "none" /\ forwards = {} /\ bound = 0
  BY DEF Android!Init
<1>2. life \in Nat \ {0}
  <2>1. 1 \in Nat \ {0}
    OBVIOUS
  <2> QED
    BY <1>1, <2>1
<1>3. OwnDevice /\ AnsweredByOurs /\ Debts
  BY <1>1 DEF OwnDevice, OldIsStopped, Forwarded, AnsweredByOurs, Android!AnsweredByOurs, Debts
<1> QED
  BY <1>2, <1>3 DEF AndroidInv

\* The number of the command changes when another is run, and then only.
LEMMA LifeStep ==
  ASSUME life \in Nat \ {0}, [Android!Next]_(Android!vars)
  PROVE  life' \in Nat \ {0}
<1>1. life' = life \/ life' = life + 1
  BY Zenon DEF Android!Next, Android!Build, Android!RunEnds, Android!Fades, Android!Rerun,
       Android!StopOld, Android!Look, Android!InstallApp, Android!InstallTest, Android!Mark,
       Android!Forward, Android!Spawn, Android!Healthy, Android!Unhealthy, Android!Undo,
       Android!StopHost, Android!StopRunner, Android!Terminating, Android!Step,
       Android!Command, Android!vars
<1> QED
  BY <1>1

\* StopOld clears the device, and only Spawn brings something to it.
LEMMA OwnDeviceStep ==
  OwnDevice /\ [Android!Next]_(Android!vars) => OwnDevice'
<1> SUFFICES ASSUME OwnDevice, [Android!Next]_(Android!vars) PROVE OwnDevice'
  OBVIOUS
<1> USE DEF OwnDevice, OldIsStopped, Forwarded, Android!Device, Android!Installed,
            Android!Command, Android!Unbind
<1>1. CASE Android!RunEnds
  BY <1>1 DEF Android!RunEnds
<1>2. CASE Android!Fades
  BY <1>2 DEF Android!Fades
<1>3. CASE Android!Rerun
  BY <1>3 DEF Android!Rerun
<1>4. CASE Android!StopOld
  <2>1. CASE place' = "failed"
    <3>1. onDevice' = onDevice /\ bound' = bound
      BY <2>1, <1>4 DEF Android!StopOld, Android!Step
    <3> QED
      BY <2>1, <3>1
  <2>2. CASE place' # "failed"
    <3>1. /\ life' = life /\ onDevice' = onDevice \ onDevice
          /\ bound' = IF bound \in onDevice THEN 0 ELSE bound
      BY <2>2, <1>4 DEF Android!StopOld, Android!Step
    <3> QED
      BY <3>1
  <2> QED
    BY <2>1, <2>2
<1>5. CASE Android!Look
  BY <1>5 DEF Android!Look
<1>6. CASE Android!InstallApp
  BY <1>6 DEF Android!InstallApp, Android!Step
<1>7. CASE Android!InstallTest
  BY <1>7 DEF Android!InstallTest, Android!Step
<1>8. CASE Android!Mark
  BY <1>8 DEF Android!Mark
<1>9. CASE Android!Forward
  BY <1>9 DEF Android!Forward
<1>10. CASE Android!Spawn
  BY <1>10 DEF Android!Spawn
<1>11. CASE Android!Healthy
  BY <1>11 DEF Android!Healthy
<1>12. CASE Android!Unhealthy
  BY <1>12 DEF Android!Unhealthy
<1>13. CASE Android!Undo
  BY <1>13 DEF Android!Undo
<1>14. CASE Android!StopHost
  BY <1>14 DEF Android!StopHost
<1>15. CASE Android!StopRunner
  BY <1>15 DEF Android!StopRunner
<1>16. CASE UNCHANGED Android!vars
  BY <1>16 DEF Android!vars
<1> QED
  BY <1>1, <1>2, <1>3, <1>4, <1>5, <1>6, <1>7, <1>8, <1>9, <1>10, <1>11, <1>12,
     <1>13, <1>14, <1>15, <1>16 DEF Android!Next, Android!Build, Android!Terminating


\* Whoever answers the health check holds the port.
LEMMA AnsweredStep ==
  ASSUME OwnDevice, AnsweredByOurs, [Android!Next]_(Android!vars)
  PROVE  AnsweredByOurs'
<1> USE DEF AnsweredByOurs, Android!AnsweredByOurs
<1>1. CASE Android!Healthy
  <2>1. bound = life /\ answered' = bound /\ life' = life
    BY <1>1 DEF Android!Healthy, Android!Command, OwnDevice, OldIsStopped, Forwarded
  <2> QED
    BY <2>1
<1>2. CASE place' # "up"
  BY <1>2
<1>3. CASE UNCHANGED <<place, life, answered>>
  BY <1>3
<1>4. CASE Android!RunEnds \/ Android!Fades \/ UNCHANGED Android!vars
  BY <1>4, <1>3 DEF Android!RunEnds, Android!Fades, Android!Command, Android!vars
<1>5. CASE \/ Android!Rerun \/ Android!StopOld \/ Android!Look \/ Android!InstallApp
          \/ Android!InstallTest \/ Android!Mark \/ Android!Forward \/ Android!Spawn
          \/ Android!Unhealthy \/ Android!Undo \/ Android!StopHost \/ Android!StopRunner
  <2>1. place' # "up"
    BY <1>5 DEF Android!Rerun, Android!StopOld, Android!Look, Android!InstallApp,
       Android!InstallTest, Android!Mark, Android!Forward, Android!Spawn,
       Android!Unhealthy, Android!Undo, Android!StopHost, Android!StopRunner, Android!Step
  <2> QED
    BY <2>1
<1> QED
  BY <1>1, <1>4, <1>5 DEF Android!Next, Android!Build, Android!Terminating

\* A session leaves the places where it owes by clearing, or by a kill, an excuse.
LEMMA DebtsStep ==
  Debts /\ [Android!Next]_(Android!vars) => Debts'
<1> SUFFICES ASSUME Debts, [Android!Next]_(Android!vars) PROVE Debts'
  OBVIOUS
<1> USE DEF Debts, Forwarded, Android!Device, Android!Command, Android!History
<1>1. CASE Android!RunEnds
  BY <1>1 DEF Android!RunEnds
<1>2. CASE Android!Fades
  BY <1>2 DEF Android!Fades
<1>3. CASE Android!Rerun
  BY <1>3 DEF Android!Rerun
<1>4. CASE Android!StopOld
  BY <1>4 DEF Android!StopOld, Android!Step
<1>5. CASE Android!Look
  BY <1>5 DEF Android!Look
<1>6. CASE Android!InstallApp
  BY <1>6 DEF Android!InstallApp, Android!Step
<1>7. CASE Android!InstallTest
  BY <1>7 DEF Android!InstallTest, Android!Step
<1>8. CASE Android!Mark
  BY <1>8 DEF Android!Mark
<1>9. CASE Android!Forward
  BY <1>9 DEF Android!Forward
<1>10. CASE Android!Spawn
  BY <1>10 DEF Android!Spawn
<1>11. CASE Android!Healthy
  BY <1>11 DEF Android!Healthy
<1>12. CASE Android!Unhealthy
  BY <1>12 DEF Android!Unhealthy
<1>13. CASE Android!Undo
  BY <1>13 DEF Android!Undo, Android!DropForward
<1>14. CASE Android!StopHost
  BY <1>14 DEF Android!StopHost, Android!DropForward
<1>15. CASE Android!StopRunner
  BY <1>15 DEF Android!StopRunner
<1>16. CASE UNCHANGED Android!vars
  BY <1>16 DEF Android!vars
<1> QED
  BY <1>1, <1>2, <1>3, <1>4, <1>5, <1>6, <1>7, <1>8, <1>9, <1>10, <1>11, <1>12,
     <1>13, <1>14, <1>15, <1>16 DEF Android!Next, Android!Build, Android!Terminating

LEMMA AndroidInductive == Android!Spec => []AndroidInv
<1>1. AndroidInv /\ [Android!Next]_(Android!vars) => AndroidInv'
  BY LifeStep, OwnDeviceStep, AnsweredStep, DebtsStep DEF AndroidInv
<1> QED
  BY AndroidStarts, <1>1, PTL DEF Android!Spec

\* The driver taken for healthy is the one this command has started, whatever was left
\* on the device by earlier ones (android.go, EnsureDriver; TerminateDriverRunner).
THEOREM OurDriverAnswers == Android!Spec => []AnsweredByOurs
<1>1. AndroidInv => AnsweredByOurs
  BY DEF AndroidInv
<1> QED
  BY AndroidInductive, <1>1, PTL

\* A session that could not be built, or was closed, leaves no host process and no
\* forwarded port behind, unless adb refused or the command was killed
\* (android.go, EnsureDriver's undo and driverHandle.Stop).
THEOREM AndroidIsCleanedUp == Android!Spec => []NothingLeftBehind
<1>1. AndroidInv => NothingLeftBehind
  BY DEF AndroidInv, Debts, Forwarded, NothingLeftBehind, Android!NothingLeftBehind,
         Android!Settled
<1> QED
  BY AndroidInductive, <1>1, PTL

-----------------------------------------------------------------------------
(* The recorder of a page.                                                 *)

Types == {"request", "response", "finished"}
URLs == {Recorder!First, Recorder!Second, Recorder!Blank}
Entry == [type : Types, id : Requests, url : URLs]

\* Entry x tells of event y; in a crowd (c) it may lack the URL.
Tells(x, y, c) ==
    /\ x.type = y.type /\ x.id = y.id
    /\ x.url = y.url \/ (c /\ x.url = Recorder!Blank)

\* The place of the item at i of n, counted from the oldest, after o others.
Age(m, o, n) == IF m > o THEN m - o ELSE (m + n) - o

\* The array a, whose oldest item comes after o others, holds the events of f but
\* the first d.
Holds(a, o, d, f, c) ==
    /\ a \in Seq(Entry) /\ f \in Seq(Entry)
    /\ o \in 0..(Limit - 1) /\ d \in Nat
    /\ Len(a) <= Limit
    /\ Len(a) < Limit => o = 0 /\ d = 0
    /\ Len(f) = Len(a) + d
    /\ \A m \in 1..Len(a) : Tells(a[m], f[d + Age(m, o, Len(a))], c)

LEMMA Successor ==
  ASSUME NEW n \in Nat \ {0}, NEW o \in 0..(n - 1)
  PROVE  (o + 1) % n = IF o + 1 = n THEN 0 ELSE o + 1
OBVIOUS

LEMMA AppendFacts ==
  ASSUME NEW f \in Seq(Entry), NEW t \in Entry
  PROVE  /\ Append(f, t) \in Seq(Entry)
         /\ Len(Append(f, t)) = Len(f) + 1
         /\ Append(f, t)[Len(f) + 1] = t
         /\ \A j \in 1..Len(f) : Append(f, t)[j] = f[j]
OBVIOUS

\* An item pushed to a ring that has room.
LEMMA PushRoom ==
  ASSUME NEW a, NEW o, NEW d, NEW f, NEW c, NEW v \in Entry, NEW t \in Entry,
         Holds(a, o, d, f, c), Tells(v, t, c), Len(a) < Limit
  PROVE  Holds(Append(a, v), o, d, Append(f, t), c)
<1>1. /\ a \in Seq(Entry) /\ f \in Seq(Entry) /\ Len(a) \in Nat
      /\ o = 0 /\ d = 0 /\ Len(f) = Len(a) /\ Limit \in Nat \ {0}
  BY RecorderLimits DEF Holds
<1>2. \A m \in 1..Len(a) : Age(m, 0, Len(a)) = m
  BY <1>1 DEF Age
<1>3. \A m \in 1..Len(a) : Tells(a[m], f[m], c)
  BY <1>1, <1>2 DEF Holds
<1>4. ASSUME NEW m \in 1..(Len(a) + 1) PROVE Tells(Append(a, v)[m], Append(f, t)[m], c)
  <2>1. CASE m = Len(a) + 1
    BY <2>1, <1>1, AppendFacts
  <2>2. CASE m \in 1..Len(a)
    <3>1. Append(a, v)[m] = a[m] /\ Append(f, t)[m] = f[m]
      BY <2>2, <1>1, AppendFacts
    <3>2. QED
      BY <3>1, <2>2, <1>3
  <2>3. QED
    BY <2>1, <2>2, <1>1
<1>5. \A m \in 1..(Len(a) + 1) : 0 + Age(m, 0, Len(a) + 1) = m
  BY <1>1 DEF Age
<1>6. QED
  BY <1>1, <1>4, <1>5, AppendFacts DEF Holds

\* An item pushed to a full ring takes the place of the oldest.
LEMMA PushFull ==
  ASSUME NEW a, NEW o, NEW d, NEW f, NEW c, NEW v \in Entry, NEW t \in Entry,
         Holds(a, o, d, f, c), Tells(v, t, c), Len(a) = Limit
  PROVE  Holds([a EXCEPT ![o + 1] = v], (o + 1) % Limit, d + 1, Append(f, t), c)
<1> DEFINE b == [a EXCEPT ![o + 1] = v]
           p == IF o + 1 = Limit THEN 0 ELSE o + 1
<1>1. /\ a \in Seq(Entry) /\ f \in Seq(Entry) /\ Limit \in Nat \ {0}
      /\ o \in 0..(Limit - 1) /\ d \in Nat /\ Len(f) = Limit + d
  BY RecorderLimits DEF Holds
<1>2. (o + 1) % Limit = p
  BY <1>1, Successor
<1>3. p \in 0..(Limit - 1)
  BY <1>1
<1>4. /\ b \in Seq(Entry) /\ Len(b) = Limit /\ b[o + 1] = v
      /\ \A m \in 1..Limit : m # o + 1 => b[m] = a[m]
  BY <1>1
<1>5. ASSUME NEW m \in 1..Limit
      PROVE  Tells(b[m], Append(f, t)[(d + 1) + Age(m, p, Limit)], c)
  <2>1. CASE m = o + 1
    <3>1. (d + 1) + Age(m, p, Limit) = Len(f) + 1
      BY <2>1, <1>1 DEF Age
    <3>2. QED
      BY <3>1, <2>1, <1>1, <1>4, AppendFacts
  <2>2. CASE m # o + 1
    <3>1. /\ (d + 1) + Age(m, p, Limit) = d + Age(m, o, Limit)
          /\ d + Age(m, o, Limit) \in 1..Len(f)
      BY <2>2, <1>1 DEF Age
    <3>2. Tells(a[m], f[d + Age(m, o, Limit)], c)
      BY <1>1 DEF Holds
    <3>3. Append(f, t)[d + Age(m, o, Limit)] = f[d + Age(m, o, Limit)]
      BY <3>1, <1>1, AppendFacts
    <3>4. b[m] = a[m]
      BY <2>2, <1>4
    <3>5. QED
      BY <3>1, <3>2, <3>3, <3>4
  <2>3. QED
    BY <2>1, <2>2
<1> HIDE DEF b, p
<1>6. Append(f, t) \in Seq(Entry) /\ Len(Append(f, t)) = Limit + (d + 1)
  BY <1>1, AppendFacts
<1>7. /\ d + 1 \in Nat /\ Len(b) <= Limit /\ ~(Len(b) < Limit)
      /\ Len(Append(f, t)) = Len(b) + (d + 1)
  BY <1>1, <1>4, <1>6
<1>8. \A m \in 1..Len(b) : Tells(b[m], Append(f, t)[(d + 1) + Age(m, p, Len(b))], c)
  BY <1>4, <1>5
<1>9. Holds(b, p, d + 1, Append(f, t), c)
  BY <1>3, <1>4, <1>6, <1>7, <1>8, Zenon DEF Holds
<1>10. QED
  BY <1>2, <1>9 DEF b

\* An item pushed to the ring the recorder has.
LEMMA PushKeeps ==
  ASSUME NEW a, NEW o, NEW d, NEW f, NEW c, NEW v \in Entry, NEW t \in Entry,
         Holds(a, o, d, f, c), Tells(v, t, c),
         NEW r, r = Recorder!PushTo([items |-> a, first |-> o, dropped |-> d], v)
  PROVE  /\ r = [items |-> r.items, first |-> r.first, dropped |-> r.dropped]
         /\ Holds(r.items, r.first, r.dropped, Append(f, t), c)
<1>1. Len(a) \in Nat /\ Len(a) <= Limit /\ Limit \in Nat
  BY RecorderLimits DEF Holds
<1>2. CASE Len(a) < Limit
  <2>1. r = [items |-> Append(a, v), first |-> o, dropped |-> d]
    BY <1>2 DEF Recorder!PushTo
  <2>2. r.items = Append(a, v) /\ r.first = o /\ r.dropped = d
    BY <2>1
  <2>3. Holds(r.items, r.first, r.dropped, Append(f, t), c)
    BY <2>2, <1>2, PushRoom, Zenon
  <2>4. QED
    BY <2>1, <2>2, <2>3
<1>3. CASE Len(a) = Limit
  <2> DEFINE b == [a EXCEPT ![o + 1] = v]
             p == (o + 1) % Limit
  <2>1. r = [items |-> b, first |-> p, dropped |-> d + 1]
    BY <1>1, <1>3 DEF Recorder!PushTo
  <2>2. Holds(b, p, d + 1, Append(f, t), c)
    BY <1>3, PushFull, Zenon
  <2> HIDE DEF b, p
  <2>3. r.items = b /\ r.first = p /\ r.dropped = d + 1
    BY <2>1
  <2>4. QED
    BY <2>1, <2>2, <2>3
<1>4. QED
  BY <1>1, <1>2, <1>3

\* A crowd only loosens what the ring promises.
LEMMA CrowdLoosens ==
  ASSUME NEW a, NEW o, NEW d, NEW f, NEW c \in BOOLEAN, NEW e \in BOOLEAN,
         Holds(a, o, d, f, c), c => e
  PROVE  Holds(a, o, d, f, e)
BY DEF Holds, Tells

\* What the recorder remembers of the requests in flight.
Remembered ==
    /\ starts \in Nat /\ crowded \in BOOLEAN
    /\ Recorder!InFlight \subseteq Requests
    /\ \A q \in Recorder!InFlight : hop[q] \in {Recorder!First, Recorder!Second}
    /\ DOMAIN pending \subseteq Recorder!InFlight
    /\ \A q \in DOMAIN pending : pending[q] = hop[q]
    /\ ~Recorder!Started => DOMAIN pending = {}
    /\ ~crowded => DOMAIN pending = Recorder!InFlight

Recorded == Recorder!Started => Holds(items, first, dropped, feed, crowded)

RecorderInv == Remembered /\ Recorded

\* What the page does keeps the memory of its requests.
LEMMA RememberedStep == Remembered /\ [Recorder!Next]_(Recorder!vars) => Remembered'
<1> SUFFICES ASSUME Remembered, [Recorder!Next]_(Recorder!vars) PROVE Remembered'
  OBVIOUS
<1> USE DEF Remembered, Recorder!InFlight, Recorder!Started
<1>1. CASE Recorder!Start
  BY <1>1 DEF Recorder!Start
<1>2. ASSUME NEW q \in Requests, Recorder!SendRequest(q) PROVE Remembered'
  <2>1. /\ DOMAIN hop' = DOMAIN hop \cup {q} /\ hop'[q] = Recorder!First
        /\ \A r \in DOMAIN hop : hop'[r] = hop[r]
        /\ starts' = starts /\ q \notin DOMAIN hop
    BY <1>2 DEF Recorder!SendRequest
  <2>2. CASE ~Recorder!Started
    BY <1>2, <2>1, <2>2 DEF Recorder!SendRequest
  <2>3. CASE Recorder!Started /\ Recorder!Cardinality(DOMAIN pending) >= MaxPending
    <3>1. pending' = pending
      BY <1>2, <2>1, <2>3 DEF Recorder!SendRequest, Recorder!Remember
    <3>2. crowded' \in BOOLEAN /\ (crowded => crowded')
      BY <1>2 DEF Recorder!SendRequest
    <3>3. crowded'
      BY <1>2, <2>3, Zenon DEF Recorder!SendRequest
    <3>4. QED
      BY <2>1, <2>3, <3>1, <3>2, <3>3
  <2>4. CASE Recorder!Started /\ ~(Recorder!Cardinality(DOMAIN pending) >= MaxPending)
    <3>1. /\ DOMAIN pending' = DOMAIN pending \cup {q} /\ pending'[q] = Recorder!First
          /\ \A r \in DOMAIN pending : pending'[r] = pending[r]
      BY <1>2, <2>1, <2>4 DEF Recorder!SendRequest, Recorder!Remember
    <3>2. crowded' \in BOOLEAN /\ (crowded => crowded')
      BY <1>2 DEF Recorder!SendRequest
    <3>3. QED
      BY <2>1, <2>4, <3>1, <3>2
  <2>5. QED
    BY <2>2, <2>3, <2>4
<1>3. ASSUME NEW q \in Requests, Recorder!Redirect(q) PROVE Remembered'
  <2>1. /\ DOMAIN hop' = DOMAIN hop /\ hop'[q] = Recorder!Second /\ q \in DOMAIN hop
        /\ \A r \in DOMAIN hop : r # q => hop'[r] = hop[r]
        /\ starts' = starts /\ crowded' = crowded
    BY <1>3 DEF Recorder!Redirect
  <2>2. CASE ~Recorder!Started \/ (q \notin DOMAIN pending
                           /\ Recorder!Cardinality(DOMAIN pending) >= MaxPending)
    <3>1. pending' = pending /\ q \notin DOMAIN pending
      BY <1>3, <2>2 DEF Recorder!Redirect, Recorder!Remember
    <3>2. QED
      BY <2>1, <3>1
  <2>3. CASE Recorder!Started /\ ~(q \notin DOMAIN pending
                           /\ Recorder!Cardinality(DOMAIN pending) >= MaxPending)
    <3>1. /\ DOMAIN pending' = DOMAIN pending \cup {q} /\ pending'[q] = Recorder!Second
          /\ \A r \in DOMAIN pending : r # q => pending'[r] = pending[r]
      BY <1>3, <2>1, <2>3 DEF Recorder!Redirect, Recorder!Remember
    <3>2. QED
      BY <2>1, <2>3, <3>1
  <2>4. QED
    BY <2>2, <2>3
<1>4. ASSUME NEW q \in Requests, Recorder!Finish(q) PROVE Remembered'
  <2>1. /\ DOMAIN hop' = DOMAIN hop \ {q} /\ starts' = starts /\ crowded' = crowded
        /\ \A r \in DOMAIN hop' : hop'[r] = hop[r]
    BY <1>4 DEF Recorder!Finish
  <2>2. CASE Recorder!Started
    <3>1. /\ DOMAIN pending' = DOMAIN pending \ {q}
          /\ \A r \in DOMAIN pending' : pending'[r] = pending[r]
      BY <1>4, <2>2 DEF Recorder!Finish
    <3>2. QED
      BY <2>1, <2>2, <3>1
  <2>3. CASE ~Recorder!Started
    BY <1>4, <2>1, <2>3 DEF Recorder!Finish
  <2>4. QED
    BY <2>2, <2>3
<1>5. CASE UNCHANGED Recorder!vars
  BY <1>5 DEF Recorder!vars
<1>6. QED
  BY <1>1, <1>2, <1>3, <1>4, <1>5 DEF Recorder!Next, Recorder!Event, Recorder!Quiet

\* One item pushed for one event.
LEMMA OnePushed ==
  ASSUME NEW v \in Entry, NEW t \in Entry, NEW c,
         Holds(items, first, dropped, feed, c), Tells(v, t, c),
         Recorder!PushAll(<<v>>), feed' = feed \o <<t>>
  PROVE  Holds(items', first', dropped', feed', c)
<1> DEFINE r == Recorder!PushTo([items |-> items, first |-> first, dropped |-> dropped], v)
<1>1. items' = r.items /\ first' = r.first /\ dropped' = r.dropped
  BY DEF Recorder!PushAll
<1>2. feed' = Append(feed, t)
  BY DEF Holds
<1>3. Holds(r.items, r.first, r.dropped, Append(feed, t), c)
  <2> HIDE DEF r
  <2>1. r = Recorder!PushTo([items |-> items, first |-> first, dropped |-> dropped], v)
    BY DEF r
  <2>2. QED
    BY <2>1, PushKeeps, Zenon
<1> HIDE DEF r
<1>4. QED
  BY <1>1, <1>2, <1>3

\* Two items pushed for the two events of a redirect.
LEMMA TwoPushed ==
  ASSUME NEW v \in Entry, NEW u \in Entry, NEW c,
         Holds(items, first, dropped, feed, c), Tells(v, v, c), Tells(u, u, c),
         Recorder!PushAll(<<v, u>>), feed' = feed \o <<v, u>>
  PROVE  Holds(items', first', dropped', feed', c)
<1> DEFINE r == Recorder!PushTo([items |-> items, first |-> first, dropped |-> dropped], v)
           s == Recorder!PushTo(r, u)
<1>1. items' = s.items /\ first' = s.first /\ dropped' = s.dropped
  BY DEF Recorder!PushAll
<1>2. feed' = Append(Append(feed, v), u)
  <2>1. feed \in Seq(Entry)
    BY DEF Holds
  <2>2. <<v, u>> = <<v>> \o <<u>>
    <3>1. <<v>> \in Seq(Entry) /\ <<v, u>> \in Seq(Entry) /\ <<u>> \in Seq(Entry)
      OBVIOUS
    <3>2. Append(<<v>>, u) = <<v>> \o <<u>>
      BY <3>1, AppendIsConcat
    <3>3. /\ Len(Append(<<v>>, u)) = 2 /\ Append(<<v>>, u) \in Seq(Entry)
          /\ Append(<<v>>, u)[1] = v /\ Append(<<v>>, u)[2] = u
      BY <3>1
    <3>4. \A m \in 1..2 : Append(<<v>>, u)[m] = <<v, u>>[m]
      BY <3>3
    <3>5. Append(<<v>>, u) = <<v, u>>
      BY <3>1, <3>3, <3>4, SeqEqual
    <3>6. QED
      BY <3>2, <3>5
  <2>3. feed \o (<<v>> \o <<u>>) = (feed \o <<v>>) \o <<u>>
    BY <2>1, ConcatAssociative
  <2>4. feed \o <<v>> = Append(feed, v) /\ Append(feed, v) \in Seq(Entry)
    BY <2>1
  <2>5. Append(feed, v) \o <<u>> = Append(Append(feed, v), u)
    BY <2>4
  <2>6. QED
    BY <2>2, <2>3, <2>4, <2>5
<1> HIDE DEF s
<1>3. s = Recorder!PushTo(r, u)
  BY DEF s
<1> HIDE DEF r
<1>4. r = Recorder!PushTo([items |-> items, first |-> first, dropped |-> dropped], v)
  BY DEF r
<1>5. /\ r = [items |-> r.items, first |-> r.first, dropped |-> r.dropped]
      /\ Holds(r.items, r.first, r.dropped, Append(feed, v), c)
  BY <1>4, PushKeeps
<1>6. s = Recorder!PushTo([items |-> r.items, first |-> r.first, dropped |-> r.dropped], u)
  BY <1>3, <1>5, Zenon
<1>7. Holds(s.items, s.first, s.dropped, Append(Append(feed, v), u), c)
  BY <1>5, <1>6, PushKeeps, Zenon
<1>8. QED
  BY <1>1, <1>2, <1>7

\* What the page does is recorded as it was.
LEMMA RecordedStep == Remembered /\ Recorded /\ Remembered' /\ [Recorder!Next]_(Recorder!vars) => Recorded'
<1> SUFFICES ASSUME Remembered, Recorded, Remembered', [Recorder!Next]_(Recorder!vars), Recorder!Started'
             PROVE  Holds(items', first', dropped', feed', crowded')
  BY DEF Recorded
<1>1. CASE Recorder!Start
  <2>1. items' = <<>> /\ first' = 0 /\ dropped' = 0 /\ feed' = <<>>
    BY <1>1 DEF Recorder!Start
  <2>2. QED
    BY <2>1, RecorderLimits DEF Holds
<1>2. ASSUME NEW q \in Requests, Recorder!SendRequest(q)
      PROVE  Holds(items', first', dropped', feed', crowded')
  <2> DEFINE e == Recorder!Network("request", q, Recorder!First)
  <2>1. e \in Entry /\ Tells(e, e, crowded')
    BY DEF Recorder!Network, Entry, Types, URLs, Tells
  <2>2. Recorder!Started /\ crowded \in BOOLEAN /\ crowded' \in BOOLEAN /\ (crowded => crowded')
    BY <1>2 DEF Recorder!SendRequest, Recorder!Started, Remembered
  <2>3. Holds(items, first, dropped, feed, crowded')
    BY <2>2, CrowdLoosens DEF Recorded
  <2>4. Recorder!PushAll(<<e>>) /\ feed' = feed \o <<e>>
    BY <1>2, <2>2 DEF Recorder!SendRequest, Recorder!Record
  <2> HIDE DEF e
  <2>5. QED
    BY <2>1, <2>3, <2>4, OnePushed, Zenon
<1>3. ASSUME NEW q \in Requests, Recorder!Redirect(q)
      PROVE  Holds(items', first', dropped', feed', crowded')
  <2> DEFINE e == Recorder!Network("response", q, Recorder!First)
             g == Recorder!Network("request", q, Recorder!Second)
  <2>1. e \in Entry /\ Tells(e, e, crowded') /\ g \in Entry /\ Tells(g, g, crowded')
    BY DEF Recorder!Network, Entry, Types, URLs, Tells
  <2>2. Recorder!Started /\ crowded' = crowded
    BY <1>3 DEF Recorder!Redirect, Recorder!Started
  <2>3. Holds(items, first, dropped, feed, crowded')
    BY <2>2 DEF Recorded
  <2>4. Recorder!PushAll(<<e, g>>) /\ feed' = feed \o <<e, g>>
    BY <1>3, <2>2 DEF Recorder!Redirect, Recorder!Record
  <2> HIDE DEF e, g
  <2>5. QED
    BY <2>1, <2>3, <2>4, TwoPushed, Zenon
<1>4. ASSUME NEW q \in Requests, Recorder!Finish(q)
      PROVE  Holds(items', first', dropped', feed', crowded')
  <2> DEFINE u == IF q \in DOMAIN pending THEN pending[q] ELSE Recorder!Blank
             e == Recorder!Network("finished", q, u)
             g == Recorder!Network("finished", q, hop[q])
  <2>1. hop[q] \in {Recorder!First, Recorder!Second} /\ (u = hop[q] \/ (crowded /\ u = Recorder!Blank))
    BY <1>4 DEF Recorder!Finish, Remembered, Recorder!InFlight
  <2>2. e \in Entry /\ g \in Entry /\ Tells(e, g, crowded)
    BY <2>1 DEF Recorder!Network, Entry, Types, URLs, Tells
  <2>3. Recorder!Started /\ crowded' = crowded
    BY <1>4 DEF Recorder!Finish, Recorder!Started
  <2>4. Recorder!PushAll(<<e>>) /\ feed' = feed \o <<g>>
    BY <1>4, <2>3 DEF Recorder!Finish, Recorder!Record
  <2> HIDE DEF e, g
  <2>5. Holds(items, first, dropped, feed, crowded)
    BY <2>3 DEF Recorded
  <2>6. Holds(items', first', dropped', feed', crowded)
    BY <2>2, <2>4, <2>5, OnePushed, Zenon
  <2>7. QED
    BY <2>3, <2>6
<1>5. CASE UNCHANGED Recorder!vars
  BY <1>5 DEF Recorder!vars, Recorder!Started, Recorded
<1>6. QED
  BY <1>1, <1>2, <1>3, <1>4, <1>5 DEF Recorder!Next, Recorder!Event, Recorder!Quiet

\* A ring that holds what the page did shows it oldest first.
LEMMA EvidenceFollows == RecorderInv => EvidenceIsRecent
<1> SUFFICES ASSUME RecorderInv, Recorder!Started PROVE EvidenceIsRecent
  BY DEF EvidenceIsRecent, Recorder!EvidenceIsRecent
<1> DEFINE n == Len(items)
<1>1. /\ items \in Seq(Entry) /\ feed \in Seq(Entry) /\ n \in Nat
      /\ first \in 0..(Limit - 1) /\ dropped \in Nat /\ Limit \in Nat \ {0}
      /\ n <= Limit /\ (n < Limit => first = 0 /\ dropped = 0)
      /\ Len(feed) = n + dropped
  BY RecorderLimits DEF RecorderInv, Recorded, Holds
<1>2. \A m \in 1..n : Tells(items[m], feed[dropped + Age(m, first, n)], crowded)
  BY DEF RecorderInv, Recorded, Holds
<1>3. first <= n
  BY <1>1
<1> DEFINE tail == SubSeq(items, first + 1, n)
           head == SubSeq(items, 1, first)
<1>4. /\ tail \in Seq(Entry) /\ Len(tail) = n - first
      /\ \A j \in 1..(n - first) : tail[j] = items[first + j]
  BY <1>1, <1>3
<1>5. /\ head \in Seq(Entry) /\ Len(head) = first
      /\ \A j \in 1..first : head[j] = items[j]
  BY <1>1, <1>3
<1> HIDE DEF tail, head
<1>6. /\ Len(tail \o head) = n
      /\ \A j \in 1..n : (tail \o head)[j] = IF j <= n - first THEN items[first + j]
                                             ELSE items[j - (n - first)]
  <2>1. /\ Len(tail \o head) = Len(tail) + Len(head)
        /\ \A j \in 1..(Len(tail) + Len(head)) :
              (tail \o head)[j] = IF j <= Len(tail) THEN tail[j]
                                  ELSE head[j - Len(tail)]
    BY <1>4, <1>5
  <2>2. Len(tail) + Len(head) = n
    BY <1>1, <1>3, <1>4, <1>5
  <2>3. ASSUME NEW j \in 1..n
        PROVE  (tail \o head)[j] = IF j <= n - first THEN items[first + j]
                                   ELSE items[j - (n - first)]
    <3>1. CASE j <= n - first
      <4>1. j \in 1..(n - first)
        BY <3>1, <1>1, <1>3
      <4>2. QED
        BY <4>1, <3>1, <2>1, <2>2, <1>4
    <3>2. CASE ~(j <= n - first)
      <4>1. j - (n - first) \in 1..first
        BY <3>2, <1>1, <1>3
      <4>2. QED
        BY <4>1, <3>2, <2>1, <2>2, <1>4, <1>5
    <3>3. QED
      BY <3>1, <3>2
  <2>4. QED
    BY <2>1, <2>2, <2>3
<1>7. Recorder!Snapshot = tail \o head
  BY DEF Recorder!Snapshot, tail, head
<1>8. ASSUME NEW j \in 1..n PROVE Tells(Recorder!Snapshot[j], feed[dropped + j], crowded)
  <2>1. CASE j <= n - first
    <3>1. /\ first + j \in 1..n /\ Age(first + j, first, n) = j
      BY <2>1, <1>1 DEF Age
    <3>2. Recorder!Snapshot[j] = items[first + j]
      BY <2>1, <1>6, <1>7
    <3>3. QED
      BY <3>1, <3>2, <1>2
  <2>2. CASE ~(j <= n - first)
    <3>1. /\ j - (n - first) \in 1..n /\ Age(j - (n - first), first, n) = j
      BY <2>2, <1>1 DEF Age
    <3>2. Recorder!Snapshot[j] = items[j - (n - first)]
      BY <2>2, <1>6, <1>7
    <3>3. QED
      BY <3>1, <3>2, <1>2
  <2>3. QED
    BY <2>1, <2>2
<1>9. Len(Recorder!Snapshot) = n /\ Len(feed) - n = dropped
  BY <1>1, <1>6, <1>7
<1>10. n = IF Len(feed) < Limit THEN Len(feed) ELSE Limit
  BY <1>1
<1> HIDE DEF n
<1>11. QED
  BY <1>8, <1>9, <1>10 DEF EvidenceIsRecent, Recorder!EvidenceIsRecent, Tells

\* In every run, whatever the page does between and across the steps, the
\* network shown of a failing step (Recorder.Snapshot) is the page's latest, in
\* order, the rest counted, and each entry names its own request's URL.
THEOREM EvidenceIsTrue == Recorder!Spec => []EvidenceIsRecent
<1>1. Recorder!Init => RecorderInv
  <2>1. DOMAIN <<>> = {}
    OBVIOUS
  <2>2. Recorder!Init => Remembered
    <3>1. Recorder!Init => /\ starts = 0 /\ crowded = FALSE
                  /\ DOMAIN hop = {} /\ DOMAIN pending = {}
      BY <2>1, Zenon DEF Recorder!Init
    <3>2. Recorder!Init => starts \in Nat /\ ~Recorder!Started
      BY <3>1 DEF Recorder!Started
    <3>3. QED
      BY <3>1, <3>2, Zenon DEF Remembered, Recorder!InFlight
  <2>3. Recorder!Init => ~Recorder!Started
    BY DEF Recorder!Init, Recorder!Started
  <2>4. QED
    BY <2>2, <2>3 DEF RecorderInv, Recorded
<1>2. RecorderInv /\ [Recorder!Next]_(Recorder!vars) => RecorderInv'
  BY RememberedStep, RecordedStep DEF RecorderInv
<1>3. RecorderInv => EvidenceIsRecent
  BY EvidenceFollows
<1>4. QED
  BY <1>1, <1>2, <1>3, PTL DEF Recorder!Spec
-----------------------------------------------------------------------------
(* The step and its place.                                                 *)

\* The step is one of the given ones, and the place in it is counted from 1.
FormInv == form \in Forms /\ shots \in CaptureModes /\ k \in Nat \ {0}

LEMMA FormFacts ==
  ASSUME FormInv
  PROVE  /\ form.actions \in Seq(Browser!Kinds) /\ form.expects \in Seq(Browser!Kinds)
         /\ Browser!Wanted \in Seq(Browser!Kinds)
         /\ Len(form.actions) \in Nat /\ Len(Browser!Wanted) \in Nat
         /\ Len(form.actions) <= Len(Browser!Wanted)
<1>1. form.actions \in Seq(Browser!Kinds) /\ form.expects \in Seq(Browser!Kinds)
  BY FormsAreForms DEF FormInv, Browser!AForm
<1>2. /\ Browser!Wanted \in Seq(Browser!Kinds)
      /\ Len(Browser!Wanted) = Len(form.actions) + Len(form.expects)
      /\ Len(form.actions) \in Nat /\ Len(form.expects) \in Nat
  BY <1>1 DEF Browser!Wanted
<1>3. Len(form.actions) <= Len(Browser!Wanted) /\ Len(Browser!Wanted) \in Nat
  <2>1. \A a, b \in Nat : a <= a + b /\ a + b \in Nat
    OBVIOUS
  <2> QED
    BY <1>2, <2>1, Zenon
<1> QED
  BY <1>1, <1>2, <1>3, Zenon

\* The step stays, and the place moves on by one.
LEMMA PlaceStep ==
  ASSUME [Browser!Next]_(Browser!vars)
  PROVE  UNCHANGED <<form, shots>> /\ (k' = k \/ k' = k + 1)
BY Zenon DEF Browser!Next, Browser!Work, Browser!Open, Browser!StartChrome, Browser!Begin,
       Browser!Succeed, Browser!Call, Browser!Perf, Browser!Probe, Browser!Mouse, Browser!Look,
       Browser!Verify, Browser!Poll, Browser!TooLate, Browser!OpenCapture, Browser!Attempt,
       Browser!Read, Browser!WriteRecords, Browser!Report, Browser!TimePasses,
       Browser!BudgetEnds, Browser!AskAgain, Browser!ChromeMutes, Browser!RunDeadline,
       Browser!Terminating, Browser!HeldForever, Browser!vars, Browser!Given,
       Browser!Advance, Browser!Fail, Browser!Remember

LEMMA FormInductive == Browser!Spec => []FormInv
<1>1. Browser!Init => FormInv
  <2>1. 1 \in Nat \ {0}
    OBVIOUS
  <2> QED
    BY <2>1 DEF Browser!Init, FormInv
<1>2. FormInv /\ [Browser!Next]_(Browser!vars) => FormInv'
  <2> SUFFICES ASSUME FormInv, [Browser!Next]_(Browser!vars) PROVE FormInv'
    OBVIOUS
  <2>1. UNCHANGED <<form, shots>> /\ (k' = k \/ k' = k + 1)
    BY PlaceStep
  <2>2. k' \in Nat \ {0}
    BY <2>1 DEF FormInv
  <2> QED
    BY <2>1, <2>2 DEF FormInv
<1> QED
  BY <1>1, <1>2, PTL DEF Browser!Spec

-----------------------------------------------------------------------------
(* Whom a pointer action that ran out of time blames.                      *)

\* A wait for an element remembers what the page said last, and the waits that
\* remember something else are no pointer's.
PointerInv ==
    /\ stage \in {"look", "probe"} => last = said
    /\ stage \in {"call", "poll", "perf"} => Browser!Wanted[k] \notin Browser!Pointers

\* The kinds of a pointer begin where they should.
LEMMA StageOfPointers ==
  ASSUME NEW kind, Browser!StageOf(kind) \in {"call", "poll", "perf"}
  PROVE  kind \notin Browser!Pointers
<1>1. Browser!StageOf("click") = "probe" /\ Browser!StageOf("check") = "look"
  BY DEF Browser!StageOf
<1> QED
  BY <1>1 DEF Browser!Pointers

\* A probe cut short is always one whose action has run out of time, so what the
\* wait remembers is all that the page has said.
LEMMA ProbeBlames ==
  ASSUME PointerInv, Browser!Probe
  PROVE  PointerInv' /\ (stage' = "report" => blame' = "fatal" \/ blame' = said')
                     /\ stage' \in {"report", "mouse", "probe"}
<1>1. PICK r \in Browser!Replies({"hidden", "covered", "ready", "fatal", "failed"}) :
          /\ said' = IF r = "cut" \/ (r = "failed" /\ timer = "fired") THEN said ELSE r
          /\ \/ r \in {"failed", "cut"} /\ Browser!InterruptedByDeadline(r)
                /\ Browser!Fail(last) /\ UNCHANGED last
             \/ r \in {"failed", "cut"} /\ ~Browser!InterruptedByDeadline(r)
                /\ Browser!Remember("failed")
             \/ r = "fatal" /\ Browser!Fail("fatal") /\ UNCHANGED last
             \/ r = "ready" /\ stage' = "mouse" /\ asked' = FALSE
                /\ UNCHANGED <<k, timer, last, blame, timeline, todo>>
             \/ r \in {"hidden", "covered"} /\ Browser!Remember(r)
  BY DEF Browser!Probe
<1>2. stage = "probe" /\ last = said
  BY DEF Browser!Probe, PointerInv
<1>3. r = "cut" => timer \in {"due", "fired"}
  BY <1>1 DEF Browser!Replies
<1>4. CASE r \in {"failed", "cut"} /\ Browser!InterruptedByDeadline(r)
           /\ Browser!Fail(last) /\ UNCHANGED last
  <2>1. stage' = "report" /\ blame' = last
    BY <1>4 DEF Browser!Fail
  <2>2. said' = said
    BY <1>1, <1>4 DEF Browser!InterruptedByDeadline
  <2> QED
    BY <2>1, <2>2, <1>2 DEF PointerInv
<1>5. CASE r \in {"failed", "cut"} /\ ~Browser!InterruptedByDeadline(r)
           /\ Browser!Remember("failed")
  <2>1. stage' = "probe" /\ last' = "failed"
    BY <1>2, <1>5 DEF Browser!Remember
  <2>2. said' = "failed"
    BY <1>1, <1>3, <1>5 DEF Browser!InterruptedByDeadline
  <2> QED
    BY <2>1, <2>2 DEF PointerInv
<1>6. CASE r = "fatal" /\ Browser!Fail("fatal") /\ UNCHANGED last
  BY <1>6 DEF Browser!Fail, PointerInv
<1>7. CASE r = "ready" /\ stage' = "mouse" /\ asked' = FALSE
           /\ UNCHANGED <<k, timer, last, blame, timeline, todo>>
  BY <1>7 DEF PointerInv
<1>8. CASE r \in {"hidden", "covered"} /\ Browser!Remember(r)
  BY <1>1, <1>2, <1>8 DEF Browser!Remember, PointerInv
<1> QED
  BY <1>1, <1>4, <1>5, <1>6, <1>7, <1>8

\* Only a probe of the page sets the blame that counts.
LEMMA BlameStep ==
  FormInv /\ PointerInv /\ BlameIsTrue /\ [Browser!Next]_(Browser!vars)
      => PointerInv' /\ BlameIsTrue'
<1> SUFFICES ASSUME FormInv, PointerInv, BlameIsTrue, [Browser!Next]_(Browser!vars)
             PROVE  PointerInv' /\ BlameIsTrue'
  OBVIOUS
<1> USE DEF Browser!Given, Browser!World, Browser!Waiting, Browser!Evidence
\* What leaves the step, the wait and the blame alone.
<1>1. ASSUME UNCHANGED <<form, stage, k, blame, said, last>>
      PROVE  PointerInv' /\ BlameIsTrue'
  BY <1>1 DEF PointerInv, BlameIsTrue, Browser!BlameIsTrue, Browser!Wanted
<1>2. ASSUME \/ Browser!ChromeMutes \/ Browser!RunDeadline \/ Browser!TimePasses
             \/ Browser!BudgetEnds \/ Browser!AskAgain \/ Browser!OpenCapture
             \/ Browser!Attempt \/ Browser!Read \/ Browser!WriteRecords
             \/ UNCHANGED Browser!vars
      PROVE  PointerInv' /\ BlameIsTrue'
  <2>1. UNCHANGED <<form, stage, k, blame, said, last>>
    BY <1>2 DEF Browser!ChromeMutes, Browser!RunDeadline, Browser!TimePasses,
         Browser!BudgetEnds, Browser!AskAgain, Browser!OpenCapture, Browser!Attempt,
         Browser!Read, Browser!WriteRecords, Browser!vars
  <2> QED
    BY <2>1, <1>1
\* What ends at a place where no wait of a pointer is under way, and blames nobody.
<1>3. ASSUME stage' \in {"begin", "start", "mouse", "verify"}
      PROVE  PointerInv' /\ BlameIsTrue'
  BY <1>3 DEF PointerInv, BlameIsTrue, Browser!BlameIsTrue
\* What blames something else than the page's answers.
<1>4. ASSUME stage' \in {"report", "over"},
             blame' \notin {"hidden", "covered", "failed", Browser!Nothing}
      PROVE  PointerInv' /\ BlameIsTrue'
  BY <1>4 DEF PointerInv, BlameIsTrue, Browser!BlameIsTrue
\* What fails at something else than a pointer.
<1>5. ASSUME stage' = "report", UNCHANGED <<form, k>>,
             Browser!Wanted[k] \notin Browser!Pointers
      PROVE  PointerInv' /\ BlameIsTrue'
  BY <1>5 DEF PointerInv, BlameIsTrue, Browser!BlameIsTrue, Browser!Wanted
<1>6. CASE Browser!Open
  BY <1>6, <1>3 DEF Browser!Open
<1>7. CASE Browser!StartChrome
  <2>1. stage' = "begin" \/ (stage' = "over" /\ blame' = "start")
    BY <1>7 DEF Browser!StartChrome
  <2>2. "start" \notin {"hidden", "covered", "failed", Browser!Nothing}
    BY DEF Browser!Nothing
  <2> QED
    BY <2>1, <2>2, <1>3, <1>4
<1>8. CASE Browser!Begin
  <2>1. /\ stage' = Browser!StageOf(Browser!Wanted[k])
        /\ last' = Browser!Nothing /\ said' = Browser!Nothing
        /\ UNCHANGED <<form, k, blame>>
    BY <1>8 DEF Browser!Begin
  <2>2. Browser!Wanted' = Browser!Wanted
    BY <2>1 DEF Browser!Wanted
  <2>3. PointerInv'
    BY <2>1, <2>2, StageOfPointers DEF PointerInv
  <2>4. Browser!Wanted[k] \in Browser!Pointers => stage' \notin {"report", "over"}
    BY <2>1 DEF Browser!StageOf, Browser!Pointers
  <2>5. BlameIsTrue'
    BY <2>1, <2>2, <2>4 DEF BlameIsTrue, Browser!BlameIsTrue
  <2> QED
    BY <2>3, <2>5
<1>9. CASE Browser!Succeed
  <2>1. stage' = "report" /\ UNCHANGED <<form, k>> /\ k > Len(Browser!Wanted)
    BY <1>9 DEF Browser!Succeed
  <2>2. Browser!Wanted' = Browser!Wanted
    BY <2>1 DEF Browser!Wanted
  <2>3. ~(k' <= Len(Browser!Wanted'))
    BY <2>1, <2>2, FormFacts DEF FormInv
  <2> QED
    BY <2>1, <2>3 DEF PointerInv, BlameIsTrue, Browser!BlameIsTrue
<1>10. CASE Browser!Call \/ Browser!Perf
  <2>1. Browser!Wanted[k] \notin Browser!Pointers
    BY <1>10 DEF Browser!Call, Browser!Perf, PointerInv
  <2>2. \/ stage' = "begin"
        \/ stage' = "report" /\ UNCHANGED <<form, k>>
    BY <1>10 DEF Browser!Call, Browser!Perf, Browser!Advance, Browser!Fail
  <2> QED
    BY <2>1, <2>2, <1>3, <1>5
<1>11. CASE Browser!Poll
  <2>1. stage = "poll" /\ Browser!Wanted[k] \notin Browser!Pointers
    BY <1>11 DEF Browser!Poll, PointerInv
  <2>2. stage' = "begin" \/ (stage' = "poll" /\ UNCHANGED <<form, k, blame>>)
    BY <1>11 DEF Browser!Poll, Browser!Advance, Browser!Remember
  <2>3. CASE stage' = "poll" /\ UNCHANGED <<form, k, blame>>
    BY <2>1, <2>3 DEF PointerInv, BlameIsTrue, Browser!BlameIsTrue, Browser!Wanted
  <2> QED
    BY <2>2, <2>3, <1>3
<1>12. CASE Browser!Probe
  <2>1. PointerInv' /\ (stage' = "report" => blame' = "fatal" \/ blame' = said')
                    /\ stage' \in {"report", "mouse", "probe"}
    BY <1>12, ProbeBlames
  <2>2. "fatal" \notin {"hidden", "covered", "failed", Browser!Nothing}
    BY DEF Browser!Nothing
  <2> QED
    BY <2>1, <2>2 DEF BlameIsTrue, Browser!BlameIsTrue
<1>13. CASE Browser!Mouse
  <2>1. \/ stage' \in {"begin", "verify"}
        \/ stage' = "report" /\ blame' = "mouse"
    BY <1>13 DEF Browser!Mouse, Browser!Advance, Browser!Fail
  <2>2. "mouse" \notin {"hidden", "covered", "failed", Browser!Nothing}
    BY DEF Browser!Nothing
  <2> QED
    BY <2>1, <2>2, <1>3, <1>4
<1>14. CASE Browser!Look
  <2>1. \/ stage' = "begin"
        \/ stage' = "report" /\ blame' \in {"fatal", "radio"}
        \/ stage' \in {"probe", "look"} /\ stage = "look" /\ UNCHANGED <<last, said>>
    BY <1>14 DEF Browser!Look, Browser!Advance, Browser!Fail
  <2>2. {"fatal", "radio"} \cap {"hidden", "covered", "failed", Browser!Nothing} = {}
    BY DEF Browser!Nothing
  <2>3. CASE stage' \in {"probe", "look"} /\ stage = "look" /\ UNCHANGED <<last, said>>
    BY <2>3 DEF PointerInv, BlameIsTrue, Browser!BlameIsTrue
  <2> QED
    BY <2>1, <2>2, <2>3, <1>3, <1>4
<1>15. CASE Browser!Verify
  <2>1. \/ stage' \in {"begin", "verify"}
        \/ stage' = "report" /\ blame' = "unchanged"
    BY <1>15 DEF Browser!Verify, Browser!Advance, Browser!Fail
  <2>2. "unchanged" \notin {"hidden", "covered", "failed", Browser!Nothing}
    BY DEF Browser!Nothing
  <2> QED
    BY <2>1, <2>2, <1>3, <1>4
<1>16. CASE Browser!TooLate
  <2>1. /\ stage' = "report" /\ UNCHANGED <<form, k, last, said>>
        /\ \/ stage = "probe" /\ blame' = last
           \/ blame' \in {"absent", "unchanged"}
           \/ stage = "poll"
    BY <1>16 DEF Browser!TooLate, Browser!Fail
  <2>2. {"absent", "unchanged"} \cap {"hidden", "covered", "failed", Browser!Nothing} = {}
    BY DEF Browser!Nothing
  <2>3. CASE stage = "probe" /\ blame' = last
    BY <2>1, <2>3 DEF PointerInv, BlameIsTrue, Browser!BlameIsTrue
  <2>4. CASE stage = "poll"
    BY <2>1, <2>4, <1>5 DEF PointerInv
  <2> QED
    BY <2>1, <2>2, <2>3, <2>4, <1>4
<1>17. CASE Browser!Report
  BY <1>17 DEF Browser!Report, PointerInv, BlameIsTrue, Browser!BlameIsTrue, Browser!Wanted
<1> QED
  BY <1>2, <1>6, <1>7, <1>8, <1>9, <1>10, <1>11, <1>12, <1>13, <1>14, <1>15, <1>16, <1>17
     DEF Browser!Next, Browser!Work, Browser!Terminating, Browser!HeldForever

\* A pointer action that runs out of time is blamed on what the page last said of the
\* element, whichever of the two timers that are due at once fires first
\* (chrome/actionability.go, awaitActionable and interruptedByDeadline).
THEOREM PointersBlameThePage == Browser!Spec => []BlameIsTrue
<1>1. Browser!Init => PointerInv /\ BlameIsTrue
  BY DEF Browser!Init, PointerInv, BlameIsTrue, Browser!BlameIsTrue
<1> QED
  BY <1>1, FormInductive, BlameStep, PTL DEF Browser!Spec
-----------------------------------------------------------------------------
(* Timelines: the actions that passed, the one that failed and those that   *)
(* were queued behind it.                                                  *)

Passes(n) == [j \in 1..n |-> "pass"]

LEMMA PassesFacts ==
  ASSUME NEW n \in Nat
  PROVE  /\ Passes(n) \in Seq({"pass"}) /\ Len(Passes(n)) = n
         /\ DOMAIN Passes(n) = 1..n
         /\ \A j \in 1..n : Passes(n)[j] = "pass"
         /\ Append(Passes(n), "pass") = Passes(n + 1)
<1>1. /\ Passes(n) \in Seq({"pass"}) /\ Len(Passes(n)) = n
      /\ DOMAIN Passes(n) = 1..n
      /\ \A j \in 1..n : Passes(n)[j] = "pass"
  BY DEF Passes
<1>2. Append(Passes(n), "pass") = Passes(n + 1)
  <2>1. /\ Passes(n + 1) \in Seq({"pass"}) /\ Len(Passes(n + 1)) = n + 1
        /\ \A j \in 1..(n + 1) : Passes(n + 1)[j] = "pass"
    BY DEF Passes
  <2>2. /\ Append(Passes(n), "pass") \in Seq({"pass"})
        /\ Len(Append(Passes(n), "pass")) = n + 1
        /\ \A j \in 1..(n + 1) : Append(Passes(n), "pass")[j] = "pass"
    BY <1>1
  <2> QED
    BY <2>1, <2>2, SeqEqual
<1> QED
  BY <1>1, <1>2

\* A timeline of n actions whose q-th has failed.
FailedAt(t, n, q, s) ==
    /\ Len(t) = n /\ DOMAIN t = 1..n
    /\ \A j \in 1..n : t[j] = IF j < q THEN "pass" ELSE IF j = q THEN "fail" ELSE s

\* The parts of a timeline of n actions whose q-th has failed, over the marks S.
Parted(S, n, q, s, a, b, c) ==
    /\ n \in Nat /\ q \in 1..n
    /\ a \in Seq(S) /\ Len(a) = q - 1 /\ \A j \in 1..(q - 1) : a[j] = "pass"
    /\ b \in Seq(S) /\ Len(b) = 1 /\ b[1] = "fail"
    /\ c \in Seq(S) /\ Len(c) = n - q /\ \A j \in 1..(n - q) : c[j] = s

LEMMA TimelineShape ==
  ASSUME NEW S, NEW n, NEW q, NEW s, NEW a, NEW b, NEW c, Parted(S, n, q, s, a, b, c)
  PROVE  FailedAt(a \o (b \o c), n, q, s)
<1>0. /\ n \in Nat /\ q \in 1..n
      /\ a \in Seq(S) /\ Len(a) = q - 1 /\ \A j \in 1..(q - 1) : a[j] = "pass"
      /\ b \in Seq(S) /\ Len(b) = 1 /\ b[1] = "fail"
      /\ c \in Seq(S) /\ Len(c) = n - q /\ \A j \in 1..(n - q) : c[j] = s
  BY DEF Parted
<1>1. /\ b \o c \in Seq(S) /\ Len(b \o c) = 1 + (n - q)
      /\ \A j \in 1..(1 + (n - q)) : (b \o c)[j] = IF j <= 1 THEN b[j] ELSE c[j - 1]
  <2>1. /\ b \o c \in Seq(S) /\ Len(b \o c) = Len(b) + Len(c)
        /\ \A j \in 1..Len(b) + Len(c) :
              (b \o c)[j] = IF j <= Len(b) THEN b[j] ELSE c[j - Len(b)]
    BY <1>0, ConcatProperties, Zenon
  <2> QED
    BY <1>0, <2>1
<1>2. PICK d : d = b \o c
  OBVIOUS
<1>3. /\ d \in Seq(S) /\ Len(d) = 1 + (n - q) /\ d[1] = "fail"
      /\ \A j \in 1..(1 + (n - q)) : d[j] = IF j <= 1 THEN b[j] ELSE c[j - 1]
  BY <1>0, <1>1, <1>2
<1>4. \A j \in 1..(n - q) : d[1 + j] = s
  <2>1. \A j \in 1..(n - q) : 1 + j \in 1..(1 + (n - q)) /\ ~(1 + j <= 1) /\ (1 + j) - 1 = j
    BY <1>0
  <2> QED
    BY <1>0, <1>3, <2>1
<1>5. /\ a \o d \in Seq(S) /\ Len(a \o d) = (q - 1) + (1 + (n - q))
      /\ \A j \in 1..((q - 1) + (1 + (n - q))) :
            (a \o d)[j] = IF j <= q - 1 THEN a[j] ELSE d[j - (q - 1)]
  <2>1. /\ a \o d \in Seq(S) /\ Len(a \o d) = Len(a) + Len(d)
        /\ \A j \in 1..Len(a) + Len(d) :
              (a \o d)[j] = IF j <= Len(a) THEN a[j] ELSE d[j - Len(a)]
    BY <1>0, <1>3, ConcatProperties, Zenon
  <2> QED
    BY <1>0, <1>3, <2>1
<1>6. (q - 1) + (1 + (n - q)) = n
  BY <1>0
<1>7. PICK t : t = a \o d
  OBVIOUS
<1>8. /\ t \in Seq(S) /\ Len(t) = n
      /\ \A j \in 1..n : t[j] = IF j <= q - 1 THEN a[j] ELSE d[j - (q - 1)]
  BY <1>0, <1>5, <1>6, <1>7
<1>9. ASSUME NEW j \in 1..n
      PROVE  t[j] = IF j < q THEN "pass" ELSE IF j = q THEN "fail" ELSE s
  <2>1. CASE j < q
    <3>1. j <= q - 1 /\ j \in 1..(q - 1)
      BY <1>0, <2>1
    <3> QED
      BY <1>0, <3>1, <1>8, <2>1
  <2>2. CASE j = q
    <3>1. ~(j <= q - 1) /\ j - (q - 1) = 1 /\ ~(j < q)
      BY <1>0, <2>2
    <3> QED
      BY <1>0, <3>1, <1>3, <1>8, <2>2
  <2>3. CASE j > q
    <3>1. ~(j <= q - 1) /\ j - q \in 1..(n - q) /\ j - (q - 1) = 1 + (j - q)
          /\ ~(j < q) /\ j # q
      BY <1>0, <2>3
    <3>2. t[j] = d[1 + (j - q)]
      BY <1>0, <3>1, <1>8
    <3>3. d[1 + (j - q)] = s
      BY <1>0, <3>1, <1>4
    <3> QED
      BY <1>0, <3>1, <3>2, <3>3
  <2> QED
    BY <1>0, <2>1, <2>2, <2>3
<1>10. DOMAIN t = 1..n
  BY <1>0, <1>8
<1> QED
  BY <1>2, <1>7, <1>8, <1>9, <1>10 DEF FailedAt

LEMMA FailedTimeline ==
  ASSUME NEW n \in Nat, NEW q \in 1..n, NEW s
  PROVE  FailedAt(Passes(q - 1) \o (<<"fail">> \o [j \in 1..(n - q) |-> s]), n, q, s)
<1>1. PICK S : S = {"pass", "fail", s}
  OBVIOUS
<1>2. PICK c : c = [j \in 1..(n - q) |-> s]
  OBVIOUS
<1>3. q - 1 \in Nat /\ n - q \in Nat
  OBVIOUS
<1>4. c \in Seq(S) /\ Len(c) = n - q /\ \A j \in 1..(n - q) : c[j] = s
  BY <1>1, <1>2, <1>3
<1>5. /\ Passes(q - 1) \in Seq(S) /\ Len(Passes(q - 1)) = q - 1
      /\ \A j \in 1..(q - 1) : Passes(q - 1)[j] = "pass"
  BY <1>1, <1>3 DEF Passes
<1>6. <<"fail">> \in Seq(S) /\ Len(<<"fail">>) = 1 /\ <<"fail">>[1] = "fail"
  BY <1>1
<1>7. PICK a, b : a = Passes(q - 1) /\ b = <<"fail">>
  OBVIOUS
<1>8. /\ a \in Seq(S) /\ Len(a) = q - 1 /\ \A j \in 1..(q - 1) : a[j] = "pass"
      /\ b \in Seq(S) /\ Len(b) = 1 /\ b[1] = "fail"
  BY <1>5, <1>6, <1>7, Zenon
<1>11. Parted(S, n, q, s, a, b, c)
  BY <1>4, <1>8 DEF Parted
<1>9. FailedAt(a \o (b \o c), n, q, s)
  BY <1>11, TimelineShape
<1>10. a \o (b \o c) = Passes(q - 1) \o (<<"fail">> \o [j \in 1..(n - q) |-> s])
  BY <1>2, <1>7, Zenon
<1> QED
  BY <1>9, <1>10, Zenon
-----------------------------------------------------------------------------
(* A failed browser step is written up.                                    *)

ToDos == {"shot", "dom", "state", "records", "read"}

\* How many actions have passed before the place the step is at.
Reached == IF Browser!AnAction(k) THEN k - 1 ELSE Len(form.actions)

Over == stage \in {"report", "over"}
FailedInPlace == k <= Len(Browser!Wanted) /\ blame # "start"

\* The console and the network are written, or the last thing still to do.
RecordsInHand ==
    \/ {"console", "network"} \subseteq files
    \/ todo # <<>> /\ todo[Len(todo)] = "records"

TimelineIsWhole ==
    /\ Len(timeline) = Len(form.actions)
    /\ \A j \in DOMAIN timeline :
          timeline[j] = IF j < k THEN "pass" ELSE IF j = k THEN "fail" ELSE "skipped"

\* The inductive invariant: what is written up of a failure, and what is written up
\* or still to do while the step goes on.
DocInv ==
    /\ todo \in Seq(ToDos)
    /\ ~Over => timeline = Passes(Reached)
    /\ Over /\ FailedInPlace => TimelineIsWhole
    /\ stage = "report" /\ FailedInPlace /\ shots # "none" => RecordsInHand
    /\ stage = "over" /\ FailedInPlace /\ shots # "none"
           => {"console", "network"} \subseteq files

LEMMA IfIsTodo ==
  ASSUME NEW c, NEW s \in Seq(ToDos)
  PROVE  Browser!If(c, s) \in Seq(ToDos)
<1>1. <<>> \in Seq(ToDos)
  OBVIOUS
<1> QED
  BY <1>1 DEF Browser!If

LEMMA TodoConcat ==
  ASSUME NEW s \in Seq(ToDos), NEW t \in Seq(ToDos)
  PROVE  /\ s \o t \in Seq(ToDos)
         /\ t # <<>> => s \o t # <<>> /\ (s \o t)[Len(s \o t)] = t[Len(t)]
<1>1. /\ s \o t \in Seq(ToDos) /\ Len(s \o t) = Len(s) + Len(t)
      /\ \A j \in 1..Len(s) + Len(t) :
            (s \o t)[j] = IF j <= Len(s) THEN s[j] ELSE t[j - Len(s)]
  BY ConcatProperties, Zenon
<1>2. Len(s) \in Nat /\ Len(t) \in Nat
  OBVIOUS
<1>3. ASSUME t # <<>>
      PROVE  s \o t # <<>> /\ (s \o t)[Len(s \o t)] = t[Len(t)]
  <2>1. Len(t) > 0
    BY <1>3
  <2>2. Len(s) + Len(t) \in 1..Len(s) + Len(t) /\ ~(Len(s) + Len(t) <= Len(s))
        /\ (Len(s) + Len(t)) - Len(s) = Len(t)
    BY <1>2, <2>1
  <2>3. (s \o t)[Len(s) + Len(t)] = t[Len(t)]
    BY <1>1, <2>2
  <2>4. s \o t # <<>>
    BY <1>1, <1>2, <2>1
  <2> QED
    BY <1>1, <2>3, <2>4, Zenon
<1> QED
  BY <1>1, <1>3

LEMMA TodoWords ==
  /\ <<>> \in Seq(ToDos) /\ <<"read", "read">> \in Seq(ToDos)
  /\ <<"read", "read", "read", "read">> \in Seq(ToDos)
  /\ Browser!Capture \in Seq(ToDos) /\ Browser!Diagnostics \in Seq(ToDos)
  /\ Browser!Diagnostics # <<>> /\ Browser!Diagnostics[Len(Browser!Diagnostics)] = "records"
BY DEF ToDos, Browser!Capture, Browser!Diagnostics

\* What is still to do after a failure ends with the records, if the mode wants any.
LEMMA FailTodo ==
  ASSUME NEW c
  PROVE  LET t == Browser!If(c, Browser!Capture) \o <<"read", "read">>
                  \o Browser!If(shots # "none", Browser!Capture \o Browser!Diagnostics)
         IN /\ t \in Seq(ToDos)
            /\ shots # "none" => t # <<>> /\ t[Len(t)] = "records"
<1>1. PICK a : a = Browser!If(c, Browser!Capture) \o <<"read", "read">>
  OBVIOUS
<1>2. a \in Seq(ToDos)
  BY <1>1, IfIsTodo, TodoConcat, TodoWords, Zenon
<1>3. PICK b : b = Browser!Capture \o Browser!Diagnostics
  OBVIOUS
<1>4. b \in Seq(ToDos) /\ b # <<>> /\ b[Len(b)] = "records"
  BY <1>3, TodoConcat, TodoWords, Zenon
<1>5. PICK d : d = Browser!If(shots # "none", b)
  OBVIOUS
<1>6. d \in Seq(ToDos)
  BY <1>4, <1>5, IfIsTodo, Zenon
<1>7. shots # "none" => d = b
  BY <1>5 DEF Browser!If
<1>8. /\ a \o d \in Seq(ToDos)
      /\ d # <<>> => a \o d # <<>> /\ (a \o d)[Len(a \o d)] = d[Len(d)]
  BY <1>2, <1>6, TodoConcat, Zenon
<1>9. /\ a \o d \in Seq(ToDos)
      /\ shots # "none" => a \o d # <<>> /\ (a \o d)[Len(a \o d)] = "records"
  BY <1>4, <1>7, <1>8, Zenon
<1> QED
  BY <1>1, <1>3, <1>5, <1>9, Zenon

\* Whatever leaves the step's place and its evidence alone.
LEMMA DocStays ==
  ASSUME DocInv, UNCHANGED <<form, shots, stage, k, blame, timeline, todo, files>>
  PROVE  DocInv'
BY DEF DocInv, Over, FailedInPlace, Reached, RecordsInHand, TimelineIsWhole,
       Browser!AnAction, Browser!Wanted

\* Whatever goes on to another part of the same action or expectation.
LEMMA DocGoesOn ==
  ASSUME DocInv, ~Over, stage' \notin {"report", "over"},
         UNCHANGED <<form, k, timeline, todo>>
  PROVE  DocInv'
BY DEF DocInv, Over, Reached, Browser!AnAction

\* An action or an expectation is done.
LEMMA DocAdvances ==
  ASSUME FormInv, DocInv, ~Over, Browser!Advance, UNCHANGED <<form, shots>>
  PROVE  DocInv'
<1>1. /\ stage' = "begin" /\ k' = k + 1
      /\ timeline' = IF Browser!AnAction(k) THEN Append(timeline, "pass") ELSE timeline
      /\ todo' = Browser!If(Browser!AnAction(k) /\ shots = "actions", Browser!Capture)
  BY DEF Browser!Advance
<1>2. todo' \in Seq(ToDos)
  BY <1>1, IfIsTodo, TodoWords, Zenon
<1>3. PICK n \in Nat : n = Len(form.actions)
  BY FormFacts
<1>4. k \in Nat \ {0} /\ timeline = Passes(Reached)
  BY DEF FormInv, DocInv
<1>5. timeline' = Passes(Reached')
  <2>1. CASE k <= n
    <3>1. Reached = k - 1 /\ k - 1 \in Nat /\ timeline' = Append(timeline, "pass")
      BY <1>1, <1>3, <1>4, <2>1 DEF Reached, Browser!AnAction
    <3>2. timeline' = Passes((k - 1) + 1)
      BY <1>4, <3>1, PassesFacts
    <3>3. (k - 1) + 1 = k
      BY <1>4
    <3>4. Reached' = k
      <4>1. Reached' = IF k + 1 <= n THEN (k + 1) - 1 ELSE n
        BY <1>1, <1>3 DEF Reached, Browser!AnAction
      <4> QED
        BY <4>1, <1>4, <2>1
    <3> QED
      BY <3>2, <3>3, <3>4
  <2>2. CASE ~(k <= n)
    <3>1. timeline' = timeline /\ Reached = n
      BY <1>1, <1>3, <2>2 DEF Reached, Browser!AnAction
    <3>2. Reached' = IF k + 1 <= n THEN (k + 1) - 1 ELSE n
      BY <1>1, <1>3 DEF Reached, Browser!AnAction
    <3>3. ~(k + 1 <= n)
      BY <1>4, <2>2
    <3> QED
      BY <3>1, <3>2, <3>3, <1>4
  <2> QED
    BY <2>1, <2>2
<1> QED
  BY <1>1, <1>2, <1>5 DEF DocInv, Over

\* An action or an expectation fails.
LEMMA DocFails ==
  ASSUME FormInv, DocInv, ~Over, NEW e, Browser!Fail(e), UNCHANGED <<form, shots>>
  PROVE  DocInv'
<1>1. /\ stage' = "report" /\ k' = k
      /\ timeline' = timeline \o
            Browser!If(Browser!AnAction(k),
                <<"fail">> \o [j \in 1..(Len(form.actions) - k) |-> "skipped"])
      /\ todo' = Browser!If(Browser!AnAction(k) /\ shots # "none", Browser!Capture)
                 \o <<"read", "read">>
                 \o Browser!If(shots # "none", Browser!Capture \o Browser!Diagnostics)
  BY DEF Browser!Fail
<1>2. /\ todo' \in Seq(ToDos)
      /\ shots # "none" => todo' # <<>> /\ todo'[Len(todo')] = "records"
  BY <1>1, FailTodo, Zenon
<1>3. PICK n \in Nat : n = Len(form.actions)
  BY FormFacts
<1>4. k \in Nat \ {0} /\ timeline = Passes(Reached)
  BY DEF FormInv, DocInv
<1>5. /\ Len(timeline') = n
      /\ \A j \in DOMAIN timeline' :
            timeline'[j] = IF j < k THEN "pass" ELSE IF j = k THEN "fail" ELSE "skipped"
  <2>1. CASE k <= n
    <3>1. k \in 1..n
      BY <1>4, <2>1
    <3>2. Reached = k - 1 /\ Browser!AnAction(k)
      BY <1>3, <2>1 DEF Reached, Browser!AnAction
    <3>3. timeline' = Passes(k - 1) \o (<<"fail">> \o [j \in 1..(n - k) |-> "skipped"])
      BY <1>1, <1>3, <1>4, <3>2, Zenon DEF Browser!If
    <3>4. FailedAt(timeline', n, k, "skipped")
      BY <3>1, <3>3, FailedTimeline, Zenon
    <3> QED
      BY <3>4, Zenon DEF FailedAt
  <2>2. CASE ~(k <= n)
    <3>1. Reached = n /\ ~Browser!AnAction(k)
      BY <1>3, <2>2 DEF Reached, Browser!AnAction
    <3>2. timeline' = Passes(n) \o <<>>
      BY <1>1, <1>4, <3>1, Zenon DEF Browser!If
    <3>3. timeline' = Passes(n)
      BY <3>2, PassesFacts, ConcatEmptySeq
    <3>4. \A j \in 1..n : j < k
      BY <1>4, <2>2
    <3> QED
      BY <3>3, <3>4, PassesFacts
  <2> QED
    BY <2>1, <2>2
<1>6. TimelineIsWhole'
  BY <1>1, <1>3, <1>5 DEF TimelineIsWhole
<1> QED
  BY <1>1, <1>2, <1>6 DEF DocInv, Over, RecordsInHand

\* Something to do is done: the rest is left to do, and the records go to their files.
LEMMA DocDoes ==
  ASSUME DocInv, todo # <<>>, todo' = Tail(todo), files \subseteq files',
         Head(todo) = "records" => {"console", "network"} \subseteq files',
         UNCHANGED <<form, shots, stage, k, blame, timeline>>
  PROVE  DocInv'
<1>1. todo \in Seq(ToDos)
  BY DEF DocInv
<1>2. todo' \in Seq(ToDos)
  BY <1>1
<1>3. RecordsInHand => RecordsInHand'
  <2>1. CASE {"console", "network"} \subseteq files
    BY <2>1 DEF RecordsInHand
  <2>2. CASE todo[Len(todo)] = "records" /\ Len(todo) = 1
    <3>1. Head(todo) = "records"
      BY <1>1, <2>2
    <3> QED
      BY <3>1 DEF RecordsInHand
  <2>3. CASE todo[Len(todo)] = "records" /\ Len(todo) # 1
    <3>1. /\ Len(Tail(todo)) = Len(todo) - 1 /\ Len(todo) \in Nat /\ Len(todo) # 0
          /\ \A j \in 1..(Len(todo) - 1) : Tail(todo)[j] = todo[j + 1]
      BY <1>1
    <3>2. Len(todo) - 1 \in 1..(Len(todo) - 1) /\ (Len(todo) - 1) + 1 = Len(todo)
      BY <3>1, <2>3
    <3>3. todo'[Len(todo')] = "records" /\ Len(todo') # 0
      BY <3>1, <3>2, <2>3
    <3>4. todo' # <<>>
      BY <3>3
    <3> QED
      BY <3>3, <3>4 DEF RecordsInHand
  <2> QED
    BY <2>1, <2>2, <2>3 DEF RecordsInHand
<1> QED
  BY <1>2, <1>3 DEF DocInv, Over, FailedInPlace, Reached, TimelineIsWhole,
       Browser!AnAction, Browser!Wanted

\* What a wait or a call comes to.
WaitEnds ==
    /\ ~Over /\ UNCHANGED <<form, shots>>
    /\ \/ Browser!Advance
       \/ \E e : Browser!Fail(e)
       \/ stage' \notin {"report", "over"} /\ UNCHANGED <<k, timeline, todo>>

LEMMA WaitsEnd ==
  ASSUME \/ Browser!Call \/ Browser!Perf \/ Browser!Probe \/ Browser!Mouse \/ Browser!Look
         \/ Browser!Verify \/ Browser!Poll \/ Browser!TooLate
  PROVE  WaitEnds
<1> USE DEF WaitEnds, Over, Browser!Given
<1>1. CASE Browser!Call
  BY <1>1, Zenon DEF Browser!Call
<1>2. CASE Browser!Perf
  BY <1>2, Zenon DEF Browser!Perf
<1>3. CASE Browser!Probe
  BY <1>3 DEF Browser!Probe, Browser!Remember
<1>4. CASE Browser!Mouse
  BY <1>4 DEF Browser!Mouse
<1>5. CASE Browser!Look
  BY <1>5 DEF Browser!Look
<1>6. CASE Browser!Verify
  BY <1>6 DEF Browser!Verify
<1>7. CASE Browser!Poll
  BY <1>7 DEF Browser!Poll, Browser!Remember
<1>8. CASE Browser!TooLate
  BY <1>8 DEF Browser!TooLate
<1> QED
  BY <1>1, <1>2, <1>3, <1>4, <1>5, <1>6, <1>7, <1>8

LEMMA DocStep ==
  FormInv /\ DocInv /\ [Browser!Next]_(Browser!vars) => DocInv'
<1> SUFFICES ASSUME FormInv, DocInv, [Browser!Next]_(Browser!vars) PROVE DocInv'
  OBVIOUS
<1> USE DEF Browser!Given, Browser!World, Browser!Waiting, Browser!Evidence
<1>1. CASE \/ Browser!ChromeMutes \/ Browser!RunDeadline \/ Browser!TimePasses
           \/ Browser!BudgetEnds \/ Browser!AskAgain \/ Browser!OpenCapture
           \/ UNCHANGED Browser!vars
  <2>1. UNCHANGED <<form, shots, stage, k, blame, timeline, todo, files>>
    BY <1>1 DEF Browser!ChromeMutes, Browser!RunDeadline, Browser!TimePasses,
         Browser!BudgetEnds, Browser!AskAgain, Browser!OpenCapture, Browser!vars
  <2> QED
    BY <2>1, DocStays
<1>2. CASE Browser!Open
  <2>1. ~Over /\ stage' \notin {"report", "over"} /\ UNCHANGED <<form, k, timeline, todo>>
    BY <1>2 DEF Browser!Open, Over
  <2> QED
    BY <2>1, DocGoesOn
<1>3. CASE Browser!StartChrome
  <2>1. CASE stage' = "begin"
    <3>1. ~Over /\ stage' \notin {"report", "over"} /\ UNCHANGED <<form, k, timeline, todo>>
      BY <1>3, <2>1 DEF Browser!StartChrome, Over
    <3> QED
      BY <3>1, DocGoesOn
  <2>2. CASE stage' = "over" /\ blame' = "start"
    BY <1>3, <2>2 DEF Browser!StartChrome, DocInv, Over, FailedInPlace
  <2> QED
    BY <1>3, <2>1, <2>2 DEF Browser!StartChrome
<1>4. CASE Browser!Begin
  <2>1. /\ ~Over /\ UNCHANGED <<form, k, timeline, todo>>
        /\ stage' = Browser!StageOf(Browser!Wanted[k]) /\ k <= Len(Browser!Wanted)
    BY <1>4 DEF Browser!Begin, Over
  <2>2. k \in 1..Len(Browser!Wanted)
    BY <2>1, FormFacts DEF FormInv
  <2>3. Browser!Wanted[k] \in Browser!Kinds
    BY <2>2, FormFacts
  <2>4. stage' \notin {"report", "over"}
    BY <2>1, <2>3 DEF Browser!StageOf, Browser!Kinds, Browser!Pointers
  <2> QED
    BY <2>1, <2>4, DocGoesOn
<1>5. CASE Browser!Succeed
  <2>1. /\ stage' = "report" /\ k > Len(Browser!Wanted) /\ UNCHANGED <<form, k>>
        /\ todo' = <<"read", "read", "read", "read">>
                   \o Browser!If(shots = "steps", Browser!Capture)
                   \o Browser!If(shots = "actions", Browser!Diagnostics)
    BY <1>5 DEF Browser!Succeed
  <2>2. Browser!Wanted' = Browser!Wanted
    BY <2>1 DEF Browser!Wanted
  <2>3. ~FailedInPlace'
    BY <2>1, <2>2, FormFacts DEF FailedInPlace, FormInv
  <2>4. todo' \in Seq(ToDos)
    BY <2>1, TodoWords, IfIsTodo, TodoConcat, Zenon
  <2> QED
    BY <2>1, <2>3, <2>4 DEF DocInv, Over
<1>6. CASE \/ Browser!Call \/ Browser!Perf \/ Browser!Probe \/ Browser!Mouse \/ Browser!Look
           \/ Browser!Verify \/ Browser!Poll \/ Browser!TooLate
  <2>1. WaitEnds
    BY <1>6, WaitsEnd
  <2> QED
    BY <2>1, DocAdvances, DocFails, DocGoesOn DEF WaitEnds
<1>7. CASE Browser!Attempt
  <2>1. /\ UNCHANGED <<form, shots, stage, k, blame, timeline>> /\ todo # <<>>
        /\ Head(todo) \in Browser!Reads
        /\ \/ UNCHANGED <<todo, files>>
           \/ todo' = Tail(todo) /\ files \subseteq files'
    BY <1>7 DEF Browser!Attempt
  <2>2. Head(todo) # "records"
    BY <2>1 DEF Browser!Reads
  <2> QED
    BY <2>1, <2>2, DocStays, DocDoes
<1>8. CASE Browser!Read
  BY <1>8, DocDoes DEF Browser!Read
<1>9. CASE Browser!WriteRecords
  <2>1. /\ UNCHANGED <<form, shots, stage, k, blame, timeline>> /\ todo # <<>>
        /\ todo' = Tail(todo) /\ files \subseteq files'
        /\ {"console", "network"} \subseteq files'
    BY <1>9 DEF Browser!WriteRecords
  <2> QED
    BY <2>1, DocDoes
<1>10. CASE Browser!Report
  BY <1>10 DEF Browser!Report, DocInv, Over, FailedInPlace, RecordsInHand, TimelineIsWhole,
       Browser!Wanted
<1> QED
  BY <1>1, <1>2, <1>3, <1>4, <1>5, <1>6, <1>7, <1>8, <1>9, <1>10
     DEF Browser!Next, Browser!Work, Browser!Terminating, Browser!HeldForever

LEMMA DocInductive == Browser!Spec => []DocInv
<1>1. Browser!Init => DocInv
  <2> SUFFICES ASSUME Browser!Init PROVE DocInv
    OBVIOUS
  <2>1. stage = "open" /\ k = 1 /\ timeline = <<>> /\ todo = <<>> /\ form \in Forms
    BY DEF Browser!Init
  <2>2. Len(form.actions) \in Nat
    BY <2>1, FormsAreForms DEF Browser!AForm
  <2>3. Reached = 0
    BY <2>1, <2>2 DEF Reached, Browser!AnAction
  <2>4. Passes(0) = <<>>
    BY DEF Passes
  <2> QED
    BY <2>1, <2>3, <2>4 DEF DocInv, Over
<1> QED
  BY <1>1, DocStep, FormInductive, PTL DEF Browser!Spec

\* A browser step that failed has the console and the network written, and every
\* action in its timeline.
LEMMA BrowserFailuresAreDocumented == Browser!Spec => []Browser!FailureIsDocumented
<1>1. DocInv => Browser!FailureIsDocumented
  BY DEF DocInv, Over, FailedInPlace, TimelineIsWhole, Browser!FailureIsDocumented
<1> QED
  BY <1>1, DocInductive, PTL
-----------------------------------------------------------------------------
(* The timeline of a mobile step.                                          *)

Actions == Len(step.actions)
Finals == {Passes(Actions), Append(Passes(Actions), "step_end")}

\* Where an attempt that has not failed yet is, and what its timeline holds there.
TimelineInv ==
    /\ step \in Steps /\ attempt \in Nat /\ i \in Nat
    /\ pc \in {"prep", "stepend", "begin", "wait", "act", "tree", "end"} => err = Mobile!None
    /\ pc = "prep" => i = 1 /\ results = <<>>
    /\ pc = "stepend" => i = Actions + 1 /\ results = Passes(Actions)
    /\ pc \in {"begin", "wait", "act"} =>
          /\ i >= 1
          /\ IF Mobile!IsAction(i) THEN results = Passes(i - 1) ELSE results \in Finals
    /\ pc \in {"tree", "end"} => ~Mobile!IsAction(i) /\ results \in Finals
    /\ Mobile!TimelineAddsUp

LEMMA StepFacts ==
  ASSUME step \in Steps
  PROVE  /\ step.actions \in Seq(Mobile!Kinds) /\ step.expects \in Seq(Mobile!Kinds)
         /\ Mobile!Asks \in Seq(Mobile!Kinds) /\ Actions \in Nat
         /\ Len(Mobile!Asks) \in Nat /\ Actions <= Len(Mobile!Asks)
         /\ step.launch \in {"no", "host", "driver"} /\ step.perms \in Nat
         /\ step.terminate \in BOOLEAN
<1>1. /\ step.actions \in Seq(Mobile!Kinds) /\ step.expects \in Seq(Mobile!Kinds)
      /\ step.launch \in {"no", "host", "driver"} /\ step.perms \in Nat
      /\ step.terminate \in BOOLEAN
  BY StepsAreSteps DEF Mobile!AStep
<1>2. /\ Mobile!Asks \in Seq(Mobile!Kinds)
      /\ Len(Mobile!Asks) = Len(step.actions) + Len(step.expects)
      /\ Len(step.actions) \in Nat /\ Len(step.expects) \in Nat
  BY <1>1 DEF Mobile!Asks
<1>3. Actions <= Len(Mobile!Asks) /\ Len(Mobile!Asks) \in Nat /\ Actions \in Nat
  <2>1. \A a, b \in Nat : a <= a + b /\ a + b \in Nat
    OBVIOUS
  <2> QED
    BY <1>2, <2>1, Zenon DEF Actions
<1> QED
  BY <1>1, <1>2, <1>3, Zenon

\* A failure that is no action's leaves the timeline as it stands.
LEMMA FailsElsewhere ==
  ASSUME TimelineInv, pc' = "salvage", UNCHANGED <<step, i, results, attempt>>,
         \/ pc = "prep"
         \/ pc \in {"wait", "act", "tree", "end"} /\ ~Mobile!IsAction(i)
  PROVE  TimelineInv'
<1>1. results = <<>> \/ (~Mobile!IsAction(i) /\ results \in Finals)
  BY DEF TimelineInv
<1>2. Mobile!IsAction(i)' <=> Mobile!IsAction(i)
  BY DEF Mobile!IsAction
<1>3. Mobile!TimelineAddsUp'
  BY <1>1, <1>2 DEF Mobile!TimelineAddsUp, Finals, Passes, Actions
<1> QED
  BY <1>3 DEF TimelineInv

\* A failure of the action at i: the actions queued behind it are skipped.
LEMMA ActionFails ==
  ASSUME TimelineInv, pc' = "salvage", UNCHANGED <<step, i, attempt>>,
         pc \in {"wait", "act"}, Mobile!IsAction(i), err' # Mobile!None,
         results' = results \o <<"fail">> \o [j \in 1..(Len(step.actions) - i) |-> "skip"]
  PROVE  TimelineInv'
<1>1. results = Passes(i - 1)
  BY DEF TimelineInv
<1>2. Mobile!IsAction(i)'
  BY DEF Mobile!IsAction
<1>3. results' = [j \in 1..(i - 1) |-> "pass"] \o <<"fail">>
                 \o [j \in 1..(Len(step.actions) - i) |-> "skip"]
  BY <1>1 DEF Passes
<1>4. Mobile!TimelineAddsUp'
  BY <1>2, <1>3, Zenon DEF Mobile!TimelineAddsUp
<1> QED
  BY <1>4 DEF TimelineInv

LEMMA AttemptFails ==
  ASSUME TimelineInv, NEW e, e # Mobile!None, Mobile!FailWith(e),
         pc \in {"prep", "wait", "act", "end"}, UNCHANGED <<step, i, attempt>>
  PROVE  TimelineInv'
<1>1. /\ err' = e /\ pc' = "salvage"
      /\ results' = IF Mobile!IsAction(i) /\ pc # "prep"
                    THEN results \o <<"fail">>
                         \o [j \in 1..(Len(step.actions) - i) |-> "skip"]
                    ELSE results
  BY DEF Mobile!FailWith
<1>2. pc = "end" => ~Mobile!IsAction(i)
  BY DEF TimelineInv
<1>3. CASE Mobile!IsAction(i) /\ pc # "prep"
  BY <1>1, <1>2, <1>3, ActionFails
<1>4. CASE ~(Mobile!IsAction(i) /\ pc # "prep")
  BY <1>1, <1>2, <1>4, FailsElsewhere
<1> QED
  BY <1>3, <1>4

\* The action or expectation at i is done.
LEMMA AskDone ==
  ASSUME TimelineInv, Mobile!Advance, pc \in {"wait", "act"},
         UNCHANGED <<step, attempt, err>>
  PROVE  TimelineInv'
<1>1. /\ results' = IF Mobile!IsAction(i) THEN Append(results, "pass") ELSE results
      /\ i' = i + 1
      /\ pc' = IF Mobile!IsAction(i) THEN Mobile!Arrive(i + 1) ELSE "begin"
  BY DEF Mobile!Advance
<1>2. PICK n \in Nat : n = Actions
  BY StepFacts DEF TimelineInv
<1>3. /\ i \in Nat /\ i >= 1 /\ step \in Steps /\ attempt \in Nat /\ err = Mobile!None
      /\ i <= n => results = Passes(i - 1)
      /\ ~(i <= n) => results \in Finals
  BY <1>2 DEF TimelineInv, Mobile!IsAction, Actions
<1>4. Finals' = Finals /\ Actions' = n
  BY <1>2 DEF Finals, Actions
<1>5. CASE i <= n
  <2>1. results' = Passes((i - 1) + 1)
    <3>1. i - 1 \in Nat /\ results' = Append(Passes(i - 1), "pass")
      BY <1>1, <1>2, <1>3, <1>5 DEF Mobile!IsAction, Actions
    <3> QED
      BY <3>1, PassesFacts
  <2>2. results' = Passes(i' - 1) /\ i' - 1 = i
    <3>1. (i - 1) + 1 = i /\ i' - 1 = i
      BY <1>1, <1>3
    <3> QED
      BY <2>1, <3>1
  <2>3. pc' = IF i + 1 = n + 1 THEN "stepend" ELSE "begin"
    BY <1>1, <1>2, <1>5 DEF Mobile!IsAction, Mobile!Arrive, Actions
  <2>4. CASE i = n
    <3>1. pc' = "stepend" /\ i' = n + 1 /\ results' = Passes(n) /\ i' \in Nat
      BY <1>1, <1>3, <2>2, <2>3, <2>4
    <3> QED
      BY <3>1, <1>3, <1>4 DEF TimelineInv, Mobile!TimelineAddsUp
  <2>5. CASE i # n
    <3>1. pc' = "begin" /\ i' <= n /\ i' >= 1 /\ i' \in Nat
      BY <1>1, <1>3, <1>5, <2>3, <2>5
    <3>2. Mobile!IsAction(i)'
      BY <3>1, <1>4 DEF Mobile!IsAction, Actions
    <3> QED
      BY <3>1, <3>2, <2>2, <1>3 DEF TimelineInv, Mobile!TimelineAddsUp
  <2> QED
    BY <2>4, <2>5
<1>6. CASE ~(i <= n)
  <2>1. results' = results /\ pc' = "begin"
    BY <1>1, <1>2, <1>6 DEF Mobile!IsAction, Actions
  <2>2. ~(i' <= n) /\ i' >= 1 /\ i' \in Nat
    BY <1>1, <1>3, <1>6
  <2>3. ~Mobile!IsAction(i)'
    BY <2>2, <1>4 DEF Mobile!IsAction, Actions
  <2> QED
    BY <2>1, <2>2, <2>3, <1>3, <1>4, <1>6 DEF TimelineInv, Mobile!TimelineAddsUp
<1> QED
  BY <1>5, <1>6

\* Whatever leaves the attempt's place and timeline alone.
LEMMA TimelineStays ==
  ASSUME TimelineInv, UNCHANGED <<step, pc, attempt, i, results, err>>
  PROVE  TimelineInv'
BY DEF TimelineInv, Mobile!TimelineAddsUp, Mobile!IsAction, Finals, Actions

LEMMA OutcomesAreErrors ==
  ASSUME NEW call, NEW o \in Mobile!Outcomes(call)
  PROVE  o \in {"ok", "cancelled", "refused", "error"}
BY DEF Mobile!Outcomes

LEMMA VerdictIsAnError == Mobile!Verdict # Mobile!None
BY DEF Mobile!Verdict, Mobile!None

\* Calls are pending only while the app is prepared, in an action, and at the end.
CallsInv == left # <<>> => pc \in {"prep", "act", "end"}

LEMMA CallsStep == CallsInv /\ [Mobile!Next]_(Mobile!vars) => CallsInv'
<1> SUFFICES ASSUME CallsInv, [Mobile!Next]_(Mobile!vars) PROVE CallsInv'
  OBVIOUS
<1>1. \/ UNCHANGED <<pc, left>>
      \/ left' = <<>>
      \/ pc' \in {"prep", "act", "end"}
      \/ left # <<>> /\ pc' = pc
  <2>1. CASE Mobile!Call
    <3>1. PICK o \in Mobile!Outcomes(Head(left)) :
              IF o = "ok" THEN left' = Tail(left) /\ UNCHANGED <<pc, err, results>>
                          ELSE Mobile!FailWith(o)
      BY <2>1 DEF Mobile!Call
    <3> QED
      BY <2>1, <3>1 DEF Mobile!Call, Mobile!FailWith
  <2>2. CASE Mobile!Poll
    <3>1. /\ pc = "wait"
          /\ \/ UNCHANGED <<pc, left>>
             \/ pc' = "act"
             \/ UNCHANGED left
      BY <2>2 DEF Mobile!Poll
    <3> QED
      BY <3>1 DEF CallsInv
  <2>3. CASE Mobile!Begin
    BY <2>3 DEF Mobile!Begin, CallsInv
  <2>4. CASE \/ Mobile!DriverDies \/ Mobile!RunEnds \/ Mobile!WaitDeadline
             \/ Mobile!PollAgain \/ UNCHANGED Mobile!vars
    BY <2>4 DEF Mobile!DriverDies, Mobile!RunEnds, Mobile!WaitDeadline, Mobile!PollAgain,
         Mobile!vars
  <2>5. CASE \/ Mobile!StartAttempt \/ Mobile!RetryInterrupted \/ Mobile!Prepared
             \/ Mobile!StepEnd \/ Mobile!Acted
    BY <2>5 DEF CallsInv, Mobile!StartAttempt, Mobile!RetryInterrupted, Mobile!Prepared,
         Mobile!StepEnd, Mobile!Acted
  <2>6. CASE Mobile!GiveUp \/ Mobile!RecordTree \/ Mobile!Capture \/ Mobile!Salvage
    BY <2>6 DEF CallsInv, Mobile!GiveUp, Mobile!FailWith, Mobile!RecordTree, Mobile!Capture,
         Mobile!Salvage
  <2> QED
    BY <2>1, <2>2, <2>3, <2>4, <2>5, <2>6 DEF Mobile!Next, Mobile!Work, Mobile!Terminating
<1> QED
  BY <1>1 DEF CallsInv

LEMMA CallsInductive == Mobile!Spec => []CallsInv
<1>1. Mobile!Init => CallsInv
  BY DEF Mobile!Init, CallsInv
<1> QED
  BY <1>1, CallsStep, PTL DEF Mobile!Spec

LEMMA TimelineStep ==
  TimelineInv /\ CallsInv /\ [Mobile!Next]_(Mobile!vars) => TimelineInv'
<1> SUFFICES ASSUME TimelineInv, CallsInv, [Mobile!Next]_(Mobile!vars) PROVE TimelineInv'
  OBVIOUS
<1> USE DEF Mobile!Fixed, Mobile!World
<1>1. CASE \/ Mobile!DriverDies \/ Mobile!RunEnds \/ Mobile!WaitDeadline \/ Mobile!PollAgain
           \/ UNCHANGED Mobile!vars
  <2>1. UNCHANGED <<step, pc, attempt, i, results, err>>
    BY <1>1 DEF Mobile!DriverDies, Mobile!RunEnds, Mobile!WaitDeadline, Mobile!PollAgain,
         Mobile!vars
  <2> QED
    BY <2>1, TimelineStays
<1>2. CASE Mobile!StartAttempt
  <2>1. /\ pc' = "prep" /\ attempt' = attempt + 1 /\ i' = 1 /\ results' = <<>>
        /\ err' = Mobile!None /\ step' = step
    BY <1>2 DEF Mobile!StartAttempt
  <2>2. attempt' \in Nat /\ i' \in Nat
    BY <2>1 DEF TimelineInv
  <2>3. step' \in Steps
    BY <2>1 DEF TimelineInv
  <2> QED
    BY <2>1, <2>2, <2>3 DEF TimelineInv, Mobile!TimelineAddsUp
<1>3. CASE Mobile!RetryInterrupted
  BY <1>3 DEF Mobile!RetryInterrupted, TimelineInv, Mobile!TimelineAddsUp
<1>4. CASE Mobile!Call
  <2>1. PICK o \in Mobile!Outcomes(Head(left)) :
            IF o = "ok" THEN left' = Tail(left) /\ UNCHANGED <<pc, err, results>>
                        ELSE Mobile!FailWith(o)
    BY <1>4 DEF Mobile!Call
  <2>2. UNCHANGED <<step, i, attempt>>
    BY <1>4 DEF Mobile!Call
  <2>3. CASE o = "ok"
    BY <2>1, <2>2, <2>3, TimelineStays
  <2>4. CASE o # "ok"
    <3>1. o # Mobile!None
      BY <2>4, OutcomesAreErrors DEF Mobile!None
    <3>2. pc \in {"prep", "wait", "act", "end"}
      BY <1>4 DEF Mobile!Call, CallsInv
    <3> QED
      BY <2>1, <2>2, <2>4, <3>1, <3>2, AttemptFails
  <2> QED
    BY <2>3, <2>4
<1>5. CASE Mobile!Prepared
  <2>1. /\ pc = "prep" /\ pc' = Mobile!Arrive(1) /\ UNCHANGED <<step, attempt, i, results, err>>
    BY <1>5 DEF Mobile!Prepared
  <2>2. i = 1 /\ results = <<>> /\ step \in Steps /\ attempt \in Nat /\ err = Mobile!None
    BY <2>1 DEF TimelineInv
  <2>3. PICK n \in Nat : n = Actions
    BY <2>2, StepFacts
  <2>4. Passes(0) = <<>>
    BY DEF Passes
  <2>5. CASE n = 0
    <3>1. pc' = "stepend" /\ i' = Actions' + 1 /\ results' = Passes(Actions')
      BY <2>1, <2>2, <2>3, <2>4, <2>5 DEF Mobile!Arrive, Actions
    <3> QED
      BY <3>1, <2>1, <2>2 DEF TimelineInv, Mobile!TimelineAddsUp
  <2>6. CASE n # 0
    <3>1. pc' = "begin" /\ 1 <= n /\ i' = 1
      BY <2>1, <2>2, <2>3, <2>6 DEF Mobile!Arrive, Actions
    <3>2. Mobile!IsAction(i)' /\ i' - 1 = 0 /\ i' >= 1 /\ i' \in Nat
      BY <3>1, <2>1, <2>3 DEF Mobile!IsAction, Actions
    <3>3. results' = Passes(i' - 1)
      BY <2>1, <2>2, <2>4, <3>2
    <3> QED
      BY <3>1, <3>2, <3>3, <2>1, <2>2 DEF TimelineInv, Mobile!TimelineAddsUp
  <2> QED
    BY <2>5, <2>6
<1>6. CASE Mobile!StepEnd
  <2>1. /\ pc = "stepend" /\ pc' = "begin" /\ UNCHANGED <<step, attempt, i, err>>
        /\ results' = results \/ results' = Append(results, "step_end")
    BY <1>6 DEF Mobile!StepEnd
  <2>2. /\ i = Actions + 1 /\ results = Passes(Actions) /\ step \in Steps /\ attempt \in Nat
        /\ err = Mobile!None /\ Actions \in Nat /\ i \in Nat
    BY <2>1, StepFacts DEF TimelineInv
  <2>3. results' \in Finals' /\ Actions' = Actions
    BY <2>1, <2>2 DEF Finals, Actions
  <2>4. ~Mobile!IsAction(i)' /\ i' >= 1 /\ i' \in Nat
    BY <2>1, <2>2, <2>3 DEF Mobile!IsAction, Actions
  <2> QED
    BY <2>1, <2>2, <2>3, <2>4 DEF TimelineInv, Mobile!TimelineAddsUp
<1>7. CASE Mobile!Begin
  <2>1. /\ pc = "begin" /\ UNCHANGED <<step, attempt, i, results, err>>
        /\ \/ pc' = "tree" /\ i > Len(Mobile!Asks)
           \/ pc' \in {"act", "wait"}
    BY <1>7 DEF Mobile!Begin
  <2>2. CASE pc' = "tree" /\ i > Len(Mobile!Asks)
    <3>1. ~Mobile!IsAction(i)
      BY <2>2, StepFacts DEF TimelineInv, Mobile!IsAction, Actions
    <3> QED
      BY <3>1, <2>1, <2>2 DEF TimelineInv, Mobile!TimelineAddsUp, Mobile!IsAction, Finals, Actions
  <2>3. CASE pc' \in {"act", "wait"}
    BY <2>1, <2>3 DEF TimelineInv, Mobile!TimelineAddsUp, Mobile!IsAction, Finals, Actions
  <2> QED
    BY <2>1, <2>2, <2>3
<1>8. CASE Mobile!Acted
  BY <1>8, AskDone DEF Mobile!Acted
<1>9. CASE Mobile!Poll
  <2>1. /\ pc = "wait" /\ UNCHANGED <<step, attempt, err>>
        /\ \/ UNCHANGED <<pc, i, results>>
           \/ pc' = "act" /\ UNCHANGED <<i, results>>
           \/ Mobile!Advance
    BY <1>9 DEF Mobile!Poll
  <2>2. CASE UNCHANGED <<pc, i, results>>
    BY <2>1, <2>2, TimelineStays
  <2>3. CASE pc' = "act" /\ UNCHANGED <<i, results>>
    BY <2>1, <2>3 DEF TimelineInv, Mobile!TimelineAddsUp, Mobile!IsAction, Finals, Actions
  <2> QED
    BY <2>1, <2>2, <2>3, AskDone
<1>10. CASE Mobile!GiveUp
  <2>1. /\ pc = "wait" /\ Mobile!FailWith(Mobile!Verdict) /\ UNCHANGED <<step, i, attempt>>
    BY <1>10 DEF Mobile!GiveUp
  <2> QED
    BY <2>1, VerdictIsAnError, AttemptFails
<1>11. CASE Mobile!RecordTree
  BY <1>11 DEF Mobile!RecordTree, TimelineInv, Mobile!TimelineAddsUp, Mobile!IsAction, Finals,
     Actions
<1>12. CASE Mobile!Capture
  <2>1. /\ pc = "end" /\ pc' \in {"passed", "failed"} /\ UNCHANGED <<step, i, attempt, results>>
    BY <1>12 DEF Mobile!Capture
  <2>2. ~Mobile!IsAction(i)' /\ results' \in Finals'
    BY <2>1 DEF TimelineInv, Mobile!IsAction, Finals, Actions
  <2>3. Mobile!TimelineAddsUp'
    BY <2>2 DEF Mobile!TimelineAddsUp, Finals, Passes, Actions
  <2> QED
    BY <2>1, <2>3 DEF TimelineInv
<1>13. CASE Mobile!Salvage
  <2>1. /\ pc = "salvage" /\ pc' = "failed" /\ UNCHANGED <<step, i, attempt, results, err>>
    BY <1>13 DEF Mobile!Salvage
  <2> QED
    BY <2>1 DEF TimelineInv, Mobile!TimelineAddsUp, Mobile!IsAction
<1> QED
  BY <1>1, <1>2, <1>3, <1>4, <1>5, <1>6, <1>7, <1>8, <1>9, <1>10, <1>11, <1>12, <1>13
     DEF Mobile!Next, Mobile!Work, Mobile!Terminating

LEMMA TimelineInductive == Mobile!Spec => []TimelineInv
<1>1. Mobile!Init => TimelineInv
  <2> SUFFICES ASSUME Mobile!Init PROVE TimelineInv
    OBVIOUS
  <2>1. pc = "failed" /\ attempt = 0 /\ i = 0 /\ step \in Steps
    BY DEF Mobile!Init
  <2>2. attempt \in Nat /\ i \in Nat /\ ~(attempt > 0)
    BY <2>1
  <2> QED
    BY <2>1, <2>2 DEF TimelineInv, Mobile!TimelineAddsUp
<1> QED
  BY <1>1, TimelineStep, CallsInductive, PTL DEF Mobile!Spec

\* A failed step is accounted for action by action, on mobile and in the browser
\* (mobile/provider.go, runActionLoop and appendSkippedActions; browser/provider.go,
\* failStep), and a failed browser step has its console and its network written,
\* whatever the page, Chrome and the clocks do (capture_artifacts.go, diagnostics.go).
THEOREM FailuresAreWrittenUp == Mobile!Spec /\ Browser!Spec => []FailuresAreDocumented
<1>1. TimelineInv => Mobile!TimelineAddsUp
  BY DEF TimelineInv
<1>2. Mobile!TimelineAddsUp /\ Browser!FailureIsDocumented => FailuresAreDocumented
  BY DEF FailuresAreDocumented
<1> QED
  BY <1>1, <1>2, TimelineInductive, BrowserFailuresAreDocumented, PTL
-----------------------------------------------------------------------------
(* What a wait of a mobile step remembers, against what it was told.       *)

Spoken == {"cut", "refused", "absent", "off", "on", "error", "duplicate"}

WaitRecord == [polls : Nat, pos : {"ask", "late", "pause"}, late : BOOLEAN,
               mismatch : BOOLEAN, lastErr : Mobile!OwnErrors \cup {Mobile!None},
               cutOff : BOOLEAN, fetched : BOOLEAN]

\* The driver's own last answer of the wait is the one at c.
LastAt(c) == c \in Mobile!OwnAnswers /\ \A m \in Mobile!OwnAnswers : m <= c

\* The four things pollState keeps, in terms of everything the wait was told.
WaitKnows ==
    /\ log \in Seq(Spoken)
    /\ w.mismatch <=> (Mobile!Asks[i] \in Mobile!StateKinds /\ "off" \in Mobile!Said)
    /\ w.cutOff <=> "cut" \in Mobile!Said
    /\ Mobile!OwnAnswers = {} => w.lastErr = Mobile!None /\ ~w.fetched
    /\ Mobile!OwnAnswers # {} => \E c \in Nat : LastAt(c)
    /\ \A c \in Nat : LastAt(c) =>
          /\ w.lastErr = IF log[c] \in Mobile!OwnErrors THEN log[c] ELSE Mobile!None
          /\ log[c] \notin Mobile!OwnErrors => w.fetched

VerdictInv == w \in WaitRecord /\ (pc = "wait" => WaitKnows)

LEMMA RepliesAreSpoken ==
  ASSUME NEW kind, NEW reply \in Mobile!Replies(kind)
  PROVE  /\ reply \in Spoken
         /\ ~Mobile!Satisfied(kind, reply) /\ kind = "scroll" =>
               reply \in {"error", "refused", "cut"}
BY DEF Mobile!Replies, Mobile!Answers, Mobile!Satisfied, Spoken

LEMMA WaitFields ==
  ASSUME w \in WaitRecord
  PROVE  /\ w.polls \in Nat /\ w.pos \in {"ask", "late", "pause"} /\ w.late \in BOOLEAN
         /\ w.mismatch \in BOOLEAN /\ w.lastErr \in Mobile!OwnErrors \cup {Mobile!None}
         /\ w.cutOff \in BOOLEAN /\ w.fetched \in BOOLEAN
BY DEF WaitRecord

\* pollState.observe, field by field.
LEMMA Observed ==
  ASSUME w \in WaitRecord, NEW kind, NEW reply \in Spoken, NEW o,
         o = Mobile!Observe(kind, reply)
  PROVE  /\ o \in WaitRecord /\ o.pos = "pause"
         /\ o.cutOff <=> (w.cutOff \/ reply = "cut")
         /\ o.mismatch <=> (w.mismatch \/ (kind \in Mobile!StateKinds /\ reply = "off"))
         /\ o.fetched <=> (w.fetched \/ (kind # "scroll" /\
                             reply \in {"absent", "off", "on", "duplicate"}))
         /\ o.lastErr = IF reply \in {"absent", "off", "on"} THEN Mobile!None
                        ELSE IF reply = "cut" THEN w.lastErr ELSE reply
<1> DEFINE clean == reply \in {"absent", "off", "on"}
           wasCut == w.cutOff \/ reply = "cut"
           lastErr == IF clean THEN Mobile!None ELSE IF reply = "cut" THEN w.lastErr ELSE reply
           mismatch == w.mismatch \/ (kind \in Mobile!StateKinds /\ reply = "off")
           fetched == w.fetched \/ (kind # "scroll" /\ (clean \/ reply = "duplicate"))
<1>1. /\ wasCut \in BOOLEAN /\ mismatch \in BOOLEAN /\ fetched \in BOOLEAN
      /\ lastErr \in Mobile!OwnErrors \cup {Mobile!None}
  BY WaitFields DEF Spoken, Mobile!OwnErrors
<1>2. o = [w EXCEPT !.pos = "pause", !.cutOff = wasCut, !.lastErr = lastErr,
                    !.mismatch = mismatch, !.fetched = fetched]
  BY Zenon DEF Mobile!Observe
<1> HIDE DEF wasCut, lastErr, mismatch, fetched
<1>3. /\ o \in WaitRecord /\ o.pos = "pause" /\ o.cutOff = wasCut /\ o.lastErr = lastErr
      /\ o.mismatch = mismatch /\ o.fetched = fetched
  BY <1>1, <1>2 DEF WaitRecord
<1> USE DEF wasCut, lastErr, mismatch, fetched
<1> QED
  BY <1>3, Zenon

\* An answer that does not end the wait is remembered for what it was.
LEMMA WaitHears ==
  ASSUME w \in WaitRecord, WaitKnows, NEW reply \in Spoken,
         Mobile!Asks[i] = "scroll" => reply \in {"error", "refused", "cut"},
         log' = Append(log, reply), w' = Mobile!Observe(Mobile!Asks[i], reply),
         UNCHANGED <<step, i>>
  PROVE  WaitKnows'
<1>1. PICK n \in Nat : n = Len(log) + 1
  BY DEF WaitKnows
<1>2. /\ log' \in Seq(Spoken) /\ DOMAIN log' = DOMAIN log \cup {n} /\ log'[n] = reply
      /\ \A q \in DOMAIN log : log'[q] = log[q] /\ q \in Nat /\ q < n
  BY <1>1 DEF WaitKnows
<1>3. Mobile!Said' = Mobile!Said \cup {reply}
  BY <1>2, Zenon DEF Mobile!Said
<1>4. Mobile!OwnAnswers' = IF reply = "cut" THEN Mobile!OwnAnswers
                                            ELSE Mobile!OwnAnswers \cup {n}
  BY <1>2 DEF Mobile!OwnAnswers
<1>5. PICK kind : kind = Mobile!Asks[i] /\ Mobile!Asks[i]' = kind
  BY DEF Mobile!Asks
<1>6. /\ w'.cutOff <=> (w.cutOff \/ reply = "cut")
      /\ w'.mismatch <=> (w.mismatch \/ (kind \in Mobile!StateKinds /\ reply = "off"))
      /\ w'.fetched <=> (w.fetched \/ (kind # "scroll" /\
                            reply \in {"absent", "off", "on", "duplicate"}))
      /\ w'.lastErr = IF reply \in {"absent", "off", "on"} THEN Mobile!None
                      ELSE IF reply = "cut" THEN w.lastErr ELSE reply
  BY <1>5, Observed
<1>7. /\ w'.mismatch <=> (Mobile!Asks[i]' \in Mobile!StateKinds /\ "off" \in Mobile!Said')
      /\ w'.cutOff <=> "cut" \in Mobile!Said'
  <2>1. /\ w.mismatch <=> (kind \in Mobile!StateKinds /\ "off" \in Mobile!Said)
        /\ w.cutOff <=> "cut" \in Mobile!Said
    BY <1>5, Zenon DEF WaitKnows
  <2>2. "off" \in Mobile!Said' <=> "off" \in Mobile!Said \/ reply = "off"
    BY <1>3
  <2>3. "cut" \in Mobile!Said' <=> "cut" \in Mobile!Said \/ reply = "cut"
    BY <1>3
  <2> QED
    BY <1>5, <1>6, <2>1, <2>2, <2>3, Zenon
<1>8. CASE reply = "cut"
  <2>1. w'.lastErr = w.lastErr /\ (w'.fetched <=> w.fetched)
    BY <1>6, <1>8
  <2>2. Mobile!OwnAnswers' = Mobile!OwnAnswers
    BY <1>4, <1>8
  <2>3. \A c : LastAt(c)' <=> LastAt(c)
    BY <2>2 DEF LastAt
  <2>4. \A c : LastAt(c) => log'[c] = log[c]
    BY <1>2 DEF LastAt, Mobile!OwnAnswers
  <2> QED
    BY <1>2, <1>7, <2>1, <2>2, <2>3, <2>4 DEF WaitKnows
<1>9. CASE reply # "cut"
  <2>1. Mobile!OwnAnswers' = Mobile!OwnAnswers \cup {n}
    BY <1>4, <1>9
  <2>2. \A m \in Mobile!OwnAnswers : m \in Nat /\ m < n
    BY <1>2 DEF Mobile!OwnAnswers
  <2>3. LastAt(n)' /\ \A c \in Nat : LastAt(c)' => c = n
    <3>1. /\ n \in Mobile!OwnAnswers'
          /\ \A m \in Mobile!OwnAnswers' : m <= n
      <4>1. \A m \in Mobile!OwnAnswers : m <= n
        BY <2>2
      <4>2. n <= n
        OBVIOUS
      <4> QED
        BY <2>1, <4>1, <4>2
    <3>2. ASSUME NEW c \in Nat, c \in Mobile!OwnAnswers', n <= c  PROVE c = n
      <4>1. CASE c \in Mobile!OwnAnswers
        <5>1. c < n
          BY <2>2, <4>1
        <5> QED
          BY <3>2, <5>1
      <4> QED
        BY <2>1, <3>2, <4>1
    <3> QED
      BY <3>1, <3>2, Zenon DEF LastAt
  <2>4. w'.lastErr = IF reply \in Mobile!OwnErrors THEN reply ELSE Mobile!None
    BY <1>6, <1>9 DEF Spoken, Mobile!OwnErrors
  <2>5. reply \notin Mobile!OwnErrors => w'.fetched
    BY <1>5, <1>6, <1>9 DEF Spoken, Mobile!OwnErrors
  <2>6. /\ Mobile!OwnAnswers' # {}
        /\ \E c \in Nat : LastAt(c)'
        /\ \A c \in Nat : LastAt(c)' => log'[c] = reply
    BY <1>2, <2>1, <2>3
  <2> QED
    BY <1>2, <1>7, <2>4, <2>5, <2>6 DEF WaitKnows
<1> QED
  BY <1>8, <1>9

\* What a wait knows does not depend on its clock or its position.
LEMMA KnowledgeStays ==
  ASSUME WaitKnows, UNCHANGED <<step, i, log>>, w'.mismatch = w.mismatch,
         w'.lastErr = w.lastErr, w'.cutOff = w.cutOff, w'.fetched = w.fetched
  PROVE  WaitKnows'
<1>1. /\ Mobile!Asks' = Mobile!Asks /\ Mobile!Said' = Mobile!Said
      /\ Mobile!OwnAnswers' = Mobile!OwnAnswers /\ i' = i /\ log' = log
  BY DEF Mobile!Asks, Mobile!Said, Mobile!OwnAnswers
<1> QED
  BY <1>1 DEF WaitKnows, LastAt

LEMMA FreshWaitKnows ==
  ASSUME w' = Mobile!FreshWait, log' = <<>>
  PROVE  w' \in WaitRecord /\ WaitKnows'
<1>1. Mobile!Said' = {} /\ Mobile!OwnAnswers' = {}
  BY DEF Mobile!Said, Mobile!OwnAnswers
<1>2. /\ w'.mismatch = FALSE /\ w'.lastErr = Mobile!None /\ w'.cutOff = FALSE
      /\ w'.fetched = FALSE /\ w' \in WaitRecord
  BY DEF Mobile!FreshWait, WaitRecord, Mobile!OwnErrors
<1>3. \A c : ~LastAt(c)'
  BY <1>1 DEF LastAt
<1> QED
  BY <1>1, <1>2, <1>3 DEF WaitKnows

LEMMA VerdictStep == VerdictInv /\ [Mobile!Next]_(Mobile!vars) => VerdictInv'
<1> SUFFICES ASSUME VerdictInv, [Mobile!Next]_(Mobile!vars) PROVE VerdictInv'
  OBVIOUS
<1> USE DEF Mobile!Fixed, Mobile!World
<1>1. CASE Mobile!Begin
  <2>1. \/ w' = Mobile!FreshWait /\ log' = <<>>
        \/ UNCHANGED w /\ pc' # "wait"
    BY <1>1 DEF Mobile!Begin
  <2> QED
    BY <2>1, FreshWaitKnows DEF VerdictInv
<1>2. CASE Mobile!Poll
  <2>1. PICK reply \in Mobile!Replies(Mobile!Asks[i]) :
          /\ log' = Append(log, reply)
          /\ \/ ~Mobile!Satisfied(Mobile!Asks[i], reply)
                /\ w' = Mobile!Observe(Mobile!Asks[i], reply)
             \/ UNCHANGED w /\ pc' = "act"
             \/ UNCHANGED w /\ Mobile!Advance
    BY <1>2, Zenon DEF Mobile!Poll
  <2>2. pc = "wait" /\ step' = step /\ (i' = i \/ pc' # "wait")
    BY <1>2 DEF Mobile!Poll, Mobile!Advance, Mobile!Arrive
  <2>3. reply \in Spoken
    BY RepliesAreSpoken
  <2>4. CASE /\ ~Mobile!Satisfied(Mobile!Asks[i], reply)
             /\ w' = Mobile!Observe(Mobile!Asks[i], reply)
    <3>1. w' \in WaitRecord
      BY <2>3, <2>4, Observed DEF VerdictInv
    <3>2. CASE i' = i
      <4>1. Mobile!Asks[i] = "scroll" => reply \in {"error", "refused", "cut"}
        BY <2>4, RepliesAreSpoken
      <4>2. WaitKnows'
        BY <2>1, <2>2, <2>3, <2>4, <3>2, <4>1, WaitHears DEF VerdictInv
      <4> QED
        BY <3>1, <4>2 DEF VerdictInv
    <3> QED
      BY <2>2, <3>1, <3>2 DEF VerdictInv
  <2>5. CASE UNCHANGED w /\ (pc' = "act" \/ Mobile!Advance)
    BY <2>5 DEF VerdictInv, Mobile!Advance, Mobile!Arrive
  <2> QED
    BY <2>1, <2>4, <2>5
<1>3. CASE Mobile!WaitDeadline \/ Mobile!PollAgain
  <2>1. /\ w' \in WaitRecord /\ w'.mismatch = w.mismatch /\ w'.lastErr = w.lastErr
        /\ w'.cutOff = w.cutOff /\ w'.fetched = w.fetched
    <3>1. CASE Mobile!WaitDeadline
      BY <3>1 DEF VerdictInv, WaitRecord, Mobile!WaitDeadline
    <3>2. CASE Mobile!PollAgain
      <4> DEFINE n == w.polls + 1
                 p == IF Mobile!WaitOver THEN "late" ELSE "ask"
      <4>1. w' = [w EXCEPT !.polls = n, !.pos = p]
        BY <3>2 DEF Mobile!PollAgain
      <4>2. n \in Nat /\ p \in {"ask", "late"} /\ w \in WaitRecord
        BY WaitFields DEF VerdictInv
      <4> HIDE DEF n, p
      <4> QED
        BY <4>1, <4>2 DEF WaitRecord
    <3> QED
      BY <1>3, <3>1, <3>2
  <2>2. UNCHANGED <<step, i, log, pc>>
    BY <1>3 DEF Mobile!WaitDeadline, Mobile!PollAgain
  <2> QED
    BY <2>1, <2>2, KnowledgeStays DEF VerdictInv
<1>4. CASE UNCHANGED w /\ pc' # "wait"
  BY <1>4 DEF VerdictInv
<1>5. CASE UNCHANGED <<step, i, log, pc, w>>
  BY <1>5, KnowledgeStays DEF VerdictInv
<1>6. CASE Mobile!Call
  <2>1. \/ pc' = "salvage"
        \/ pc' = pc
    BY <1>6 DEF Mobile!Call, Mobile!FailWith
  <2> QED
    BY <1>4, <1>5, <1>6, <2>1 DEF Mobile!Call
<1>7. CASE \/ Mobile!StartAttempt \/ Mobile!RetryInterrupted \/ Mobile!Prepared
           \/ Mobile!StepEnd \/ Mobile!Acted
  <2>1. UNCHANGED w /\ pc' # "wait"
    BY <1>7 DEF Mobile!StartAttempt, Mobile!RetryInterrupted, Mobile!Prepared, Mobile!StepEnd,
         Mobile!Acted, Mobile!Advance, Mobile!Arrive
  <2> QED
    BY <1>4, <2>1
<1>8. CASE Mobile!GiveUp \/ Mobile!RecordTree \/ Mobile!Capture \/ Mobile!Salvage
  <2>1. UNCHANGED w /\ pc' # "wait"
    BY <1>8 DEF Mobile!GiveUp, Mobile!FailWith, Mobile!RecordTree, Mobile!Capture,
         Mobile!Salvage
  <2> QED
    BY <1>4, <2>1
<1>9. CASE Mobile!DriverDies \/ Mobile!RunEnds \/ UNCHANGED Mobile!vars
  BY <1>5, <1>9 DEF Mobile!DriverDies, Mobile!RunEnds, Mobile!vars
<1> QED
  BY <1>1, <1>2, <1>3, <1>6, <1>7, <1>8, <1>9 DEF Mobile!Next, Mobile!Work, Mobile!Terminating

LEMMA VerdictInductive == Mobile!Spec => []VerdictInv
<1>1. Mobile!Init => VerdictInv
  BY DEF Mobile!Init, Mobile!FreshWait, VerdictInv, WaitRecord, Mobile!OwnErrors
<1> QED
  BY <1>1, VerdictStep, PTL DEF Mobile!Spec

LEMMA KnowledgeGivesTheVerdict ==
  ASSUME w \in WaitRecord, WaitKnows
  PROVE  Mobile!Verdict = Mobile!TrueVerdict(Mobile!Asks[i])
<1>1. w.mismatch <=> (Mobile!Asks[i] \in Mobile!StateKinds /\ "off" \in Mobile!Said)
  BY DEF WaitKnows
<1>2. w.lastErr = IF Mobile!OwnAnswers # {} /\ Mobile!LastOwn \in Mobile!OwnErrors
                  THEN Mobile!LastOwn ELSE Mobile!None
  <2>1. CASE Mobile!OwnAnswers = {}
    BY <2>1 DEF WaitKnows
  <2>2. CASE Mobile!OwnAnswers # {}
    <3> DEFINE c == CHOOSE q \in Mobile!OwnAnswers : \A m \in Mobile!OwnAnswers : m <= q
    <3>1. LastAt(c)
      <4>1. \E q \in Mobile!OwnAnswers : \A m \in Mobile!OwnAnswers : m <= q
        BY <2>2 DEF WaitKnows, LastAt
      <4> QED
        BY <4>1, Zenon DEF LastAt
    <3>2. c \in Nat
      BY <3>1 DEF LastAt, Mobile!OwnAnswers, WaitKnows
    <3>3. Mobile!LastOwn = log[c]
      BY DEF Mobile!LastOwn
    <3> HIDE DEF c
    <3> QED
      BY <2>2, <3>1, <3>2, <3>3 DEF WaitKnows
  <2> QED
    BY <2>1, <2>2
<1>3. Mobile!OwnAnswers # {} /\ ~w.fetched => Mobile!LastOwn \in Mobile!OwnErrors
  <2> SUFFICES ASSUME Mobile!OwnAnswers # {}, ~w.fetched
               PROVE  Mobile!LastOwn \in Mobile!OwnErrors
    OBVIOUS
  <2> DEFINE c == CHOOSE q \in Mobile!OwnAnswers : \A m \in Mobile!OwnAnswers : m <= q
  <2>1. LastAt(c)
    <3>1. \E q \in Mobile!OwnAnswers : \A m \in Mobile!OwnAnswers : m <= q
      BY DEF WaitKnows, LastAt
    <3> QED
      BY <3>1, Zenon DEF LastAt
  <2>2. c \in Nat
    BY <2>1 DEF LastAt, Mobile!OwnAnswers, WaitKnows
  <2>3. Mobile!LastOwn = log[c]
    BY DEF Mobile!LastOwn
  <2> HIDE DEF c
  <2> QED
    BY <2>1, <2>2, <2>3 DEF WaitKnows
<1>4. Mobile!OwnAnswers = {} /\ w.cutOff <=> Mobile!Said = {"cut"}
  BY DEF WaitKnows, Mobile!Said, Mobile!OwnAnswers
<1>5. Mobile!OwnAnswers = {} => ~w.fetched
  BY DEF WaitKnows
<1>6. Mobile!None \notin Mobile!OwnErrors
  BY DEF Mobile!None, Mobile!OwnErrors
<1>7. CASE w.mismatch
  BY <1>1, <1>7, Zenon DEF Mobile!Verdict, Mobile!TrueVerdict
<1>8. CASE ~w.mismatch /\ w.lastErr # Mobile!None
  <2>1. /\ Mobile!OwnAnswers # {} /\ Mobile!LastOwn \in Mobile!OwnErrors
        /\ w.lastErr = Mobile!LastOwn
    BY <1>2, <1>8
  <2> QED
    BY <1>1, <1>8, <2>1, Zenon DEF Mobile!Verdict, Mobile!TrueVerdict
<1>9. CASE ~w.mismatch /\ w.lastErr = Mobile!None
  <2>1. ~(Mobile!OwnAnswers # {} /\ Mobile!LastOwn \in Mobile!OwnErrors)
    BY <1>2, <1>6, <1>9
  <2>2. w.cutOff /\ ~w.fetched <=> Mobile!Said = {"cut"}
    BY <1>3, <1>4, <1>5, <2>1, Zenon
  <2> QED
    BY <1>1, <1>9, <2>1, <2>2, Zenon DEF Mobile!Verdict, Mobile!TrueVerdict
<1> QED
  BY <1>7, <1>8, <1>9

\* A wait that gives up tells the truth about why, whatever it was told and in
\* whatever order (mobile/provider.go, pollState.observe and outcome, poll and
\* waitFailure).
THEOREM WaitsTellTheTruth == Mobile!Spec => []VerdictIsTrue
<1>1. VerdictInv => VerdictIsTrue
  BY KnowledgeGivesTheVerdict DEF VerdictInv, VerdictIsTrue, Mobile!VerdictIsTrue
<1> QED
  BY <1>1, VerdictInductive, PTL
-----------------------------------------------------------------------------
(* An attempt that starts with a dead driver.                              *)

LastCall == left[Len(left)]

\* How far such an attempt can come, and what it still has to ask the driver.
DeadInv ==
    diedBefore =>
      /\ driver = "dead" /\ step \in Steps
      /\ err \notin {"mismatch", "duplicate", "expired"}
      /\ pc = "prep" /\ step.launch # "no" =>
            left \in Seq({"host", "drv"}) /\ left # <<>> /\ LastCall = "drv"
      /\ pc = "prep" => i = 1
      /\ pc \in {"stepend", "begin", "wait", "act", "tree", "end", "passed"} =>
            step.launch = "no"
      /\ pc \in {"stepend", "begin", "wait", "act"} => i = 1
      /\ pc = "act" => left = <<"drv">>
      /\ pc \in {"tree", "end", "passed"} => Mobile!Asks = <<>>
      /\ pc = "end" => left = IF step.terminate THEN <<"drv">> ELSE <<>>
      /\ pc = "passed" => ~step.terminate
      /\ pc = "wait" =>
            /\ w.mismatch = FALSE /\ w.fetched = FALSE
            /\ w.lastErr \in {Mobile!None, "refused"}
            /\ w.pos = "pause" => w.cutOff = TRUE \/ w.lastErr = "refused"

\* The logs of a driver that refused are collected, whatever the capture mode.
LogsInv == pc = "failed" /\ err = "refused" => <<"driver_log", 0>> \in arts

LEMMA LogsStep == LogsInv /\ [Mobile!Next]_(Mobile!vars) => LogsInv'
<1> SUFFICES ASSUME LogsInv, [Mobile!Next]_(Mobile!vars) PROVE LogsInv'
  OBVIOUS
<1> USE DEF Mobile!Fixed, Mobile!World
<1>1. \/ UNCHANGED <<pc, err, arts>>
      \/ pc' \in {"prep", "stopped", "salvage", "stepend", "begin", "wait", "act", "tree", "end",
                  "passed"}
      \/ pc = "wait" /\ pc' = pc
      \/ err' = "capture"
      \/ Mobile!Salvage
  <2>1. CASE Mobile!Call
    BY <2>1 DEF Mobile!Call, Mobile!FailWith
  <2>2. CASE Mobile!Poll
    BY <2>2 DEF Mobile!Poll, Mobile!Advance, Mobile!Arrive
  <2>3. CASE \/ Mobile!StartAttempt \/ Mobile!RetryInterrupted \/ Mobile!Prepared
             \/ Mobile!StepEnd \/ Mobile!Begin \/ Mobile!Acted
    BY <2>3 DEF Mobile!StartAttempt, Mobile!RetryInterrupted, Mobile!Prepared, Mobile!StepEnd,
         Mobile!Begin, Mobile!Acted, Mobile!Advance, Mobile!Arrive
  <2>4. CASE Mobile!GiveUp \/ Mobile!RecordTree \/ Mobile!Capture \/ Mobile!Salvage
    BY <2>4 DEF Mobile!GiveUp, Mobile!FailWith, Mobile!RecordTree, Mobile!Capture
  <2>5. CASE \/ Mobile!DriverDies \/ Mobile!RunEnds \/ Mobile!WaitDeadline
             \/ Mobile!PollAgain \/ UNCHANGED Mobile!vars
    BY <2>5 DEF Mobile!DriverDies, Mobile!RunEnds, Mobile!WaitDeadline, Mobile!PollAgain,
         Mobile!vars
  <2> QED
    BY <2>1, <2>2, <2>3, <2>4, <2>5 DEF Mobile!Next, Mobile!Work, Mobile!Terminating
<1>2. CASE Mobile!Salvage
  <2>1. err' = err /\ (err = "refused" => <<"driver_log", 0>> \in arts')
    BY <1>2 DEF Mobile!Salvage, Mobile!DriverDeathArtifacts
  <2> QED
    BY <2>1 DEF LogsInv
<1> QED
  BY <1>1, <1>2 DEF LogsInv

\* Launching an app asks the driver last.
LEMMA PreparationAsksTheDriver ==
  ASSUME NEW s \in Steps, s.launch # "no"
  PROVE  LET calls == Mobile!Preparation(s)
         IN calls \in Seq({"host", "drv"}) /\ calls # <<>> /\ calls[Len(calls)] = "drv"
<1> DEFINE permissions == [q \in 1..s.perms |-> "host"]
<1>1. s.launch \in {"host", "driver"} /\ s.perms \in Nat
  BY StepsAreSteps DEF Mobile!AStep
<1>2. permissions \in Seq({"host", "drv"})
  BY <1>1
<1>3. \/ Mobile!Preparation(s) = <<"host">> \o permissions \o <<"host", "drv">>
      \/ Mobile!Preparation(s) = <<"host">> \o permissions \o <<"drv">>
  BY <1>1 DEF Mobile!Preparation
<1> HIDE DEF permissions
<1>4. ASSUME NEW p \in Seq({"host", "drv"})
      PROVE  /\ <<"host">> \o p \in Seq({"host", "drv"})
             /\ <<"host">> \o p \o <<"drv">> \in Seq({"host", "drv"})
             /\ Len(<<"host">> \o p \o <<"drv">>) = Len(p) + 2
             /\ (<<"host">> \o p \o <<"drv">>)[Len(p) + 2] = "drv"
             /\ <<"host">> \o p \o <<"host", "drv">> \in Seq({"host", "drv"})
             /\ Len(<<"host">> \o p \o <<"host", "drv">>) = Len(p) + 3
             /\ (<<"host">> \o p \o <<"host", "drv">>)[Len(p) + 3] = "drv"
  OBVIOUS
<1>5. ASSUME NEW q \in Seq({"host", "drv"}), Len(q) > 0
      PROVE  q # <<>>
  BY <1>5
<1>6. Len(permissions) \in Nat /\ Len(permissions) + 2 > 0 /\ Len(permissions) + 3 > 0
  BY <1>2
<1> QED
  BY <1>2, <1>3, <1>4, <1>5, <1>6

\* A call that does not ask the driver leaves the last one, which does, to make.
LEMMA HostCallsComeFirst ==
  ASSUME left \in Seq({"host", "drv"}), left # <<>>, LastCall = "drv", Head(left) = "host",
         left' = Tail(left)
  PROVE  left' \in Seq({"host", "drv"}) /\ left' # <<>> /\ LastCall' = "drv"
<1>1. Len(left) \in Nat /\ Len(left) >= 1 /\ left[1] = "host"
  OBVIOUS
<1>2. Len(left) # 1
  BY <1>1 DEF LastCall
<1>3. ASSUME NEW q \in Seq({"host", "drv"}), NEW n \in Nat, n >= 1, Len(q) = n + 1
      PROVE  /\ Tail(q) \in Seq({"host", "drv"}) /\ Len(Tail(q)) = n /\ Tail(q) # <<>>
             /\ Tail(q)[n] = q[n + 1]
  <2>1. q # <<>>
    BY <1>3
  <2>2. /\ Tail(q) \in Seq({"host", "drv"}) /\ Len(Tail(q)) = Len(q) - 1
        /\ \A j \in 1..Len(Tail(q)) : Tail(q)[j] = q[j + 1]
    BY <2>1, HeadTailProperties
  <2>3. Len(Tail(q)) = n /\ n \in 1..n
    BY <1>3, <2>2
  <2>4. Tail(q) # <<>>
    BY <1>3, <2>3
  <2> QED
    BY <2>2, <2>3, <2>4
<1>4. PICK n \in Nat : n >= 1 /\ Len(left) = n + 1
  <2>1. \A m \in Nat : m >= 1 /\ m # 1 => \E n \in Nat : n >= 1 /\ m = n + 1
    <3> SUFFICES ASSUME NEW m \in Nat, m >= 1, m # 1
                 PROVE  m - 1 \in Nat /\ m - 1 >= 1 /\ m = (m - 1) + 1
      OBVIOUS
    <3> QED
      OBVIOUS
  <2> QED
    BY <1>1, <1>2, <2>1
<1>5. /\ Tail(left) \in Seq({"host", "drv"}) /\ Len(Tail(left)) = n /\ Tail(left) # <<>>
      /\ Tail(left)[n] = left[n + 1]
  BY <1>3, <1>4
<1>6. LastCall' = Tail(left)[Len(Tail(left))]
  BY DEF LastCall
<1> QED
  BY <1>4, <1>5, <1>6 DEF LastCall

\* A dead driver answers no call.
LEMMA DeadDriverRefuses ==
  ASSUME driver = "dead"
  PROVE  /\ "ok" \notin Mobile!Outcomes("drv")
         /\ \A kind : \A reply \in Mobile!Replies(kind) :
               reply \in {"refused", "cut"} /\ ~Mobile!Satisfied(kind, reply)
BY DEF Mobile!Outcomes, Mobile!Replies, Mobile!Satisfied

\* Whatever leaves the attempt's place alone.
LEMMA DeadStays ==
  ASSUME DeadInv, UNCHANGED <<step, pc, i, left, err, diedBefore>>,
         pc # "wait" \/ w' = w, driver' = driver \/ driver' = "dead"
  PROVE  DeadInv'
BY DEF DeadInv, LastCall, Mobile!Asks

LEMMA DeadFails ==
  ASSUME DeadInv, pc' = "salvage", UNCHANGED <<step, driver, diedBefore>>,
         diedBefore => err' \notin {"mismatch", "duplicate", "expired"}
  PROVE  DeadInv'
BY DEF DeadInv

LEMMA DeadCalls ==
  ASSUME DeadInv, CallsInv, TimelineInv, Mobile!Call
  PROVE  DeadInv'
<1> USE DEF Mobile!Fixed, Mobile!World
<1>1. PICK o \in Mobile!Outcomes(Head(left)) :
          IF o = "ok" THEN left' = Tail(left) /\ UNCHANGED <<pc, err, results>>
                      ELSE Mobile!FailWith(o)
  BY DEF Mobile!Call
<1>2. left # <<>> /\ pc \in {"prep", "act", "end"} /\ UNCHANGED <<step, driver, diedBefore, i, w>>
  BY DEF Mobile!Call, CallsInv
<1>3. CASE o # "ok"
  <2>1. pc' = "salvage" /\ err' \in {"cancelled", "refused", "error"}
    BY <1>1, <1>3, OutcomesAreErrors DEF Mobile!FailWith
  <2> QED
    BY <1>2, <2>1, DeadFails
<1>4. CASE o = "ok"
  <2>1. left' = Tail(left) /\ pc' = pc /\ err' = err
    BY <1>1, <1>4
  <2> SUFFICES ASSUME diedBefore PROVE DeadInv'
    BY <1>2 DEF DeadInv
  <2>2. driver = "dead" /\ Head(left) # "drv"
    BY <1>4, DeadDriverRefuses DEF DeadInv
  <2>3. left # <<"drv">>
    BY <2>2
  <2>4. pc = "prep"
    BY <1>2, <2>3 DEF DeadInv
  <2>5. CASE step.launch # "no"
    <3>1. left \in Seq({"host", "drv"}) /\ LastCall = "drv"
      BY <2>4, <2>5 DEF DeadInv
    <3>2. Head(left) = "host"
      BY <1>2, <2>2, <3>1
    <3>3. left' \in Seq({"host", "drv"}) /\ left' # <<>> /\ LastCall' = "drv"
      BY <1>2, <2>1, <3>1, <3>2, HostCallsComeFirst
    <3> QED
      BY <1>2, <2>1, <2>4, <3>3 DEF DeadInv
  <2>6. CASE step.launch = "no"
    BY <1>2, <2>1, <2>4, <2>6 DEF DeadInv
  <2> QED
    BY <2>5, <2>6
<1> QED
  BY <1>3, <1>4

LEMMA DeadWaits ==
  ASSUME DeadInv, VerdictInv, CallsInv, Mobile!Poll
  PROVE  DeadInv'
<1> USE DEF Mobile!Fixed, Mobile!World
<1> SUFFICES ASSUME diedBefore PROVE DeadInv'
  BY DEF Mobile!Poll, DeadInv
<1>1. PICK reply \in Mobile!Replies(Mobile!Asks[i]) :
        ~Mobile!Satisfied(Mobile!Asks[i], reply) =>
            w' = Mobile!Observe(Mobile!Asks[i], reply) /\ UNCHANGED <<pc, i, left>>
  BY DEF Mobile!Poll
<1>2. /\ pc = "wait" /\ UNCHANGED <<step, driver, diedBefore, err>> /\ driver = "dead"
      /\ i = 1 /\ step.launch = "no" /\ step \in Steps
      /\ w.mismatch = FALSE /\ w.fetched = FALSE /\ w.lastErr \in {Mobile!None, "refused"}
      /\ err \notin {"mismatch", "duplicate", "expired"}
  BY DEF Mobile!Poll, DeadInv
<1>3. reply \in {"refused", "cut"} /\ ~Mobile!Satisfied(Mobile!Asks[i], reply)
  BY <1>2, DeadDriverRefuses
<1>4. w' = Mobile!Observe(Mobile!Asks[i], reply) /\ UNCHANGED <<pc, i, left>>
  BY <1>1, <1>3
<1>5. /\ w' \in WaitRecord /\ w'.pos = "pause"
      /\ w'.cutOff <=> (w.cutOff \/ reply = "cut")
      /\ w'.mismatch <=> w.mismatch
      /\ w'.fetched <=> w.fetched
      /\ w'.lastErr = IF reply = "cut" THEN w.lastErr ELSE reply
  <2>1. reply \in Spoken /\ w \in WaitRecord
    BY <1>3 DEF Spoken, VerdictInv
  <2> QED
    BY <1>3, <1>4, <2>1, Observed
<1>6. /\ w'.mismatch \in BOOLEAN /\ w'.fetched \in BOOLEAN /\ w'.cutOff \in BOOLEAN
  BY <1>5 DEF WaitRecord
<1>7. /\ w'.mismatch = FALSE /\ w'.fetched = FALSE
      /\ w'.cutOff = TRUE \/ w'.lastErr = "refused"
      /\ w'.lastErr \in {Mobile!None, "refused"}
  BY <1>2, <1>3, <1>5, <1>6
<1> QED
  BY <1>2, <1>4, <1>7 DEF DeadInv

LEMMA DeadGivesUp ==
  ASSUME DeadInv, Mobile!GiveUp
  PROVE  DeadInv'
<1>1. /\ pc = "wait" /\ w.pos = "pause" /\ pc' = "salvage" /\ err' = Mobile!Verdict
      /\ UNCHANGED <<step, driver, diedBefore>>
  BY DEF Mobile!GiveUp, Mobile!FailWith, Mobile!Fixed, Mobile!World
<1>2. diedBefore => Mobile!Verdict \in {"refused", "interrupted", "unanswered"}
  BY <1>1 DEF DeadInv, Mobile!Verdict, Mobile!None
<1> QED
  BY <1>1, <1>2, DeadFails

LEMMA DeadStep ==
  DeadInv /\ VerdictInv /\ CallsInv /\ TimelineInv /\ [Mobile!Next]_(Mobile!vars) => DeadInv'
<1> SUFFICES ASSUME DeadInv, VerdictInv, CallsInv, TimelineInv, [Mobile!Next]_(Mobile!vars)
             PROVE  DeadInv'
  OBVIOUS
<1> USE DEF Mobile!Fixed, Mobile!World
<1>1. CASE Mobile!DriverDies \/ Mobile!RunEnds \/ UNCHANGED Mobile!vars
  BY <1>1, DeadStays DEF Mobile!DriverDies, Mobile!RunEnds, Mobile!vars
<1>2. CASE Mobile!WaitDeadline \/ Mobile!PollAgain
  <2>1. /\ w'.mismatch = w.mismatch /\ w'.lastErr = w.lastErr
        /\ w'.cutOff = w.cutOff /\ w'.fetched = w.fetched
        /\ w'.pos = "pause" => w.pos = "pause"
    <3>1. CASE Mobile!WaitDeadline
      BY <3>1 DEF VerdictInv, WaitRecord, Mobile!WaitDeadline
    <3>2. CASE Mobile!PollAgain
      <4> DEFINE n == w.polls + 1
                 p == IF Mobile!WaitOver THEN "late" ELSE "ask"
      <4>1. w' = [w EXCEPT !.polls = n, !.pos = p]
        BY <3>2 DEF Mobile!PollAgain
      <4>2. n \in Nat /\ p \in {"ask", "late"} /\ w \in WaitRecord
        BY WaitFields DEF VerdictInv
      <4> HIDE DEF n, p
      <4> QED
        BY <4>1, <4>2 DEF WaitRecord
    <3> QED
      BY <1>2, <3>1, <3>2
  <2>2. pc = "wait" /\ UNCHANGED <<step, driver, pc, i, left, err, diedBefore>>
    BY <1>2 DEF Mobile!WaitDeadline, Mobile!PollAgain
  <2> QED
    BY <2>1, <2>2 DEF DeadInv
<1>3. CASE Mobile!StartAttempt
  <2>1. /\ pc' = "prep" /\ i' = 1 /\ err' = Mobile!None /\ left' = Mobile!Preparation(step)
        /\ diedBefore' = (driver = "dead") /\ UNCHANGED <<step, driver>> /\ step \in Steps
    BY <1>3 DEF Mobile!StartAttempt, TimelineInv
  <2>2. step.launch # "no" => left' \in Seq({"host", "drv"}) /\ left' # <<>> /\ LastCall' = "drv"
    BY <2>1, PreparationAsksTheDriver DEF LastCall
  <2> QED
    BY <2>1, <2>2 DEF DeadInv, Mobile!None
<1>4. CASE Mobile!RetryInterrupted
  BY <1>4 DEF Mobile!RetryInterrupted, DeadInv
<1>5. CASE Mobile!Call
  BY <1>5, DeadCalls
<1>6. CASE Mobile!Prepared
  BY <1>6 DEF Mobile!Prepared, Mobile!Arrive, DeadInv
<1>7. CASE Mobile!StepEnd
  BY <1>7 DEF Mobile!StepEnd, DeadInv
<1>8. CASE Mobile!Begin
  <2>1. /\ pc = "begin" /\ UNCHANGED <<step, driver, i, err, diedBefore>>
        /\ \/ i > Len(Mobile!Asks) /\ pc' = "tree"
           \/ pc' = "act" /\ left' = <<"drv">>
           \/ pc' = "wait" /\ w' = Mobile!FreshWait
    BY <1>8 DEF Mobile!Begin
  <2>2. CASE i > Len(Mobile!Asks) /\ pc' = "tree"
    <3>1. diedBefore => i = 1 /\ step \in Steps
      BY <2>1 DEF DeadInv
    <3>2. diedBefore => Mobile!Asks = <<>>
      <4> SUFFICES ASSUME diedBefore PROVE Mobile!Asks = <<>>
        OBVIOUS
      <4>1. Mobile!Asks \in Seq(Mobile!Kinds) /\ 1 > Len(Mobile!Asks)
        BY <2>2, <3>1, StepFacts
      <4> QED
        BY <4>1
    <3>3. Mobile!Asks' = Mobile!Asks
      BY <2>1 DEF Mobile!Asks
    <3> QED
      BY <2>1, <2>2, <3>2, <3>3 DEF DeadInv
  <2>3. CASE pc' = "act" /\ left' = <<"drv">>
    BY <2>1, <2>3 DEF DeadInv
  <2>4. CASE pc' = "wait" /\ w' = Mobile!FreshWait
    BY <2>1, <2>4 DEF DeadInv, Mobile!FreshWait
  <2> QED
    BY <2>1, <2>2, <2>3, <2>4
<1>9. CASE Mobile!Acted
  <2>1. /\ pc = "act" /\ left = <<>> /\ UNCHANGED <<diedBefore>>
    BY <1>9 DEF Mobile!Acted
  <2> QED
    BY <2>1 DEF DeadInv
<1>10. CASE Mobile!Poll
  BY <1>10, DeadWaits
<1>11. CASE Mobile!GiveUp
  BY <1>11, DeadGivesUp
<1>12. CASE Mobile!RecordTree
  BY <1>12 DEF Mobile!RecordTree, DeadInv, Mobile!Asks
<1>13. CASE Mobile!Capture
  BY <1>13 DEF Mobile!Capture, DeadInv, Mobile!Asks
<1>14. CASE Mobile!Salvage
  BY <1>14 DEF Mobile!Salvage, DeadInv
<1> QED
  BY <1>1, <1>2, <1>3, <1>4, <1>5, <1>6, <1>7, <1>8, <1>9, <1>10, <1>11, <1>12, <1>13, <1>14
     DEF Mobile!Next, Mobile!Work, Mobile!Terminating

\* A driver that was dead before an attempt never lets it pass when it asks it for
\* anything, and is blamed for its failure; a refusal leads to its logs
\* (mobile/provider.go, Execute, looksLikeDriverDeath and driverDeathArtifacts).
THEOREM DeadDriversShow == Mobile!Spec => []DeadDriverIsNotHidden
<1>1. Mobile!Init => DeadInv /\ LogsInv
  BY DEF Mobile!Init, DeadInv, LogsInv, Mobile!None
<1>2. DeadInv /\ LogsInv => DeadDriverIsNotHidden
  BY DEF DeadInv, LogsInv, DeadDriverIsNotHidden, Mobile!DeadDriverIsNotHidden
<1> QED
  BY <1>1, <1>2, DeadStep, LogsStep, VerdictInductive, CallsInductive, TimelineInductive, PTL
     DEF Mobile!Spec
=============================================================================
