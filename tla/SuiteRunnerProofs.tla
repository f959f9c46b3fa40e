-------------------------- MODULE SuiteRunnerProofs --------------------------
(***************************************************************************)
(* Proofs about SuiteRunner, and about TestCommand around it, for every set *)
(* of scenarios and every option.                                          *)
(***************************************************************************)
EXTENDS TestCommand, FiniteSetTheorems, TLAPS

\* The semaphore has at least one slot, also for --parallel 0 and below.
LEMMA SlotsPositive == Slots \in Nat \ {0}
BY SuiteAssumption DEF Slots

\* Every variable keeps its type, whatever the scenarios and the options are.
THEOREM TypeCorrect == Spec => []TypeOK
<1> USE DEF TypeOK
<1>1. Init => TypeOK
  <2> SUFFICES ASSUME Init PROVE TypeOK
    OBVIOUS
  <2> USE DEF Init
  <2>1. pc \in [Scenarios -> Points] /\ fired \in [Scenarios -> BOOLEAN]
    BY DEF Points
  <2>2. result \in [Scenarios -> Outcomes \cup {"nil", "error"}]
    OBVIOUS
  <2>3. teardown \in Seq(StepOutcomes)
    OBVIOUS
  <2>4. beat \in {"select", "emitting", "exited"}
    OBVIOUS
  <2>5. stalledCh \in [sent : BOOLEAN, names : SUBSET Scenarios]
    OBVIOUS
  <2>6. phase \in Phases
    BY DEF Phases
  <2>7. sem \in Int
    OBVIOUS
  <2>8. firstErr \in Scenarios \cup {NoError} /\ open \subseteq Closers
    OBVIOUS
  <2>9. runCtx \in {"live", "deadline", "canceled"} /\ graceOver \in BOOLEAN
    OBVIOUS
  <2>10. tracker \subseteq Scenarios /\ stalled \subseteq Scenarios
    OBVIOUS
  <2>11. ended \subseteq Scenarios
    OBVIOUS
  <2>12. atDeadline \subseteq Scenarios
    OBVIOUS
  <2> HIDE DEF Init
  <2>13. QED
    BY <2>1, <2>2, <2>3, <2>4, <2>5, <2>6, <2>7, <2>8, <2>9, <2>10, <2>11, <2>12, Zenon
<1>2. ASSUME TypeOK, [Next]_vars
      PROVE  TypeOK'
  <2> USE <1>2
  <2>1. ASSUME NEW s \in Scenarios, Goroutine(s)
        PROVE  TypeOK'
    <3> USE DEF Step, tailVars, watchVars, Points, Holding, Started, Left
    <3>2. CASE Acquire(s)
      BY <3>2 DEF Acquire
    <3>3. CASE TrackStart(s)
      BY <3>3 DEF TrackStart
    <3>4. CASE EmitStarted(s)
      BY <3>4 DEF EmitStarted
    <3>5. CASE Execute(s)
      BY <3>5 DEF Execute
    <3>6. CASE ReadCtx(s)
      BY <3>6 DEF ReadCtx
    <3>7. CASE EmitEnded(s)
      BY <3>7 DEF EmitEnded
    <3>8. CASE TrackEnd(s)
      BY <3>8 DEF TrackEnd
    <3>9. CASE RecordAndRelease(s)
      BY <3>9 DEF RecordAndRelease
    <3>10. CASE WgDone(s)
      BY <3>10 DEF WgDone
    <3>11. CASE EndHanging(s)
      BY <3>11 DEF EndHanging, Outcomes
    <3>12. QED
      BY <2>1, <3>2, <3>3, <3>4, <3>5, <3>6, <3>7, <3>8, <3>9, <3>10, <3>11 DEF Goroutine
  <2> USE DEF scenarioVars, watchVars, tailVars
  <2>2. CASE DeadlineFires
    BY <2>2 DEF DeadlineFires, At
  <2>3. CASE WatcherPublishes
    BY <2>3 DEF WatcherPublishes
  <2>4. CASE Heartbeat
    BY <2>4 DEF Heartbeat, HeartbeatTick, HeartbeatEmit, HeartbeatExit
  <2>5. CASE GraceExpires
    BY <2>5 DEF GraceExpires
  <2>6. CASE RunTail
    <3> USE DEF Phases
    <3>1. CASE WaitAll
      <4>1. <<"fail">> \in Seq(StepOutcomes)
        BY DEF StepOutcomes
      <4>2. teardown' \in Seq(StepOutcomes)
        BY <3>1, <4>1 DEF WaitAll
      <4>3. QED
        BY <3>1, <4>2 DEF WaitAll
    <3>2. CASE TeardownStep
      <4> PICK r \in StepOutcomes : teardown' = Append(teardown, r)
        BY <3>2 DEF TeardownStep
      <4>1. teardown' \in Seq(StepOutcomes)
        OBVIOUS
      <4>2. QED
        BY <3>2, <4>1 DEF TeardownStep
    <3>3. CASE ProvidersClosed \/ RunCancel \/ ReceiveStalled \/ EmitSuiteEnded
      BY <3>3 DEF ProvidersClosed, RunCancel, ReceiveStalled, EmitSuiteEnded
    <3>4. ASSUME NEW p \in Closers, CloseProvider(p)
          PROVE  TypeOK'
      BY <3>4 DEF CloseProvider
    <3>5. QED
      BY <2>6, <3>1, <3>2, <3>3, <3>4 DEF RunTail
  <2>7. CASE Finished \/ UNCHANGED vars
    BY <2>7 DEF Finished, vars
  <2>8. QED
    BY <1>2, <2>1, <2>2, <2>3, <2>4, <2>5, <2>6, <2>7 DEF Next
<1>3. QED
  BY <1>1, <1>2, PTL DEF Spec

-----------------------------------------------------------------------------
\* What a goroutine's place says of the suite: the providers are closed only by
\* the tail, and the tail starts when every goroutine is done.
Ordered ==
  /\ TailIsAlone
  /\ phase \in {"waiting", "teardown"} => open = Closers

\* The semaphore is never over-subscribed and its tokens are the goroutines in
\* flight (Run's sem channel).
LEMMA SemaphoreStep ==
  ASSUME TypeOK, AtMostParallel, [Next]_vars
  PROVE  AtMostParallel'
<1> DEFINE H == At(Holding)
<1>1. IsFiniteSet(H)
  BY SuiteAssumption, FS_Subset DEF At
<1>2. Slots \in Nat /\ sem \in Int
  BY SlotsPositive DEF TypeOK
<1>3. CASE UNCHANGED <<pc, sem>>
  BY <1>3 DEF AtMostParallel, At
<1>4. ASSUME NEW s \in Scenarios, Acquire(s)
      PROVE  AtMostParallel'
  <2>1. s \notin H /\ H' = H \cup {s}
    BY <1>4 DEF Acquire, Step, At, TypeOK, Holding, Started
  <2>2. Cardinality(H') = Cardinality(H) + 1
    BY <1>1, <2>1, FS_AddElement
  <2>3. QED
    BY <1>2, <1>4, <2>2 DEF Acquire, AtMostParallel, Slots
<1>5. ASSUME NEW s \in Scenarios, RecordAndRelease(s)
      PROVE  AtMostParallel'
  <2>1. s \in H /\ H' = H \ {s}
    BY <1>5 DEF RecordAndRelease, Step, At, TypeOK, Holding, Started
  <2>2. Cardinality(H') = Cardinality(H) - 1
    BY <1>1, <2>1, FS_RemoveElement
  <2>3. QED
    BY <1>2, <1>5, <2>2 DEF RecordAndRelease, AtMostParallel, Slots
<1>6. ASSUME NEW s \in Scenarios, NEW to \in Points,
             pc[s] \in Holding <=> to \in Holding,
             Step(s, pc[s], to), UNCHANGED sem
      PROVE  AtMostParallel'
  <2>1. H' = H
    BY <1>6 DEF Step, At, TypeOK
  <2>2. QED
    BY <1>6, <2>1 DEF AtMostParallel, Slots
<1>7. ASSUME NEW s \in Scenarios,
             \/ TrackStart(s) \/ EmitStarted(s) \/ Execute(s) \/ EndHanging(s)
             \/ ReadCtx(s) \/ EmitEnded(s) \/ TrackEnd(s) \/ WgDone(s)
      PROVE  AtMostParallel'
  BY <1>6, <1>7 DEF TrackStart, EmitStarted, Execute, EndHanging, ReadCtx, EmitEnded,
     TrackEnd, WgDone, Step, Points, Holding, Started, Left
<1>8. CASE \/ DeadlineFires \/ WatcherPublishes \/ Heartbeat \/ GraceExpires
           \/ RunTail \/ Finished \/ UNCHANGED vars
  BY <1>3, <1>8 DEF DeadlineFires, WatcherPublishes, Heartbeat, HeartbeatTick, HeartbeatEmit,
     HeartbeatExit, GraceExpires, RunTail, WaitAll, TeardownStep, ProvidersClosed, RunCancel,
     ReceiveStalled, EmitSuiteEnded, CloseProvider, Finished, vars, scenarioVars
<1>9. QED
  BY <1>4, <1>5, <1>7, <1>8 DEF Next, Goroutine

\* A step keeps the order of the run: a goroutine that is done stays done, the
\* tail waits for all of them, and only its closing phase closes a provider.
LEMMA OrderedStep ==
  ASSUME TypeOK, Ordered, [Next]_vars
  PROVE  Ordered'
<1> USE DEF Ordered, TailIsAlone
<1>1. CASE UNCHANGED <<pc, phase, open>>
  BY <1>1
<1>2. ASSUME NEW s \in Scenarios, Goroutine(s)
      PROVE  Ordered'
  <2>1. pc[s] # "done" /\ UNCHANGED <<phase, open>>
    BY <1>2 DEF Goroutine, Acquire, TrackStart, EmitStarted, Execute, EndHanging, ReadCtx,
       EmitEnded, TrackEnd, RecordAndRelease, WgDone, Step, tailVars
  <2>2. QED
    BY <2>1
<1>3. CASE RunTail
  <2>1. UNCHANGED pc
    BY <1>3 DEF RunTail, WaitAll, TeardownStep, ProvidersClosed, RunCancel, ReceiveStalled,
       EmitSuiteEnded, CloseProvider, scenarioVars
  <2>2. CASE WaitAll \/ TeardownStep
    BY <2>1, <2>2 DEF WaitAll, TeardownStep
  <2>3. CASE ProvidersClosed \/ RunCancel \/ ReceiveStalled \/ EmitSuiteEnded
    BY <2>1, <2>3 DEF ProvidersClosed, RunCancel, ReceiveStalled, EmitSuiteEnded
  <2>4. ASSUME NEW p \in Closers, CloseProvider(p)
        PROVE  Ordered'
    BY <2>1, <2>4 DEF CloseProvider
  <2>5. QED
    BY <1>3, <2>2, <2>3, <2>4 DEF RunTail
<1>4. CASE DeadlineFires \/ WatcherPublishes \/ Heartbeat \/ GraceExpires \/ Finished
  BY <1>1, <1>4 DEF DeadlineFires, WatcherPublishes, Heartbeat, HeartbeatTick, HeartbeatEmit,
     HeartbeatExit, GraceExpires, Finished, vars, scenarioVars, tailVars
<1>5. CASE UNCHANGED vars
  BY <1>1, <1>5 DEF vars, scenarioVars, tailVars
<1>6. QED
  BY <1>2, <1>3, <1>4, <1>5 DEF Next

\* At most Slots scenarios are in flight, for every --parallel and every number
\* of scenarios, and no token of the semaphore is lost or invented.
THEOREM BoundedParallelism == Spec => []AtMostParallel
<1>1. Init => AtMostParallel
  <2> SUFFICES ASSUME Init PROVE AtMostParallel
    OBVIOUS
  <2>1. At(Holding) = {}
    BY DEF Init, At, Holding, Started
  <2>2. Cardinality(At(Holding)) = 0
    BY <2>1, FS_EmptySet
  <2>3. sem = 0 /\ 0 <= Slots
    BY SlotsPositive DEF Init
  <2>4. QED
    BY <2>2, <2>3 DEF AtMostParallel
<1>2. QED
  BY <1>1, TypeCorrect, SemaphoreStep, PTL DEF Spec

\* The suite teardown, the closing of the providers and the final events run
\* with every scenario goroutine done.
THEOREM TailRunsAlone == Spec => []Ordered
<1>1. Init => Ordered
  BY DEF Init, Ordered, TailIsAlone
<1>2. QED
  BY <1>1, TypeCorrect, OrderedStep, PTL DEF Spec

\* No scenario and no suite teardown step meets a closed provider.
THEOREM ProvidersOutliveTheirUsers == Spec => []NoUseAfterClose
<1>1. TypeOK /\ Ordered => NoUseAfterClose
  BY DEF Ordered, TailIsAlone, NoUseAfterClose, Holding, Started
<1>2. QED
  BY <1>1, TypeCorrect, TailRunsAlone, PTL

-----------------------------------------------------------------------------
\* Why no stalled scenario is missed: a started one is
\* listed until its own TrackEnd, and one the deadline caught in flight either
\* has not read the context yet or reads it as fired, so it never delists.
Listed ==
  \A s \in Scenarios : pc[s] \in Started \cup {"read", "emitted"} => s \in tracker

Caught ==
  /\ runCtx = "live" => atDeadline = {} /\ ~stalledCh.sent
  /\ \A s \in atDeadline :
       pc[s] \in Started \/ (fired[s] /\ pc[s] \notin {"queued", "acquired"})
  /\ atDeadline \subseteq tracker

StalledInv == Listed /\ Caught /\ StalledComplete

\* The steps of the goroutines keep the list of stalled scenarios complete.
LEMMA StalledGoroutineStep ==
  ASSUME TypeOK, StalledInv, NEW s \in Scenarios, Goroutine(s)
  PROVE  StalledInv'
<1> USE DEF StalledInv, Listed, Caught, StalledComplete, TypeOK, Step,
        watchVars, tailVars, Started
<1>1. CASE Acquire(s)
  BY <1>1 DEF Acquire
<1>2. CASE TrackStart(s)
  BY <1>2 DEF TrackStart
<1>3. CASE EmitStarted(s)
  BY <1>3 DEF EmitStarted
<1>4. CASE Execute(s)
  BY <1>4 DEF Execute
<1>5. CASE ReadCtx(s)
  BY <1>5 DEF ReadCtx
<1>6. CASE EmitEnded(s)
  BY <1>6 DEF EmitEnded
<1>7. CASE TrackEnd(s)
  <2>1. CASE fired[s]
    BY <1>7, <2>1 DEF TrackEnd
  <2>2. CASE ~fired[s]
    BY <1>7, <2>2 DEF TrackEnd
  <2>3. QED
    BY <2>1, <2>2
<1>8. CASE RecordAndRelease(s)
  BY <1>8 DEF RecordAndRelease
<1>9. CASE WgDone(s)
  BY <1>9 DEF WgDone
<1>10. CASE EndHanging(s)
  BY <1>10 DEF EndHanging
<1>11. QED
  BY <1>1, <1>2, <1>3, <1>4, <1>5, <1>6, <1>7, <1>8, <1>9, <1>10 DEF Goroutine

LEMMA StalledStep ==
  ASSUME TypeOK, StalledInv, [Next]_vars
  PROVE  StalledInv'
<1> USE DEF StalledInv, Listed, Caught, StalledComplete, scenarioVars, watchVars,
        tailVars
<1>1. CASE UNCHANGED <<pc, tracker, fired, runCtx, atDeadline, stalledCh>>
  BY <1>1
<1>2. CASE DeadlineFires
  BY <1>2 DEF DeadlineFires, At, TypeOK, Started
<1>3. CASE WatcherPublishes
  BY <1>3 DEF WatcherPublishes, TypeOK
<1>4. CASE RunCancel
  BY <1>4 DEF RunCancel, TypeOK
<1>5. CASE RunTail /\ ~RunCancel
  BY <1>1, <1>5 DEF RunTail, WaitAll, TeardownStep, ProvidersClosed, ReceiveStalled,
     EmitSuiteEnded, CloseProvider
<1>6. CASE Heartbeat \/ GraceExpires \/ Finished \/ UNCHANGED vars
  BY <1>1, <1>6 DEF Heartbeat, HeartbeatTick, HeartbeatEmit, HeartbeatExit, GraceExpires,
     Finished, vars
<1>7. QED
  BY <1>2, <1>3, <1>4, <1>5, <1>6, StalledGoroutineStep DEF Next

\* The stalled list misses no scenario that was in flight
\* at the deadline, for every interleaving of the watcher with the goroutines.
THEOREM StalledListIsComplete == Spec => []StalledComplete
<1>1. Init => StalledInv
  BY DEF Init, StalledInv, Listed, Caught, StalledComplete, Started
<1>2. StalledInv => StalledComplete
  BY DEF StalledInv
<1>3. QED
  BY <1>1, <1>2, TypeCorrect, StalledStep, PTL DEF Spec

-----------------------------------------------------------------------------
\* The suite runner implements the abstract suite: acquiring the semaphore begins
\* a scenario, releasing it finishes one, and the tail is its three stages.
LEMMA ContractStep ==
  ASSUME TypeOK, AtMostParallel, Ordered, [Next]_vars
  PROVE  [Contract!Next]_(Contract!vars)
<1> DEFINE H == At(Holding)
           F == At(Left)
<1> USE DEF Contract!vars
<1>1. CASE UNCHANGED <<pc, phase>>
  BY <1>1 DEF At
<1>2. ASSUME NEW s \in Scenarios, Acquire(s)
      PROVE  Contract!Begin(s)
  <2>1. phase = "waiting" /\ UNCHANGED phase
    BY <1>2 DEF Acquire, Step, tailVars, Ordered, TailIsAlone
  <2>2. s \notin H \cup F /\ H' = H \cup {s} /\ F' = F
    BY <1>2 DEF Acquire, Step, At, TypeOK, Holding, Started, Left
  <2>3. Cardinality(H) < Slots
    BY <1>2 DEF Acquire, AtMostParallel
  <2>4. QED
    BY <2>1, <2>2, <2>3 DEF Contract!Begin, Contract!Cardinality, Cardinality
<1>3. ASSUME NEW s \in Scenarios, RecordAndRelease(s)
      PROVE  Contract!Finish(s)
  <2>1. s \in H /\ H' = H \ {s} /\ F' = F \cup {s}
    BY <1>3 DEF RecordAndRelease, Step, At, TypeOK, Holding, Started, Left
  <2>2. UNCHANGED phase
    BY <1>3 DEF RecordAndRelease, tailVars
  <2>3. QED
    BY <2>1, <2>2 DEF Contract!Finish
<1>4. ASSUME NEW s \in Scenarios,
             \/ TrackStart(s) \/ EmitStarted(s) \/ Execute(s) \/ EndHanging(s)
             \/ ReadCtx(s) \/ EmitEnded(s) \/ TrackEnd(s) \/ WgDone(s)
      PROVE  UNCHANGED Contract!vars
  <2>1. H' = H /\ F' = F
    BY <1>4 DEF TrackStart, EmitStarted, Execute, EndHanging, ReadCtx, EmitEnded, TrackEnd,
       WgDone, Step, At, TypeOK, Holding, Started, Left
  <2>2. UNCHANGED phase
    BY <1>4 DEF TrackStart, EmitStarted, Execute, EndHanging, ReadCtx, EmitEnded, TrackEnd,
       WgDone, tailVars
  <2>3. QED
    BY <2>1, <2>2
<1>5. CASE RunTail
  <2>1. UNCHANGED pc
    BY <1>5 DEF RunTail, WaitAll, TeardownStep, ProvidersClosed, RunCancel, ReceiveStalled,
       EmitSuiteEnded, CloseProvider, scenarioVars
  <2>2. CASE WaitAll
    <3>1. F = Scenarios
      BY <2>2 DEF WaitAll, At, Left
    <3>2. phase = "waiting" /\ phase' \in {"teardown", "closing"}
      BY <2>2 DEF WaitAll
    <3>3. Contract!CleanUp
      BY <2>1, <3>1, <3>2 DEF At, Contract!CleanUp
    <3>4. QED
      BY <3>3 DEF Contract!Next
  <2>3. CASE TeardownStep
    BY <2>1, <2>3 DEF At, TeardownStep
  <2>4. CASE ProvidersClosed
    <3>1. Contract!Close
      BY <2>1, <2>4 DEF At, ProvidersClosed, Contract!Close
    <3>2. QED
      BY <3>1 DEF Contract!Next
  <2>5. CASE RunCancel \/ ReceiveStalled
    BY <2>1, <2>5 DEF At, RunCancel, ReceiveStalled
  <2>6. CASE EmitSuiteEnded
    <3>1. Contract!Report
      BY <2>1, <2>6 DEF At, EmitSuiteEnded, Contract!Report
    <3>2. QED
      BY <3>1 DEF Contract!Next
  <2>7. ASSUME NEW p \in Closers, CloseProvider(p)
        PROVE  UNCHANGED Contract!vars
    BY <2>1, <2>7 DEF At, CloseProvider
  <2>8. QED
    BY <1>5, <2>2, <2>3, <2>4, <2>5, <2>6, <2>7 DEF RunTail
<1>6. CASE \/ DeadlineFires \/ WatcherPublishes \/ Heartbeat \/ GraceExpires \/ Finished
           \/ UNCHANGED vars
  BY <1>1, <1>6 DEF DeadlineFires, WatcherPublishes, Heartbeat, HeartbeatTick, HeartbeatEmit,
     HeartbeatExit, GraceExpires, Finished, vars, scenarioVars, tailVars
<1>7. QED
  BY <1>2, <1>3, <1>4, <1>5, <1>6 DEF Next, Goroutine, Contract!Next

\* Run implements SuiteContract for every number of scenarios and every option.
THEOREM Refinement == Spec => RefinesContract
<1>1. Init => Contract!Init
  BY DEF Init, Contract!Init, At, Holding, Started, Left
<1>2. QED
  BY <1>1, ContractStep, TypeCorrect, BoundedParallelism, TailRunsAlone, PTL
  DEF Spec, RefinesContract, Contract!Spec

-----------------------------------------------------------------------------
(* The suite teardown.                                                     *)

\* What the block has done so far: nothing before the wait group is through, one
\* result per step while it runs.
TeardownInv ==
  /\ phase = "waiting" => teardown = <<>>
  /\ phase = "teardown" => Len(teardown) < TeardownSteps
  /\ SuiteTeardownIsWhole

\* Every step of the run keeps what the teardown block has done in order.
LEMMA TeardownInvStep ==
  ASSUME TypeOK, TeardownInv, [Next]_vars
  PROVE  TeardownInv'
<1> USE DEF TeardownInv, SuiteTeardownIsWhole, TeardownExhaustive, DeadlineSparesCleanup
<1>1. CASE UNCHANGED <<phase, teardown, graceOver>>
  BY <1>1
<1>2. CASE WaitAll
  <2>1. teardown = <<>> /\ phase = "waiting" /\ UNCHANGED graceOver
    BY <1>2 DEF WaitAll
  <2>2. Len(<<>>) = 0 /\ Len(<<"fail">>) = 1 /\ <<"fail">>[1] = "fail"
    OBVIOUS
  <2>3. CASE phase' = (IF TeardownSteps = 0 THEN "closing" ELSE "teardown") /\ UNCHANGED teardown
    BY <2>1, <2>2, <2>3, SuiteAssumption
  <2>4. CASE phase' = "closing" /\ teardown' = <<"fail">>
    BY <2>1, <2>2, <2>4
  <2>5. QED
    BY <1>2, <2>3, <2>4 DEF WaitAll
<1>3. CASE TeardownStep
  <2> PICK r \in StepOutcomes : /\ r = "cut" => CleanupCtxDone
                                /\ teardown' = Append(teardown, r)
    BY <1>3 DEF TeardownStep
  <2>1. phase = "teardown" /\ UNCHANGED graceOver /\ Len(teardown) < TeardownSteps
    BY <1>3 DEF TeardownStep
  <2>2. teardown \in Seq(StepOutcomes) /\ Len(teardown) \in Nat
    BY DEF TypeOK
  <2>3. /\ Len(teardown') = Len(teardown) + 1
        /\ \A i \in 1..Len(teardown') : teardown'[i] = teardown[i] \/ teardown'[i] = r
        /\ \A i \in 1..Len(teardown') : i \in 1..Len(teardown) => teardown'[i] = teardown[i]
        /\ \A i \in 1..Len(teardown') : i \notin 1..Len(teardown) => teardown'[i] = r
    BY <2>2
  <2>4. phase' = IF Len(teardown) + 1 = TeardownSteps THEN "closing" ELSE "teardown"
    BY <1>3 DEF TeardownStep
  <2>5. phase' = "teardown" => Len(teardown') < TeardownSteps
    BY <2>1, <2>2, <2>3, <2>4, SuiteAssumption
  <2>6. phase' # "teardown" => Len(teardown') = TeardownSteps
    BY <2>2, <2>3, <2>4
  <2>7. ASSUME Detached, NEW i \in 1..Len(teardown'), teardown'[i] = "cut"
        PROVE  graceOver'
    <3>1. CASE i \in 1..Len(teardown)
      BY <2>1, <2>3, <2>7, <3>1
    <3>2. CASE i \notin 1..Len(teardown)
      BY <2>1, <2>3, <2>7, <3>2 DEF CleanupCtxDone
    <3>3. QED
      BY <3>1, <3>2
  <2>8. phase' # "waiting"
    BY <2>4
  <2>9. QED
    BY <2>5, <2>6, <2>7, <2>8
<1>4. CASE ProvidersClosed \/ RunCancel \/ ReceiveStalled \/ EmitSuiteEnded
  BY <1>4 DEF ProvidersClosed, RunCancel, ReceiveStalled, EmitSuiteEnded
<1>5. CASE GraceExpires
  BY <1>5 DEF GraceExpires
<1>6. ASSUME NEW p \in Closers, CloseProvider(p)
      PROVE  TeardownInv'
  BY <1>1, <1>6 DEF CloseProvider
<1>7. ASSUME NEW s \in Scenarios, Goroutine(s)
      PROVE  TeardownInv'
  BY <1>1, <1>7 DEF Goroutine, Acquire, TrackStart, EmitStarted, Execute, EndHanging, ReadCtx,
     EmitEnded, TrackEnd, RecordAndRelease, WgDone, tailVars
<1>8. CASE DeadlineFires \/ WatcherPublishes \/ Heartbeat \/ Finished \/ UNCHANGED vars
  BY <1>1, <1>8 DEF DeadlineFires, WatcherPublishes, Heartbeat, HeartbeatTick, HeartbeatEmit,
     HeartbeatExit, Finished, vars, tailVars
<1>9. QED
  BY <1>2, <1>3, <1>4, <1>5, <1>6, <1>7, <1>8 DEF Next, RunTail

\* However many steps the suite teardown has and whatever they meet, each has its
\* turn, and with a grace budget the run's deadline cuts none of them short.
THEOREM SuiteTeardownCompletes == Spec => []SuiteTeardownIsWhole
<1>1. Init => TeardownInv
  BY DEF Init, TeardownInv, SuiteTeardownIsWhole, TeardownExhaustive, DeadlineSparesCleanup
<1>2. TeardownInv => SuiteTeardownIsWhole
  BY DEF TeardownInv
<1>3. QED
  BY <1>1, <1>2, TypeCorrect, TeardownInvStep, PTL DEF Spec

-----------------------------------------------------------------------------
(* The command around the run.                                             *)

\* A goroutine past its scenario has left a result or an error.
Written == \A s \in Scenarios : pc[s] \in {"ran", "read", "emitted", "unlisted"} \cup Left => result[s] # "nil"

\* Names are published and collected only for a deadline that fired.
Blamed == stalledCh.names # {} \/ stalled # {} => runCtx = "deadline"

\* No step of the run forgets a result, and none blames what did not fire.
LEMMA EvidenceStep ==
  ASSUME TypeOK, Written, Blamed, [Next]_vars
  PROVE  Written' /\ Blamed'
<1> USE DEF Written, Blamed
<1>1. CASE UNCHANGED <<pc, result, stalledCh, stalled, runCtx>>
  BY <1>1
<1>2. ASSUME NEW s \in Scenarios, Goroutine(s)
      PROVE  Written' /\ Blamed'
  <2>1. UNCHANGED <<stalledCh, stalled, runCtx>>
    BY <1>2 DEF Goroutine, Acquire, TrackStart, EmitStarted, Execute, EndHanging, ReadCtx,
       EmitEnded, TrackEnd, RecordAndRelease, WgDone, tailVars, watchVars
  <2>2. CASE Execute(s)
    <3> PICK r \in Outcomes \cup {"error"} : result' = [result EXCEPT ![s] = r]
      BY <2>2 DEF Execute
    <3>1. r # "nil"
      BY DEF Outcomes
    <3>2. QED
      BY <2>1, <2>2, <3>1 DEF Execute, Step, TypeOK
  <2>3. CASE EndHanging(s)
    BY <2>1, <2>3 DEF EndHanging, Step, TypeOK
  <2>4. CASE \/ Acquire(s) \/ TrackStart(s) \/ EmitStarted(s) \/ ReadCtx(s)
             \/ EmitEnded(s) \/ TrackEnd(s) \/ RecordAndRelease(s) \/ WgDone(s)
    BY <2>1, <2>4 DEF Acquire, TrackStart, EmitStarted, ReadCtx, EmitEnded, TrackEnd,
       RecordAndRelease, WgDone, Step, TypeOK, Left
  <2>5. QED
    BY <1>2, <2>2, <2>3, <2>4 DEF Goroutine
<1>3. CASE DeadlineFires
  BY <1>3 DEF DeadlineFires, scenarioVars, tailVars
<1>4. CASE WatcherPublishes
  <2>1. stalledCh' = [sent |-> TRUE, names |-> IF runCtx = "deadline" THEN tracker ELSE {}]
    BY <1>4 DEF WatcherPublishes
  <2>2. stalledCh'.names = IF runCtx = "deadline" THEN tracker ELSE {}
    BY <2>1
  <2>3. UNCHANGED <<pc, result, stalled, runCtx>>
    BY <1>4 DEF WatcherPublishes, scenarioVars, tailVars
  <2>4. QED
    BY <2>2, <2>3
<1>5. CASE RunCancel \/ ReceiveStalled
  BY <1>5 DEF RunCancel, ReceiveStalled, scenarioVars, watchVars
<1>6. CASE WaitAll \/ TeardownStep \/ ProvidersClosed \/ EmitSuiteEnded
  BY <1>1, <1>6 DEF WaitAll, TeardownStep, ProvidersClosed, EmitSuiteEnded, scenarioVars, watchVars
<1>7. ASSUME NEW p \in Closers, CloseProvider(p)
      PROVE  Written' /\ Blamed'
  BY <1>1, <1>7 DEF CloseProvider, scenarioVars, watchVars
<1>8. CASE Heartbeat \/ GraceExpires \/ Finished \/ UNCHANGED vars
  BY <1>1, <1>8 DEF Heartbeat, HeartbeatTick, HeartbeatEmit, HeartbeatExit, GraceExpires,
     Finished, vars, scenarioVars, watchVars, tailVars
<1>9. QED
  BY <1>2, <1>3, <1>4, <1>5, <1>6, <1>7, <1>8 DEF Next, RunTail

\* Once Run has returned, nothing the command looks at changes any more: the
\* heartbeat, a late watcher and a late deadline are all that can still move.
LEMMA ReturnedIsFinal ==
  ASSUME TypeOK, TailIsAlone, phase = "returned", [Next]_vars
  PROVE  /\ UNCHANGED <<phase, result, teardown, stalled>>
         /\ runCtx = "deadline" => runCtx' = "deadline"
<1>1. ASSUME NEW s \in Scenarios, Goroutine(s)
      PROVE  FALSE
  BY <1>1 DEF TailIsAlone, Goroutine, Acquire, TrackStart, EmitStarted, Execute, EndHanging,
     ReadCtx, EmitEnded, TrackEnd, RecordAndRelease, WgDone, Step
<1>2. ~RunTail
  BY DEF RunTail, WaitAll, TeardownStep, ProvidersClosed, RunCancel, ReceiveStalled,
     EmitSuiteEnded, CloseProvider
<1>3. CASE \/ DeadlineFires \/ WatcherPublishes \/ Heartbeat \/ GraceExpires
           \/ Finished \/ UNCHANGED vars
  BY <1>3 DEF DeadlineFires, WatcherPublishes, Heartbeat, HeartbeatTick, HeartbeatEmit,
     HeartbeatExit, GraceExpires, Finished, vars, scenarioVars, tailVars
<1>4. QED
  BY <1>1, <1>2, <1>3 DEF Next

\* What the run guarantees the command, at every moment.
RunInv == TypeOK /\ Ordered /\ Written /\ Blamed

\* The command adds no step of its own to the run ...
LEMMA CommandRuns == TestSpec => Spec
<1>1. TestInit => Init
  BY DEF TestInit
<1>2. [TestNext]_testVars => [Next]_vars
  BY DEF TestNext, testVars, Load, RunSuite, Diagnose, EmitReports, Judge, Exited
<1>3. QED
  BY <1>1, <1>2, PTL DEF TestSpec, Spec

\* ... so that what holds of every run holds of it under every command.
LEMMA RunInvHolds == TestSpec => []RunInv
<1>1. Init => Written /\ Blamed
  BY DEF Init, Written, Blamed, Left
<1>2. TypeOK /\ Written /\ Blamed /\ [Next]_vars => (Written /\ Blamed)'
  BY EvidenceStep
<1>3. TypeOK /\ Ordered /\ Written /\ Blamed => RunInv
  BY DEF RunInv
<1>4. QED
  BY <1>1, <1>2, <1>3, CommandRuns, TypeCorrect, TailRunsAlone, PTL DEF Spec

\* Where the command is: no code before it exits, no report before Run returned,
\* and no verdict once a scenario has an error in place of its result.
CommandInv ==
  /\ notice \subseteq Scenarios
  /\ cli # "exited" => exit = "none"
  /\ cli \in {"report", "judge"} \/ notice # {} => phase = "returned"
  /\ cli = "judge" => \A s \in Scenarios : result[s] # "error"
  /\ notice # {} => runCtx = "deadline"
  /\ SuccessIsEarned /\ FailureIsReal

\* With the run over, every scenario has left something behind.
LEMMA AllWritten ==
  ASSUME RunInv, phase = "returned"
  PROVE  \A s \in Scenarios : result[s] # "nil"
BY DEF RunInv, Ordered, TailIsAlone, Written, Left

\* Every step of the command keeps its place and its verdict in order.
LEMMA CommandInvStep ==
  ASSUME RunInv, CommandInv, [TestNext]_testVars
  PROVE  CommandInv'
<1> USE DEF CommandInv, SuccessIsEarned, FailureIsReal, Failed, Exit
<1>1. CASE Load
  BY <1>1 DEF Load, vars, scenarioVars, tailVars
<1>2. CASE RunSuite
  <2>1. cli \in {"run", "report", "judge"} /\ Next /\ UNCHANGED <<cli, exit, notice>>
    BY <1>2 DEF RunSuite, cliVars
  <2>2. CASE phase = "returned"
    <3>1. UNCHANGED <<phase, result, teardown>> /\ (runCtx = "deadline" => runCtx' = "deadline")
      BY <2>1, <2>2, ReturnedIsFinal DEF RunInv, Ordered
    <3>2. QED
      BY <2>1, <3>1
  <2>3. CASE phase # "returned"
    BY <2>1, <2>3
  <2>4. QED
    BY <2>2, <2>3
<1>3. CASE Diagnose
  <2>1. UNCHANGED <<phase, result, teardown, stalled, runCtx, exit>> /\ notice' = stalled
    BY <1>3 DEF Diagnose, vars, scenarioVars, tailVars
  <2>2. cli = "run" /\ cli' = "report" /\ phase = "returned"
    BY <1>3 DEF Diagnose
  <2>3. QED
    BY <2>1, <2>2 DEF RunInv, TypeOK, Blamed
<1>4. CASE EmitReports
  <2>1. UNCHANGED <<phase, result, teardown, runCtx, notice>> /\ cli = "report"
    BY <1>4 DEF EmitReports, vars, scenarioVars, tailVars
  <2>2. cli' = "judge" => \A s \in Scenarios : result[s] # "error"
    BY <1>4 DEF EmitReports
  <2>3. exit' \notin {"0", "1"}
    BY <1>4, <2>1 DEF EmitReports
  <2>4. cli' \in {"exited", "judge"} /\ (cli' = "judge" => exit' = "none")
    BY <1>4, <2>1 DEF EmitReports
  <2>5. QED
    BY <2>1, <2>2, <2>3, <2>4
<1>5. CASE Judge
  <2>1. UNCHANGED <<phase, result, teardown, runCtx, notice>> /\ cli = "judge" /\ cli' = "exited"
    BY <1>5 DEF Judge, vars, scenarioVars, tailVars
  <2>2. exit' = IF Failed THEN "1" ELSE "0"
    BY <1>5 DEF Judge
  <2>3. \A s \in Scenarios : result[s] \in Outcomes
    BY <2>1, AllWritten DEF RunInv, TypeOK
  <2>4. \A i \in 1..Len(teardown) : teardown[i] \in StepOutcomes
    BY DEF RunInv, TypeOK
  <2>5. QED
    BY <2>1, <2>2, <2>3, <2>4 DEF Outcomes, StepOutcomes
<1>6. CASE Exited \/ UNCHANGED testVars
  BY <1>6 DEF Exited, testVars, cliVars, vars, scenarioVars, tailVars
<1>7. QED
  BY <1>1, <1>2, <1>3, <1>4, <1>5, <1>6 DEF TestNext

\* The exit code and the notice tell the truth, for every suite, every set of
\* options and every schedule: 0 only with every scenario and every suite teardown
\* step passed, 1 only with one of them failed, a stalled notice only after the
\* deadline and only about scenarios that ran.
THEOREM CommandIsTruthful == TestSpec => []CommandTellsTheTruth
<1>1. TestInit => CommandInv
  BY DEF TestInit, CommandInv, SuccessIsEarned, FailureIsReal
<1>2. RunInv /\ CommandInv => CommandTellsTheTruth
  <2>1. SUFFICES ASSUME RunInv, CommandInv, notice # {}
                 PROVE  \A s \in notice : result[s] # "nil"
    BY DEF CommandTellsTheTruth, CommandInv, NoticeMeansDeadline
  <2>2. QED
    BY <2>1, AllWritten DEF CommandInv
<1>3. QED
  BY <1>1, <1>2, RunInvHolds, CommandInvStep, PTL DEF TestSpec
==============================================================================
