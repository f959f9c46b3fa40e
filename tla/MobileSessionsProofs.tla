-------------------------- MODULE MobileSessionsProofs --------------------------
(***************************************************************************)
(* What holds of MobileSessions for any scenarios, targets and devices.    *)
(***************************************************************************)
EXTENDS MobileSessions, TLAPS

\* What every proof by actions needs of the next-state relation.
LEMMA StepsAreTyped ==
  ASSUME TypeOK, [Next]_vars
  PROVE  TypeOK'
<1>1. ASSUME NEW s \in Scenarios, Scenario(s)
      PROVE  TypeOK'
  <2>1. CASE BeginScenario(s)
    BY <2>1 DEF BeginScenario, Step, TypeOK, Points, Inside, sessionVars, endVars
  <2>2. CASE NextStep(s)
    BY <2>2 DEF NextStep, Step, TypeOK, Points, Inside, sessionVars, recordVars, ctrlVars, endVars
  <2>3. CASE LockStep(s)
    BY <2>3 DEF LockStep, Step, TypeOK, Points, Inside, recordVars, ctrlVars, endVars
  <2>4. CASE Lookup(s)
    BY <2>4 DEF Lookup, Step, TypeOK, Points, Inside, sessionVars, recordVars, ctrlVars, endVars
  <2>5. CASE LockTarget(s)
    BY <2>5 DEF LockTarget, Step, TypeOK, Points, Inside, recordVars, ctrlVars, endVars
  <2>6. CASE Build(s)
    BY <2>6 DEF Build, Step, TypeOK, Points, Inside, recordVars, ctrlVars, endVars
  <2>7. CASE BuildFails(s)
    BY <2>7 DEF BuildFails, Return, Step, TypeOK, Points, Inside, recordVars, ctrlVars, endVars
  <2>8. CASE CheckRecording(s)
    BY <2>8 DEF CheckRecording, Step, TypeOK, Points, Inside, sessionVars, recordVars, ctrlVars, endVars
  <2>9. CASE StartRecorder(s)
    BY <2>9, MobileAssumption DEF StartRecorder, Step, TypeOK, Points, Inside, Device,
       sessionVars, ctrlVars, endVars
  <2>10. CASE Claim(s)
    BY <2>10, MobileAssumption DEF Claim, Step, TypeOK, Points, Inside, Device, sessionVars, endVars
  <2>11. CASE Act(s)
    BY <2>11 DEF Act, Return, Step, TypeOK, Points, Inside, recordVars, ctrlVars, endVars
  <2>12. CASE EndScenario(s)
    BY <2>12, MobileAssumption DEF EndScenario, Step, TypeOK, Points, Inside, sessionVars, endVars
  <2>13. CASE StopRecorder(s)
    BY <2>13 DEF StopRecorder, Step, TypeOK, Points, Inside, sessionVars, ctrlVars, endVars
  <2>14. CASE ScenarioReturns(s)
    BY <2>14 DEF ScenarioReturns, Step, TypeOK, Points, Inside, sessionVars, recordVars, ctrlVars, endVars
  <2> QED BY <1>1, <2>1, <2>2, <2>3, <2>4, <2>5, <2>6, <2>7, <2>8, <2>9, <2>10, <2>11,
             <2>12, <2>13, <2>14 DEF Scenario, Execute
<1>2. CASE DeadlineFires
  BY <1>2 DEF DeadlineFires, TypeOK, scenarioVars, sessionVars, ctrlVars
<1>3. CASE Closing
  BY <1>3 DEF Closing, Close, CloseSession, CloseReturns, TypeOK, scenarioVars, sessionVars,
     recordVars, ctrlVars, endVars
<1>4. CASE UNCHANGED vars
  BY <1>4 DEF TypeOK, vars, scenarioVars, sessionVars, recordVars, ctrlVars, endVars
<1> QED BY <1>1, <1>2, <1>3, <1>4 DEF Next, Closed

\* The variables keep their types.
THEOREM TypeCorrect == Spec => []TypeOK
<1>1. Init => TypeOK
  BY MobileAssumption DEF Init, TypeOK, Points, Inside
<1>2. TypeOK /\ [Next]_vars => TypeOK'
  BY StepsAreTyped
<1> QED BY <1>1, <1>2, PTL DEF Spec

-----------------------------------------------------------------------------

\* The step lock of a target says who is inside Execute with it.
LockInv == \A s \in Scenarios : pc[s] \in Inside => stepLock[target[s]] = s

LEMMA LockStepped ==
  ASSUME TypeOK, LockInv, [Next]_vars
  PROVE  LockInv'
<1>1. ASSUME NEW s \in Scenarios, Scenario(s)
      PROVE  LockInv'
  <2>1. ASSUME NEW r \in Scenarios, pc'[r] \in Inside
        PROVE  stepLock'[target'[r]] = r
    <3>1. CASE LockStep(s)
      \* The lock was free, so nobody else was inside with it.
      BY <2>1, <3>1, MobileAssumption DEF LockStep, Step, TypeOK, LockInv, Points, Inside
    <3>2. CASE BuildFails(s) \/ Act(s)
      BY <2>1, <3>2, MobileAssumption DEF BuildFails, Act, Return, Step, TypeOK, LockInv, Points, Inside
    <3>3. CASE NextStep(s)
      BY <2>1, <3>3 DEF NextStep, Step, TypeOK, LockInv, Points, Inside, sessionVars
    <3>4. CASE \/ BeginScenario(s) \/ EndScenario(s) \/ StopRecorder(s) \/ ScenarioReturns(s)
      BY <2>1, <3>4 DEF BeginScenario, EndScenario, StopRecorder, ScenarioReturns, Step, TypeOK,
         LockInv, Points, Inside, sessionVars
    <3>5. CASE Lookup(s) \/ LockTarget(s) \/ Build(s)
      BY <2>1, <3>5 DEF Lookup, LockTarget, Build, Step, TypeOK, LockInv, Points, Inside, sessionVars
    <3>6. CASE CheckRecording(s) \/ StartRecorder(s) \/ Claim(s)
      BY <2>1, <3>6 DEF CheckRecording, StartRecorder, Claim, Step, TypeOK, LockInv, Points, Inside,
         sessionVars
    <3> QED BY <1>1, <3>1, <3>2, <3>3, <3>4, <3>5, <3>6 DEF Scenario, Execute
  <2> QED BY <2>1 DEF LockInv
<1>2. CASE DeadlineFires \/ Closing \/ UNCHANGED vars
  BY <1>2 DEF DeadlineFires, Closing, Close, CloseSession, CloseReturns, LockInv, vars,
     scenarioVars, sessionVars
<1> QED BY <1>1, <1>2 DEF Next, Closed

\* Two scenarios never drive one target at once: the step lock of Execute keeps
\* lookups, builds, recordings and actions of one session apart.
THEOREM ExclusiveSessions == Spec => []SessionIsExclusive
<1>1. Init => LockInv
  BY DEF Init, LockInv, Inside
<1>2. TypeOK /\ LockInv /\ [Next]_vars => LockInv'
  BY LockStepped
<1>3. LockInv => SessionIsExclusive
  BY DEF LockInv, SessionIsExclusive
<1> QED BY <1>1, <1>2, <1>3, TypeCorrect, PTL DEF Spec

-----------------------------------------------------------------------------

\* The cached sessions are the ones with a driver, and Close comes last.
DriverInv ==
  /\ \A t \in Targets : drivers[t] = IF t \in sessions THEN 1 ELSE 0
  /\ provider # "open" => \A s \in Scenarios : pc[s] = "done"
  /\ provider = "closed" => sessions = {}

LEMMA DriverStepped ==
  ASSUME TypeOK, DriverInv, [Next]_vars
  PROVE  DriverInv'
<1>1. ASSUME NEW s \in Scenarios, Scenario(s)
      PROVE  DriverInv'
  <2>1. pc[s] # "done" /\ provider' = provider /\ provider = "open"
    BY <1>1 DEF Scenario, Execute, BeginScenario, NextStep, LockStep, Lookup, LockTarget, Build,
       BuildFails, CheckRecording, StartRecorder, Claim, Act, EndScenario, StopRecorder,
       ScenarioReturns, Step, DriverInv, endVars
  <2>2. CASE Build(s)
    <3>1. target[s] \in Targets
      BY <2>2 DEF Build, Step, TypeOK, Inside
    <3> QED BY <2>1, <2>2, <3>1 DEF Build, TypeOK, DriverInv
  <2>3. CASE ~Build(s)
    <3>1. drivers' = drivers /\ sessions' = sessions
      BY <1>1, <2>3 DEF Scenario, Execute, BeginScenario, NextStep, LockStep, Lookup, LockTarget,
         BuildFails, CheckRecording, StartRecorder, Claim, Act, EndScenario, StopRecorder,
         ScenarioReturns, sessionVars
    <3> QED BY <2>1, <3>1 DEF DriverInv
  <2> QED BY <2>2, <2>3
<1>2. CASE Closing
  <2>1. CASE \E t \in Targets : CloseSession(t)
    <3> PICK t \in Targets : CloseSession(t)
      BY <2>1
    <3> QED BY DEF CloseSession, TypeOK, DriverInv, scenarioVars, endVars
  <2>2. CASE Close \/ CloseReturns
    BY <2>2 DEF Close, CloseReturns, TypeOK, DriverInv, scenarioVars, sessionVars
  <2> QED BY <1>2, <2>1, <2>2 DEF Closing
<1>3. CASE DeadlineFires \/ UNCHANGED vars
  BY <1>3 DEF DeadlineFires, DriverInv, vars, scenarioVars, sessionVars, endVars
<1> QED BY <1>1, <1>2, <1>3 DEF Next, Closed

\* One driver per target, and none after Close.
THEOREM DriversAreClosed == Spec => []OneDriverPerTarget
<1>1. Init => DriverInv
  BY DEF Init, DriverInv
<1>2. TypeOK /\ DriverInv /\ [Next]_vars => DriverInv'
  BY DriverStepped
<1>3. DriverInv => OneDriverPerTarget
  BY DEF DriverInv, OneDriverPerTarget
<1> QED BY <1>1, <1>2, <1>3, TypeCorrect, PTL DEF Spec

-----------------------------------------------------------------------------

\* Where a scenario stands with its recording: an entry of pending or active
\* lives in the step list only, and no second recorder is begun.
RecordPhase ==
  \A s \in Scenarios :
    /\ s \in pending \/ active[s] # Nobody \/ pc[s] \in {"begin", "spawn", "claim"}
         => block[s] = "steps"
    /\ pc[s] \in {"spawn", "claim"} => s \in pending /\ active[s] = Nobody

\* A recorder that runs is one its scenario can still find and stop.
RecorderFound ==
  \A r \in recorders :
    \/ pc[r[1]] = "claim" /\ r[2] = Device(r[1])
    \/ active[r[1]] = r[2]
    \/ pc[r[1]] = "stop" /\ stopping[r[1]] = r[2]

LEMMA RecordPhaseStepped ==
  ASSUME TypeOK, RecordPhase, [Next]_vars
  PROVE  RecordPhase'
<1>1. ASSUME NEW s \in Scenarios, Scenario(s)
      PROVE  RecordPhase'
  <2>1. CASE BeginScenario(s)
    BY <2>1 DEF BeginScenario, Step, TypeOK, RecordPhase
  <2>2. CASE NextStep(s) \/ StopRecorder(s) \/ ScenarioReturns(s)
    BY <2>2 DEF NextStep, StopRecorder, ScenarioReturns, Step, TypeOK, RecordPhase, recordVars, ctrlVars
  <2>3. CASE EndScenario(s)
    BY <2>3 DEF EndScenario, Step, TypeOK, RecordPhase
  <2>4. CASE LockStep(s) \/ Lookup(s) \/ LockTarget(s) \/ Build(s) \/ BuildFails(s) \/ Act(s)
    BY <2>4 DEF LockStep, Lookup, LockTarget, Build, BuildFails, Act, Step, TypeOK, RecordPhase,
       recordVars, ctrlVars
  <2>5. CASE CheckRecording(s)
    BY <2>5 DEF CheckRecording, MayRecord, Step, TypeOK, RecordPhase, recordVars, ctrlVars
  <2>6. CASE StartRecorder(s)
    BY <2>6 DEF StartRecorder, Step, TypeOK, RecordPhase, ctrlVars
  <2>7. CASE Claim(s)
    BY <2>7 DEF Claim, Step, TypeOK, RecordPhase
  <2> QED BY <1>1, <2>1, <2>2, <2>3, <2>4, <2>5, <2>6, <2>7 DEF Scenario, Execute
<1>2. CASE DeadlineFires \/ Closing \/ UNCHANGED vars
  BY <1>2 DEF DeadlineFires, Closing, Close, CloseSession, CloseReturns, RecordPhase, vars,
     scenarioVars, recordVars, ctrlVars
<1> QED BY <1>1, <1>2 DEF Next, Closed

LEMMA RecorderFoundStepped ==
  ASSUME TypeOK, RecordPhase, RecorderFound, [Next]_vars
  PROVE  RecorderFound'
<1>1. ASSUME NEW s \in Scenarios, Scenario(s), NEW r \in recorders'
      PROVE  \/ pc'[r[1]] = "claim" /\ r[2] = Device(r[1])'
             \/ active'[r[1]] = r[2]
             \/ pc'[r[1]] = "stop" /\ stopping'[r[1]] = r[2]
  <2> r \in Scenarios \X Devices /\ r[1] \in Scenarios /\ r[2] # Nobody
    <3>1. TypeOK'
      BY StepsAreTyped
    <3> QED BY <3>1, MobileAssumption DEF TypeOK
  <2>1. CASE NextStep(s)
    BY <1>1, <2>1 DEF NextStep, Step, TypeOK, RecorderFound, Device, recordVars, ctrlVars
  <2>2. CASE EndScenario(s)
    BY <1>1, <2>2 DEF EndScenario, Step, TypeOK, RecorderFound, Device
  <2>3. CASE StopRecorder(s)
    <3>1. r \in recorders
      BY <1>1, <2>3 DEF StopRecorder
    <3>2. r[1] = s => r[2] # stopping[s]
      BY <1>1, <2>3 DEF StopRecorder
    <3> QED BY <2>3, <3>1, <3>2 DEF StopRecorder, Step, TypeOK, RecorderFound, Device, ctrlVars
  <2>4. CASE BeginScenario(s) \/ ScenarioReturns(s)
    BY <1>1, <2>4 DEF BeginScenario, ScenarioReturns, Step, TypeOK, RecorderFound, Device, recordVars,
       ctrlVars
  <2>5. CASE LockStep(s) \/ Lookup(s) \/ LockTarget(s) \/ Build(s)
    BY <1>1, <2>5 DEF LockStep, Lookup, LockTarget, Build, Step, TypeOK, RecorderFound, Device,
       recordVars, ctrlVars
  <2>6. CASE BuildFails(s) \/ Act(s) \/ CheckRecording(s)
    BY <1>1, <2>6 DEF BuildFails, Act, CheckRecording, Step, TypeOK, RecorderFound, Device,
       recordVars, ctrlVars
  <2>7. CASE StartRecorder(s)
    BY <1>1, <2>7 DEF StartRecorder, Step, TypeOK, RecorderFound, Device, ctrlVars
  <2>8. CASE Claim(s)
    BY <1>1, <2>8 DEF Claim, Step, TypeOK, RecorderFound, RecordPhase, Device
  <2> QED BY <1>1, <2>1, <2>2, <2>3, <2>4, <2>5, <2>6, <2>7, <2>8 DEF Scenario, Execute
<1>2. CASE DeadlineFires
  BY <1>2 DEF DeadlineFires, RecorderFound
<1>3. CASE Closing \/ UNCHANGED vars
  BY <1>3 DEF Closing, Close, CloseSession, CloseReturns, RecorderFound, Device, vars,
     scenarioVars, recordVars, ctrlVars
<1> QED BY <1>1, <1>2, <1>3 DEF Next, Closed, RecorderFound

\* No recorder outlives EndScenario, and no teardown step begins one.
THEOREM RecordersAreStopped == Spec => []RecorderStopped
<1> DEFINE RInv == RecordPhase /\ RecorderFound
<1>1. Init => RInv
  BY DEF Init, RecordPhase, RecorderFound
<1>2. TypeOK /\ RInv /\ [Next]_vars => RInv'
  BY RecordPhaseStepped, RecorderFoundStepped
<1>3. TypeOK /\ RInv => RecorderStopped
  BY MobileAssumption DEF TypeOK, RecordPhase, RecorderFound, RecorderStopped
<1> HIDE DEF RInv
<1> QED BY <1>1, <1>2, <1>3, TypeCorrect, PTL DEF Spec
=================================================================================
