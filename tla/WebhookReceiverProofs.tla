------------------------- MODULE WebhookReceiverProofs --------------------------
(***************************************************************************)
(* What holds of WebhookReceiver for any scenarios, ids and bounds.        *)
(***************************************************************************)
EXTENDS WebhookReceiver, TLAPS

LEMMA StepsAreTyped ==
  ASSUME TypeOK, [Next]_vars
  PROVE  TypeOK'
<1> USE WebhookAssumption DEF Receivers, None, Points
<1>1. ASSUME NEW s \in Scenarios, StepOf(s)
      PROVE  TypeOK'
  <2>1. CASE Start(s)
    <3>1. bound + 1 \in Receivers
      BY <2>1 DEF Start, TypeOK
    <3> QED BY <2>1, <3>1 DEF Start, Goto, TypeOK, handlerVars
  <2>2. CASE Register(s)
    <3>1. at' \in [Scenarios -> Points]
      BY <2>2 DEF Register, Return, Goto, TypeOK
    <3>2. rc' \in [Scenarios -> Receivers \cup {None}] /\ want' \in [Scenarios -> Nat]
      <4> DEFINE free == receivers[idOf[rc[s]]] = None
      <4>1. CASE free
        <5>1. Return(s, "register")
          BY <2>2, <4>1 DEF Register
        <5> QED BY <5>1 DEF Return, TypeOK
      <4>2. CASE ~free
        BY <2>2, <4>2 DEF Register, TypeOK
      <4> QED BY <4>1, <4>2
    <3>3. receivers' \in [Ids -> Receivers \cup {None}]
      BY <2>2 DEF Register, TypeOK
    <3> QED BY <2>2, <3>1, <3>2, <3>3 DEF Register, TypeOK, handlerVars
  <2>3. CASE Wait(s)
    <3>1. /\ at' \in [Scenarios -> Points] /\ rc' \in [Scenarios -> Receivers \cup {None}]
          /\ want' \in [Scenarios -> Nat]
      BY <2>3 DEF Wait, Goto, TypeOK
    <3> QED BY <2>3, <3>1 DEF Wait, TypeOK, serverVars, handlerVars
  <2>4. CASE Check(s) \/ GivesUp(s) \/ Drained(s)
    <3>1. at' \in [Scenarios -> Points]
      BY <2>4 DEF Check, GivesUp, Drained, Return, Goto, TypeOK
    <3>2. rc' \in [Scenarios -> Receivers \cup {None}]
      BY <2>4 DEF Check, GivesUp, Drained, Return, TypeOK
    <3>3. want' \in [Scenarios -> Nat]
      BY <2>4 DEF Check, GivesUp, Drained, Return, TypeOK
    <3> QED BY <2>4, <3>1, <3>2, <3>3 DEF Check, GivesUp, Drained, TypeOK, serverVars, handlerVars
  <2>5. CASE Woken(s)
    BY <2>5 DEF Woken, Goto, TypeOK, serverVars
  <2>6. CASE Stop(s)
    BY <2>6 DEF Stop, Goto, TypeOK, handlerVars
  <2>7. CASE StopFlags(s) \/ StopShuts(s)
    BY <2>7 DEF StopFlags, StopShuts, Flag, Shut, Goto, TypeOK, handlerVars
  <2>8. CASE ScenarioEnds(s)
    BY <2>8 DEF ScenarioEnds, Goto, TypeOK, serverVars, handlerVars
  <2> QED BY <1>1, <2>1, <2>2, <2>3, <2>4, <2>5, <2>6, <2>7, <2>8 DEF StepOf
<1>2. ASSUME NEW r \in Receivers, Handler(r)
      PROVE  TypeOK'
  <2>1. CASE Request(r) \/ Reject(r)
    <3>1. CASE Request(r)
      <4>1. reading[r] \in Nat /\ reading[r] + 1 \in Nat
        BY DEF TypeOK
      <4> QED BY <3>1, <4>1 DEF Request, TypeOK, stepVars, serverVars
    <3>2. CASE Reject(r)
      <4>1. reading[r] \in Nat /\ reading[r] - 1 \in Nat
        BY <3>2 DEF Reject, TypeOK
      <4> QED BY <3>2, <4>1 DEF Reject, TypeOK, stepVars, serverVars
    <3> QED BY <2>1, <3>1, <3>2
  <2>2. CASE Record(r)
    BY <2>2 DEF Record, TypeOK, stepVars, serverVars
  <2>3. CASE Signal(r)
    <3>1. notifying' \in [Receivers -> Nat]
      BY <2>3 DEF Signal, TypeOK
    <3>2. signal' \in [Receivers -> BOOLEAN]
      BY <2>3, Zenon DEF Signal, TypeOK
    <3> QED BY <2>3, <3>1, <3>2 DEF Signal, TypeOK, stepVars, serverVars
  <2> QED BY <1>2, <2>1, <2>2, <2>3 DEF Handler
<1>3. CASE Closing
  <2>1. ASSUME NEW i \in Ids, CloseReceiver(i)
        PROVE  TypeOK'
    BY <2>1 DEF CloseReceiver, Flag, Shut, TypeOK, stepVars, handlerVars
  <2>2. CASE Close \/ CloseReturns
    BY <2>2 DEF Close, CloseReturns, TypeOK, stepVars, serverVars, handlerVars
  <2> QED BY <1>3, <2>1, <2>2 DEF Closing
<1>4. CASE UNCHANGED vars
  BY <1>4 DEF TypeOK, vars, stepVars, serverVars, handlerVars
<1> QED BY <1>1, <1>2, <1>3, <1>4 DEF Next, Closed

\* The variables keep their types.
THEOREM TypeCorrect == Spec => []TypeOK
<1>1. Init => TypeOK
  BY WebhookAssumption DEF Init, TypeOK, Receivers, None, Points
<1>2. TypeOK /\ [Next]_vars => TypeOK'
  BY StepsAreTyped
<1> QED BY <1>1, <1>2, PTL DEF Spec

-----------------------------------------------------------------------------

\* Where a step has a receiver in hand.
Holding == {"register", "check", "select", "stop", "shutdown"}

\* A receiver belongs to the scenario of its id: the map and the steps agree on it.
OwnInv ==
  /\ \A i \in Ids : receivers[i] # None => receivers[i] <= bound /\ idOf[receivers[i]] = i
  /\ \A s \in Scenarios : at[s] \in Holding =>
       /\ rc[s] # None /\ rc[s] <= bound
       /\ idOf[rc[s]] \in Ids /\ Owner[idOf[rc[s]]] = s

LEMMA OwnStepped ==
  ASSUME TypeOK, OwnInv, [Next]_vars
  PROVE  OwnInv'
<1> USE WebhookAssumption DEF Receivers, None, Holding, Points
<1>1. ASSUME NEW s \in Scenarios, StepOf(s)
      PROVE  OwnInv'
  <2>1. CASE Start(s)
    <3>1. bound \in Nat /\ bound + 1 \in Receivers /\ bound' = bound + 1
      BY <2>1 DEF Start, TypeOK
    <3>2. PICK i \in Ids : Owner[i] = s /\ idOf' = [idOf EXCEPT ![bound + 1] = i]
      BY <2>1 DEF Start
    <3>3. idOf'[bound + 1] = i /\ \A r \in Receivers : r <= bound => idOf'[r] = idOf[r]
      BY <3>1, <3>2 DEF TypeOK
    <3>4. rc'[s] = bound + 1 /\ receivers' = receivers
      BY <2>1 DEF Start, TypeOK
    <3>5. \A t \in Scenarios \ {s} : at'[t] = at[t] /\ rc'[t] = rc[t]
      BY <2>1 DEF Start, Goto, TypeOK
    <3>6. ASSUME NEW j \in Ids, receivers'[j] # None
          PROVE  receivers'[j] <= bound' /\ idOf'[receivers'[j]] = j
      <4>1. receivers[j] \in Receivers /\ receivers[j] <= bound /\ idOf[receivers[j]] = j
        BY <3>4, <3>6 DEF OwnInv, TypeOK
      <4> QED BY <3>1, <3>3, <3>4, <4>1
    <3>7. ASSUME NEW t \in Scenarios \ {s}, at'[t] \in Holding
          PROVE  /\ rc'[t] # None /\ rc'[t] <= bound'
                 /\ idOf'[rc'[t]] \in Ids /\ Owner[idOf'[rc'[t]]] = t
      <4>1. /\ rc[t] \in Receivers /\ rc[t] <= bound
            /\ idOf[rc[t]] \in Ids /\ Owner[idOf[rc[t]]] = t
        BY <3>5, <3>7 DEF OwnInv, TypeOK
      <4> QED BY <3>1, <3>3, <3>5, <4>1
    <3>8. /\ rc'[s] # None /\ rc'[s] <= bound'
          /\ idOf'[rc'[s]] \in Ids /\ Owner[idOf'[rc'[s]]] = s
      BY <3>1, <3>2, <3>3, <3>4
    <3> QED BY <3>6, <3>7, <3>8 DEF OwnInv
  <2>2. CASE ~Start(s)
    <3>1. idOf' = idOf /\ bound' = bound
      BY <1>1, <2>2 DEF StepOf, Register, Wait, Check, Woken, GivesUp, Stop, StopFlags, StopShuts,
         Drained, ScenarioEnds, serverVars
    <3>2. \A t \in Scenarios \ {s} : at'[t] = at[t] /\ rc'[t] = rc[t]
      BY <1>1, <2>2 DEF StepOf, Register, Return, Wait, Check, Woken, GivesUp, Stop, StopFlags,
         StopShuts, Drained, ScenarioEnds, Goto, TypeOK
    <3>3. at'[s] \in Holding =>
            \/ at[s] \in Holding /\ rc'[s] = rc[s]
            \/ \E i \in Ids : Owner[i] = s /\ receivers[i] # None /\ rc'[s] = receivers[i]
      BY <1>1, <2>2 DEF StepOf, Register, Return, Wait, Check, Woken, GivesUp, Stop, StopFlags,
         StopShuts, Drained, ScenarioEnds, Goto, TypeOK
    <3>4. \A i \in Ids :
            \/ receivers'[i] \in {receivers[i], None}
            \/ at[s] = "register" /\ i = idOf[rc[s]] /\ receivers'[i] = rc[s]
      <4>1. CASE Register(s)
        BY <4>1 DEF Register, TypeOK
      <4>2. CASE Stop(s)
        BY <4>2 DEF Stop, TypeOK
      <4>3. CASE ~Register(s) /\ ~Stop(s)
        BY <1>1, <2>2, <4>3 DEF StepOf, Wait, Check, Woken, GivesUp, StopFlags, StopShuts, Drained,
           ScenarioEnds, serverVars
      <4> QED BY <4>1, <4>2, <4>3
    <3>5. ASSUME NEW j \in Ids, receivers'[j] # None
          PROVE  receivers'[j] <= bound /\ idOf[receivers'[j]] = j
      BY <3>4, <3>5 DEF OwnInv, TypeOK
    <3>6. ASSUME NEW t \in Scenarios, at'[t] \in Holding
          PROVE  /\ rc'[t] # None /\ rc'[t] <= bound
                 /\ idOf[rc'[t]] \in Ids /\ Owner[idOf[rc'[t]]] = t
      <4>1. CASE t # s
        BY <3>2, <3>6, <4>1 DEF OwnInv
      <4>2. CASE t = s
        BY <3>3, <3>6, <4>2 DEF OwnInv
      <4> QED BY <4>1, <4>2
    <3> QED BY <3>1, <3>5, <3>6 DEF OwnInv
  <2> QED BY <2>1, <2>2
<1>2. ASSUME NEW r \in Receivers, Handler(r)
      PROVE  OwnInv'
  BY <1>2 DEF Handler, Request, Reject, Record, Signal, OwnInv, stepVars, serverVars
<1>3. CASE Closing
  <2>1. \A i \in Ids : receivers'[i] \in {receivers[i], None}
    BY <1>3 DEF Closing, Close, CloseReturns, CloseReceiver, TypeOK, serverVars
  <2>2. UNCHANGED <<at, rc, bound, idOf>>
    BY <1>3 DEF Closing, Close, CloseReturns, CloseReceiver, stepVars, serverVars
  <2> QED BY <2>1, <2>2 DEF OwnInv
<1>4. CASE UNCHANGED vars
  BY <1>4 DEF OwnInv, vars, stepVars, serverVars
<1> QED BY <1>1, <1>2, <1>3, <1>4 DEF Next, Closed

LEMMA WakeupStepped ==
  ASSUME TypeOK, OwnInv, NoLostWakeup, [Next]_vars
  PROVE  NoLostWakeup'
<1> USE WebhookAssumption DEF Receivers, None, Holding, Points
<1>1. ASSUME NEW s \in Scenarios, StepOf(s)
      PROVE  NoLostWakeup'
  <2>1. CASE Woken(s)
    \* Nobody else waits on the receiver whose signal is taken.
    <3>1. \A t \in Scenarios : t # s /\ at[t] = "select" => rc[t] # rc[s]
      BY <2>1 DEF Woken, Goto, OwnInv
    <3>2. rc[s] \in Receivers
      BY <2>1 DEF Woken, Goto, TypeOK, OwnInv
    <3> QED BY <2>1, <3>1, <3>2 DEF Woken, Goto, TypeOK, NoLostWakeup
  <2>2. CASE Check(s)
    BY <2>2 DEF Check, Return, Goto, TypeOK, NoLostWakeup, handlerVars
  <2>3. CASE ~Woken(s) /\ ~Check(s)
    <3>1. UNCHANGED <<requests, notifying, signal>>
      BY <1>1, <2>3 DEF StepOf, Start, Register, Wait, GivesUp, Stop, StopFlags, StopShuts, Drained,
         ScenarioEnds, handlerVars
    <3>2. at'[s] # "select"
      BY <1>1, <2>3 DEF StepOf, Start, Register, Return, Wait, GivesUp, Stop, StopFlags, StopShuts,
         Drained, ScenarioEnds, Goto, TypeOK
    <3>3. \A t \in Scenarios \ {s} : at'[t] = at[t] /\ rc'[t] = rc[t] /\ want'[t] = want[t]
      BY <1>1, <2>3 DEF StepOf, Start, Register, Return, Wait, GivesUp, Stop, StopFlags, StopShuts,
         Drained, ScenarioEnds, Goto, TypeOK
    <3> QED BY <3>1, <3>2, <3>3 DEF NoLostWakeup
  <2> QED BY <2>1, <2>2, <2>3
<1>2. ASSUME NEW r \in Receivers, Handler(r)
      PROVE  NoLostWakeup'
  <2>1. CASE Record(r)
    BY <2>1 DEF Record, TypeOK, OwnInv, NoLostWakeup, stepVars
  <2>2. CASE Signal(r)
    BY <2>2 DEF Signal, TypeOK, NoLostWakeup, stepVars
  <2>3. CASE Request(r) \/ Reject(r)
    BY <2>3 DEF Request, Reject, NoLostWakeup, stepVars
  <2> QED BY <1>2, <2>1, <2>2, <2>3 DEF Handler
<1>3. CASE Closing \/ UNCHANGED vars
  BY <1>3 DEF Closing, Close, CloseReturns, CloseReceiver, NoLostWakeup, vars, stepVars, handlerVars
<1> QED BY <1>1, <1>2, <1>3 DEF Next, Closed

\* A waiter with enough requests has a signal to come, for any number of requests
\* and of signals consumed, because one step at most waits on a receiver.
THEOREM NoWakeupIsLost == Spec => []NoLostWakeup
<1> DEFINE WInv == OwnInv /\ NoLostWakeup
<1>1. Init => WInv
  BY DEF Init, OwnInv, NoLostWakeup, Holding
<1>2. TypeOK /\ WInv /\ [Next]_vars => WInv'
  BY OwnStepped, WakeupStepped
<1>3. WInv => NoLostWakeup
  OBVIOUS
<1> HIDE DEF WInv
<1> QED BY <1>1, <1>2, <1>3, TypeCorrect, PTL DEF Spec

-----------------------------------------------------------------------------

\* Who will shut a receiver that serves: it is registered, or in the hands of a step.
Held(r) ==
  \/ \E i \in Ids : receivers[i] = r
  \/ \E s \in Scenarios : rc[s] = r /\ at[s] \in {"register", "stop", "shutdown"}

\* A receiver about to be registered has an id (a part of OwnInv).
RegInv == \A s \in Scenarios : at[s] = "register" => idOf[rc[s]] \in Ids

HeldInv ==
  /\ \A r \in Receivers : server[r] \in {"open", "closed"} => Held(r)
  /\ provider # "open" => \A s \in Scenarios : at[s] = "done"
  /\ provider = "closed" => \A i \in Ids : receivers[i] = None

LEMMA HeldStepped ==
  ASSUME TypeOK, RegInv, HeldInv, [Next]_vars
  PROVE  HeldInv'
<1> USE WebhookAssumption DEF Receivers, None
<1>1. ASSUME NEW s \in Scenarios, StepOf(s)
      PROVE  HeldInv'
  <2>1. provider = "open" /\ provider' = "open"
    BY <1>1 DEF StepOf, Start, Register, Return, Wait, Check, Woken, GivesUp, Stop, StopFlags,
       StopShuts, Drained, ScenarioEnds, Goto, HeldInv, TypeOK
  <2>2. ASSUME NEW r \in Receivers, server'[r] \in {"open", "closed"}
        PROVE  Held(r)'
    <3>1. CASE Start(s)
      BY <2>2, <3>1 DEF Start, Goto, TypeOK, HeldInv, Held
    <3>2. CASE Register(s)
      <4>1. Held(r) /\ r # None /\ rc[s] \in Receivers \cup {None}
        BY <2>2, <3>2 DEF Register, HeldInv, TypeOK
      <4>2. CASE receivers[idOf[rc[s]]] = None
        <5>1. Return(s, "register") /\ receivers' = [receivers EXCEPT ![idOf[rc[s]]] = rc[s]]
          BY <3>2, <4>2 DEF Register
        <5>2. idOf[rc[s]] \in Ids
          BY <3>2 DEF Register, RegInv
        <5>3. \A i \in Ids : receivers[i] = r => receivers'[i] = r
          BY <4>1, <4>2, <5>1 DEF TypeOK
        <5>4. receivers'[idOf[rc[s]]] = rc[s]
          BY <5>1, <5>2 DEF TypeOK
        <5>5. \A t \in Scenarios \ {s} : at'[t] = at[t] /\ rc'[t] = rc[t]
          BY <5>1 DEF Return, Goto, TypeOK
        <5> QED BY <4>1, <5>2, <5>3, <5>4, <5>5 DEF Held
      <4>3. CASE receivers[idOf[rc[s]]] # None
        BY <3>2, <4>1, <4>3 DEF Register, Goto, TypeOK, Held
      <4> QED BY <4>2, <4>3
    <3>3. CASE Stop(s)
      <4>1. Held(r) /\ r # None
        BY <2>2, <3>3 DEF Stop, HeldInv
      <4>2. PICK i \in Ids : /\ rc' = [rc EXCEPT ![s] = receivers[i]]
                             /\ receivers' = [receivers EXCEPT ![i] = None]
        BY <3>3 DEF Stop
      <4>3. at[s] = "idle" /\ at' = [at EXCEPT ![s] = "stop"]
        BY <3>3 DEF Stop, Goto
      <4> QED BY <4>1, <4>2, <4>3 DEF TypeOK, Held
    <3>4. CASE StopFlags(s)
      <4>1. server[r] \in {"open", "closed"}
        BY <2>2, <3>4 DEF StopFlags, Flag, TypeOK
      <4> QED BY <3>4, <4>1 DEF StopFlags, Goto, TypeOK, HeldInv, Held
    <3>5. CASE StopShuts(s)
      <4>1. server[r] \in {"open", "closed"} /\ r # rc[s]
        BY <2>2, <3>5 DEF StopShuts, Shut, TypeOK
      <4>2. Held(r)
        BY <4>1 DEF HeldInv
      <4>3. receivers' = receivers /\ rc' = rc /\ \A t \in Scenarios \ {s} : at'[t] = at[t]
        BY <3>5 DEF StopShuts, Goto, TypeOK
      <4> QED BY <4>1, <4>2, <4>3 DEF Held
    <3>6. CASE Wait(s) \/ Check(s) \/ Woken(s) \/ GivesUp(s) \/ Drained(s) \/ ScenarioEnds(s)
      <4>1. receivers' = receivers /\ server' = server
        BY <3>6 DEF Wait, Check, Woken, GivesUp, Drained, ScenarioEnds, serverVars
      <4>2. \A t \in Scenarios : at[t] \in {"register", "stop", "shutdown"} => at'[t] = at[t] /\ rc'[t] = rc[t]
        BY <3>6 DEF Wait, Check, Return, Woken, GivesUp, Drained, ScenarioEnds, Goto, TypeOK
      <4> QED BY <2>2, <4>1, <4>2 DEF HeldInv, Held
    <3> QED BY <1>1, <3>1, <3>2, <3>3, <3>4, <3>5, <3>6 DEF StepOf
  <2> QED BY <2>1, <2>2 DEF HeldInv
<1>2. ASSUME NEW r \in Receivers, Handler(r)
      PROVE  HeldInv'
  BY <1>2 DEF Handler, Request, Reject, Record, Signal, HeldInv, Held, stepVars, serverVars
<1>3. CASE Closing
  <2>1. ASSUME NEW i \in Ids, CloseReceiver(i)
        PROVE  HeldInv'
    <3>1. provider = "closing" /\ provider' = "closing" /\ at' = at /\ rc' = rc
      BY <2>1 DEF CloseReceiver, stepVars
    <3>2. ASSUME NEW r \in Receivers, server'[r] \in {"open", "closed"}
          PROVE  \E j \in Ids : receivers'[j] = r
      <4>1. server[r] \in {"open", "closed"}
        BY <2>1, <3>2 DEF CloseReceiver, Flag, Shut, TypeOK
      <4>2. PICK j \in Ids : receivers[j] = r
        BY <3>1, <4>1 DEF HeldInv, Held
      <4>3. CASE Flag(receivers[i]) /\ receivers' = receivers
        BY <4>2, <4>3
      <4>4. CASE Shut(receivers[i]) /\ receivers' = [receivers EXCEPT ![i] = None]
        <5>1. r # receivers[i]
          BY <2>1, <3>2, <4>4 DEF Shut, TypeOK
        <5> QED BY <4>2, <4>4, <5>1 DEF TypeOK
      <4> QED BY <2>1, <4>3, <4>4 DEF CloseReceiver
    <3> QED BY <3>1, <3>2 DEF HeldInv, Held
  <2>2. CASE Close \/ CloseReturns
    BY <2>2 DEF Close, CloseReturns, HeldInv, Held, stepVars, serverVars
  <2> QED BY <1>3, <2>1, <2>2 DEF Closing
<1>4. CASE UNCHANGED vars
  BY <1>4 DEF HeldInv, Held, vars, stepVars, serverVars
<1> QED BY <1>1, <1>2, <1>3, <1>4 DEF Next, Closed

\* A served receiver always has somebody to shut it, and none is served after Close.
THEOREM ReceiversAreShut == Spec => []NoReceiverOrphaned
<1> DEFINE HInv == OwnInv /\ HeldInv
<1>1. Init => HInv
  BY DEF Init, HeldInv, OwnInv, Holding
<1>2. TypeOK /\ HInv /\ [Next]_vars => HInv'
  <2>1. OwnInv => RegInv
    BY DEF OwnInv, RegInv, Holding
  <2> QED BY <2>1, OwnStepped, HeldStepped
<1>3. TypeOK /\ HInv => NoReceiverOrphaned
  <2> SUFFICES ASSUME TypeOK, HeldInv, NEW r \in Receivers, server[r] \in {"open", "closed"}
               PROVE  /\ \/ r \in Range(receivers)
                         \/ \E s \in Scenarios : rc[s] = r /\ at[s] \in {"register", "stop", "shutdown"}
                      /\ provider # "closed"
    BY DEF NoReceiverOrphaned
  <2>1. DOMAIN receivers = Ids /\ r # None
    BY DEF TypeOK, Receivers, None
  <2>2. Held(r)
    BY DEF HeldInv
  <2>3. provider # "closed"
    BY <2>1, <2>2 DEF HeldInv, Held
  <2> QED BY <2>1, <2>2, <2>3 DEF Held, Range
<1> HIDE DEF HInv
<1> QED BY <1>1, <1>2, <1>3, TypeCorrect, PTL DEF Spec
=================================================================================
