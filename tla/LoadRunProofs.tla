----------------------------- MODULE LoadRunProofs ------------------------------
(***************************************************************************)
(* What holds of LoadRun for any concurrency and any number of requests.   *)
(***************************************************************************)
EXTENDS LoadRun, FiniteSetTheorems, TLAPS

Points == {"check", "count", "limit", "request", "exit"}

Typed ==
  /\ cfg \in [mode : {"requests", "duration"}, rate : BOOLEAN, warmup : BOOLEAN]
  /\ phase \in {"warmup", "measure", "judge", "over"}
  /\ at \in [Workers -> Points]
  /\ remaining \in Int /\ requests \in Nat /\ cut \in Nat /\ burst \in Nat
  /\ token \in BOOLEAN
  /\ roundCtx \in {"live", "done"} /\ stepCtx \in {"live", "done"}
  /\ verdict \in {"none", "canceled", "no samples", "ok"}

\* The number of workers at one of some points.
Num(P) == Cardinality({w \in Workers : at[w] \in P})

LEMMA WorkersFinite == IsFiniteSet(Workers)
  BY LoadAssumption, FS_Interval DEF Workers

LEMMA NumIsNat ==
  ASSUME NEW P
  PROVE  Num(P) \in Nat /\ Num(P) <= Cardinality(Workers)
<1>1. {w \in Workers : at[w] \in P} \in SUBSET Workers
  OBVIOUS
<1>2. QED
  BY <1>1, WorkersFinite, FS_Subset, FS_CardinalityType DEF Num

\* A worker that goes from one point to another is counted there and no longer here.
LEMMA WorkerMoves ==
  ASSUME at \in [Workers -> Points], NEW w \in Workers, NEW from, NEW to,
         Goto(w, from, to), NEW P
  PROVE  /\ from \in P /\ to \in P => Num(P)' = Num(P)
         /\ from \notin P /\ to \notin P => Num(P)' = Num(P)
         /\ from \in P /\ to \notin P => Num(P)' = Num(P) - 1
         /\ from \notin P /\ to \in P => Num(P)' = Num(P) + 1
<1> DEFINE S == {v \in Workers : at[v] \in P}
<1>1. IsFiniteSet(S)
  BY WorkersFinite, FS_Subset
<1>2. at[w] = from /\ at' = [at EXCEPT ![w] = to]
  BY DEF Goto
<1>3. CASE from \in P <=> to \in P
  <2>1. S' = S
    BY <1>2, <1>3
  <2>2. QED
    BY <1>3, <2>1 DEF Num
<1>4. CASE from \in P /\ to \notin P
  <2>1. S' = S \ {w} /\ w \in S
    BY <1>2, <1>4
  <2>2. Cardinality(S') = Cardinality(S) - 1
    BY <1>1, <2>1, FS_RemoveElement
  <2>3. QED
    BY <1>4, <2>2 DEF Num
<1>5. CASE from \notin P /\ to \in P
  <2>1. S' = S \cup {w} /\ w \notin S
    BY <1>2, <1>5
  <2>2. Cardinality(S') = Cardinality(S) + 1
    BY <1>1, <2>1, FS_AddElement
  <2>3. QED
    BY <1>5, <2>2 DEF Num
<1>6. QED
  BY <1>3, <1>4, <1>5

\* At the start of a round nobody is at a point but the check.
LEMMA NumAtStart ==
  ASSUME NEW P, "check" \notin P, \A w \in Workers : at[w] = "check"
  PROVE  Num(P) = 0
<1>1. {w \in Workers : at[w] \in P} = {}
  OBVIOUS
<1>2. QED
  BY <1>1, FS_EmptySet DEF Num

LEMMA TypedStep ==
  ASSUME Typed, [Next]_vars
  PROVE  Typed'
<1> USE DEF counters
<1>1. ASSUME NEW w \in Workers, Worker(w)
      PROVE  Typed'
  <2>1. at' \in [Workers -> Points]
    <3>1. PICK to \in Points : at' = [at EXCEPT ![w] = to]
      BY <1>1 DEF Worker, CheckContext, Count, LimiterPasses, LimiterFails, RequestEnds,
         Goto, Points, Counting, Measured
    <3>2. QED
      BY <3>1 DEF Typed
  <2>2. UNCHANGED <<cfg, phase, roundCtx, stepCtx, verdict>>
    BY <1>1 DEF Worker, CheckContext, Count, LimiterPasses, LimiterFails, RequestEnds
  <2>3. token' \in BOOLEAN
    BY <1>1 DEF Typed, Worker, CheckContext, Count, LimiterPasses, LimiterFails, RequestEnds
  <2>4. remaining' \in {remaining, remaining - 1}
    BY <1>1 DEF Worker, CheckContext, Count, LimiterPasses, LimiterFails, RequestEnds,
       Counting, Measured
  <2>5. burst' \in {burst, burst + 1}
    <3>1. CASE cfg.rate
      BY <1>1, <3>1 DEF Worker, CheckContext, Count, LimiterPasses, LimiterFails, RequestEnds
    <3>2. CASE ~cfg.rate
      BY <1>1, <3>2 DEF Worker, CheckContext, Count, LimiterPasses, LimiterFails, RequestEnds
    <3>3. QED
      BY <3>1, <3>2
  <2>6. requests' \in {requests, requests + 1} /\ cut' \in {cut, cut + 1}
    <3>1. CASE RequestEnds(w)
      <4>1. cut' \in {cut, cut + 1}
        BY <3>1 DEF RequestEnds
      <4>2. requests' \in {requests, requests + 1}
        BY <3>1 DEF RequestEnds
      <4>3. QED
        BY <4>1, <4>2
    <3>2. CASE ~RequestEnds(w)
      BY <1>1, <3>2 DEF Worker, CheckContext, Count, LimiterPasses, LimiterFails
    <3>3. QED
      BY <3>1, <3>2
  <2>7. remaining' \in Int /\ requests' \in Nat /\ cut' \in Nat /\ burst' \in Nat
    <3>1. remaining \in Int /\ requests \in Nat /\ cut \in Nat /\ burst \in Nat
      BY Zenon DEF Typed
    <3>2. QED
      BY <2>4, <2>5, <2>6, <3>1
  <2>8. QED
    BY <2>1, <2>2, <2>3, <2>7, Zenon DEF Typed
<1>2. CASE WarmupOver
  <2>1. UNCHANGED <<cfg, token, burst, requests, cut, stepCtx, verdict>>
    BY <1>2 DEF WarmupOver
  <2>2. /\ phase' \in {"warmup", "measure", "judge", "over"}
        /\ at' \in [Workers -> Points]
        /\ roundCtx' \in {"live", "done"}
    BY <1>2 DEF WarmupOver, Typed, Points
  <2>3. remaining' \in Int
    BY <1>2, LoadAssumption DEF WarmupOver
  <2>4. QED
    BY <2>1, <2>2, <2>3, Zenon DEF Typed
<1>3. CASE MeasureOver \/ Judge
  <2>1. UNCHANGED <<cfg, at, counters, roundCtx, stepCtx>>
    BY <1>3 DEF MeasureOver, Judge
  <2>2. /\ phase' \in {"warmup", "measure", "judge", "over"}
        /\ verdict' \in {"none", "canceled", "no samples", "ok"}
    BY <1>3 DEF MeasureOver, Judge, Typed
  <2>3. QED
    BY <2>1, <2>2, Zenon DEF Typed
<1>4. CASE WindowEnds \/ StepCancelled
  <2>1. UNCHANGED <<cfg, phase, at, counters, verdict>>
    BY <1>4 DEF WindowEnds, StepCancelled
  <2>2. roundCtx' \in {"live", "done"} /\ stepCtx' \in {"live", "done"}
    BY <1>4 DEF WindowEnds, StepCancelled, Typed
  <2>3. QED
    BY <2>1, <2>2, Zenon DEF Typed
<1>5. CASE Tick
  <2>1. UNCHANGED <<cfg, phase, at, remaining, requests, cut, roundCtx, stepCtx, verdict>>
    BY <1>5 DEF Tick
  <2>2. token' \in BOOLEAN /\ burst' \in Nat
    BY <1>5 DEF Tick
  <2>3. QED
    BY <2>1, <2>2, Zenon DEF Typed
<1>6. CASE Returned \/ UNCHANGED vars
  <2>1. UNCHANGED <<cfg, phase, at, counters, roundCtx, stepCtx, verdict>>
    BY <1>6 DEF Returned, vars
  <2>2. QED
    BY <2>1, Zenon DEF Typed
<1>7. QED
  BY <1>1, <1>2, <1>3, <1>4, <1>5, <1>6 DEF Next, Run

LEMMA AlwaysTyped == Spec => []Typed
<1>1. Init => Typed
  <2> SUFFICES ASSUME Init PROVE Typed
    OBVIOUS
  <2>1. cfg \in [mode : {"requests", "duration"}, rate : BOOLEAN, warmup : BOOLEAN]
    BY DEF Init
  <2>2. remaining \in Int /\ requests \in Nat /\ cut \in Nat /\ burst \in Nat
    BY LoadAssumption DEF Init
  <2>3. /\ phase \in {"warmup", "measure", "judge", "over"}
        /\ at \in [Workers -> Points]
        /\ token \in BOOLEAN
        /\ roundCtx \in {"live", "done"} /\ stepCtx \in {"live", "done"}
        /\ verdict \in {"none", "canceled", "no samples", "ok"}
    BY DEF Init, Points
  <2>4. QED
    BY <2>1, <2>2, <2>3 DEF Typed
<1>2. QED
  BY <1>1, TypedStep, PTL DEF Spec

-----------------------------------------------------------------------------
\* The counter is never drawn past its end but once by every worker that leaves.
Overdraw == -remaining <= Num({"exit"}) /\ remaining <= Requests

LEMMA OverdrawStep ==
  ASSUME Typed, Overdraw, [Next]_vars
  PROVE  Overdraw'
<1> USE DEF Overdraw, counters
<1>0. /\ Requests \in Nat /\ remaining \in Int /\ Num({"exit"}) \in Nat
      /\ at \in [Workers -> Points]
  BY LoadAssumption, NumIsNat, Zenon DEF Typed
<1>1. ASSUME NEW w \in Workers, Worker(w)
      PROVE  Overdraw'
  <2>1. CASE Count(w) /\ Counting /\ remaining <= 0
    <3>1. Goto(w, "count", "exit") /\ remaining' = remaining - 1
      BY <2>1 DEF Count
    <3>2. Num({"exit"})' = Num({"exit"}) + 1
      BY <1>0, <3>1, WorkerMoves
    <3>3. QED
      BY <1>0, <2>1, <3>1, <3>2
  <2>2. CASE Count(w) /\ Counting /\ ~(remaining <= 0)
    <3>1. Goto(w, "count", "limit") /\ remaining' = remaining - 1
      BY <2>2 DEF Count
    <3>2. Num({"exit"})' = Num({"exit"})
      BY <1>0, <3>1, WorkerMoves
    <3>3. QED
      BY <1>0, <2>2, <3>1, <3>2
  <2>3. CASE ~(Count(w) /\ Counting)
    <3>1. /\ remaining' = remaining
          /\ \E from \in Points \ {"exit"}, to \in Points : Goto(w, from, to)
      BY <1>1, <2>3 DEF Worker, CheckContext, Count, LimiterPasses, LimiterFails, RequestEnds, Points
    <3>2. Num({"exit"})' \in {Num({"exit"}), Num({"exit"}) + 1}
      BY <1>0, <3>1, WorkerMoves
    <3>3. QED
      BY <1>0, <3>1, <3>2
  <2>4. QED
    BY <2>1, <2>2, <2>3
<1>2. CASE WarmupOver
  <2>1. remaining' \in {0, Requests}
    BY <1>2 DEF WarmupOver
  <2>2. Num({"exit"})' = 0
    <3>1. \A w \in Workers : at'[w] = "check"
      BY <1>2 DEF WarmupOver
    <3>2. {w \in Workers : at'[w] \in {"exit"}} = {}
      BY <3>1
    <3>3. QED
      BY <3>2, FS_EmptySet DEF Num
  <2>3. -(remaining') <= 0 /\ remaining' <= Requests
    <3>1. remaining' \in Nat /\ remaining' <= Requests
      BY <1>0, <2>1
    <3>2. \A n \in Nat : -n <= 0
      OBVIOUS
    <3>3. QED
      BY <3>1, <3>2
  <2>4. QED
    BY <2>2, <2>3
<1>3. CASE UNCHANGED <<at, remaining>>
  BY <1>3 DEF Num
<1>4. CASE MeasureOver \/ Judge \/ WindowEnds \/ StepCancelled \/ Tick \/ Returned \/ UNCHANGED vars
  BY <1>3, <1>4 DEF MeasureOver, Judge, WindowEnds, StepCancelled, Tick, Returned, vars
<1>5. QED
  BY <1>1, <1>2, <1>4 DEF Next, Run

\* Every variable keeps its type, and the counter its bounds.
THEOREM TypeCorrect == Spec => []TypeOK
<1>1. Init => Overdraw
  <2> SUFFICES ASSUME Init PROVE Overdraw
    OBVIOUS
  <2>1. remaining \in {0, Requests}
    BY DEF Init
  <2>2. Num({"exit"}) = 0
    BY NumAtStart DEF Init
  <2>3. QED
    BY <2>1, <2>2, LoadAssumption DEF Overdraw
<1>2. Typed /\ Overdraw => TypeOK
  <2> SUFFICES ASSUME Typed, Overdraw PROVE TypeOK
    OBVIOUS
  <2>1. remaining \in Int /\ Num({"exit"}) \in Nat /\ Num({"exit"}) <= Cardinality(Workers)
    BY NumIsNat, Zenon DEF Typed
  <2>2. Cardinality(Workers) \in Nat /\ Requests \in Nat
    BY WorkersFinite, FS_CardinalityType, LoadAssumption
  <2>3. remaining \in -Cardinality(Workers) .. Requests
    BY <2>1, <2>2 DEF Overdraw
  <2>4. QED
    BY <2>3, Zenon DEF Typed, TypeOK, Points
<1>3. QED
  BY <1>1, <1>2, AlwaysTyped, OverdrawStep, PTL DEF Spec

-----------------------------------------------------------------------------
\* Why no request is missing from a success: while the context lives, each of the
\* requests asked for is measured, in some worker's hands, or left in the counter,
\* and a worker leaves only when the counter is drawn past its end.
Busy == {"limit", "request"}
Left == IF remaining > 0 THEN remaining ELSE 0

Conserved ==
  phase = "measure" =>
    /\ requests + Num(Busy) + Left <= Requests
    /\ roundCtx = "live" =>
         /\ requests + Num(Busy) + Left = Requests /\ cut = 0
         /\ \A w \in Workers : at[w] = "exit" => remaining < 0

Judged ==
  /\ phase = "warmup" => requests = 0 /\ cut = 0
  /\ phase # "warmup" => roundCtx = stepCtx
  /\ phase \in {"judge", "over"} => requests <= Requests
  /\ phase = "judge" /\ roundCtx = "live" => requests = Requests /\ cut = 0
  /\ verdict = "ok" => phase = "over" /\ requests = Requests /\ cut = 0

Whole == cfg.mode = "requests" => Conserved /\ Judged

\* The numbers that the sums are made of.
LEMMA Numbers ==
  ASSUME Typed
  PROVE  /\ Requests \in Nat /\ remaining \in Int /\ requests \in Nat /\ cut \in Nat
         /\ Num(Busy) \in Nat /\ Num({"check", "exit"}) \in Nat /\ Left \in Nat
         /\ at \in [Workers -> Points]
<1>1. Requests \in Nat /\ Num(Busy) \in Nat /\ Num({"check", "exit"}) \in Nat
  BY LoadAssumption, NumIsNat
<1>2. remaining \in Int /\ requests \in Nat /\ cut \in Nat /\ at \in [Workers -> Points]
  BY Zenon DEF Typed
<1>3. Left \in Nat
  BY <1>2 DEF Left
<1>4. QED
  BY <1>1, <1>2, <1>3

\* A worker of the measured round conserves the requests.
LEMMA WorkerConserves ==
  ASSUME Typed, Conserved, cfg.mode = "requests", phase = "measure",
         NEW w \in Workers, Worker(w)
  PROVE  Conserved'
<1> USE Numbers DEF Conserved, counters
<1>1. phase' = phase /\ roundCtx' = roundCtx
  BY DEF Worker, CheckContext, Count, LimiterPasses, LimiterFails, RequestEnds
<1>2. Counting
  BY DEF Counting, Measured
<1>3. CASE CheckContext(w)
  <2>1. PICK to \in {"exit", "count"} : Goto(w, "check", to) /\ (roundCtx = "live" => to = "count")
    BY <1>3 DEF CheckContext
  <2>2. Num(Busy)' = Num(Busy)
    BY <2>1, WorkerMoves DEF Busy
  <2>3. UNCHANGED <<requests, remaining, cut, Left>>
    BY <1>3 DEF CheckContext, Left
  <2>4. roundCtx = "live" => \A v \in Workers : at'[v] = "exit" => at[v] = "exit"
    BY <2>1 DEF Goto
  <2>5. QED
    BY <1>1, <2>2, <2>3, <2>4
<1>4. CASE Count(w) /\ remaining <= 0
  <2>1. Goto(w, "count", "exit") /\ remaining' = remaining - 1 /\ UNCHANGED <<requests, cut>>
    BY <1>2, <1>4 DEF Count
  <2>2. Num(Busy)' = Num(Busy)
    BY <2>1, WorkerMoves DEF Busy
  <2>3. Left = 0 /\ Left' = 0 /\ remaining' < 0
    BY <1>4, <2>1 DEF Left
  <2>4. QED
    BY <1>1, <2>1, <2>2, <2>3
<1>5. CASE Count(w) /\ ~(remaining <= 0)
  <2>1. Goto(w, "count", "limit") /\ remaining' = remaining - 1 /\ UNCHANGED <<requests, cut>>
    BY <1>2, <1>5 DEF Count
  <2>2. Num(Busy)' = Num(Busy) + 1
    BY <2>1, WorkerMoves DEF Busy
  <2>3. Left' = Left - 1
    BY <1>5, <2>1 DEF Left
  <2>4. \A v \in Workers : at'[v] = "exit" => at[v] = "exit"
    BY <2>1 DEF Goto
  <2>5. roundCtx = "live" => \A v \in Workers : at'[v] # "exit"
    BY <1>5, <2>4
  <2>6. QED
    BY <1>1, <2>1, <2>2, <2>3, <2>5
<1>6. CASE LimiterPasses(w)
  <2>1. Goto(w, "limit", "request") /\ UNCHANGED <<requests, remaining, cut, Left>>
    BY <1>6 DEF LimiterPasses, Left
  <2>2. Num(Busy)' = Num(Busy)
    BY <2>1, WorkerMoves DEF Busy
  <2>3. \A v \in Workers : at'[v] = "exit" => at[v] = "exit"
    BY <2>1 DEF Goto
  <2>4. QED
    BY <1>1, <2>1, <2>2, <2>3
<1>7. CASE LimiterFails(w)
  <2>1. Goto(w, "limit", "exit") /\ roundCtx = "done" /\ UNCHANGED <<requests, Left>>
    BY <1>7 DEF LimiterFails, Left
  <2>2. Num(Busy)' = Num(Busy) - 1
    BY <2>1, WorkerMoves DEF Busy
  <2>3. QED
    BY <1>1, <2>1, <2>2
<1>8. CASE RequestEnds(w)
  <2>1. Goto(w, "request", "check") /\ requests' = requests + 1 /\ UNCHANGED <<remaining, Left>>
    BY <1>8 DEF RequestEnds, Measured, Left
  <2>2. roundCtx = "live" => cut' = cut
    BY <1>8 DEF RequestEnds
  <2>3. Num(Busy)' = Num(Busy) - 1
    BY <2>1, WorkerMoves DEF Busy
  <2>4. \A v \in Workers : at'[v] = "exit" => at[v] = "exit"
    BY <2>1 DEF Goto
  <2>5. QED
    BY <1>1, <2>1, <2>2, <2>3, <2>4
<1>9. QED
  BY <1>3, <1>4, <1>5, <1>6, <1>7, <1>8 DEF Worker

LEMMA WholeStep ==
  ASSUME Typed, Whole, [Next]_vars
  PROVE  Whole'
<1> USE Numbers DEF Whole, Judged, counters
<1>1. SUFFICES ASSUME cfg.mode = "requests"
               PROVE  Conserved' /\ Judged'
  BY DEF Next, Worker, CheckContext, Count, LimiterPasses, LimiterFails, RequestEnds, Run,
     WarmupOver, MeasureOver, Judge, WindowEnds, StepCancelled, Tick, Returned, vars
<1>2. ASSUME NEW w \in Workers, Worker(w)
      PROVE  Conserved' /\ Judged'
  <2>1. UNCHANGED <<phase, roundCtx, stepCtx, verdict>>
    BY <1>2 DEF Worker, CheckContext, Count, LimiterPasses, LimiterFails, RequestEnds
  <2>2. CASE phase = "measure"
    <3>1. Conserved'
      BY <1>1, <1>2, <2>2, WorkerConserves
    <3>2. QED
      BY <1>1, <2>1, <2>2, <3>1
  <2>3. CASE phase # "measure"
    <3>1. UNCHANGED <<requests, cut>>
      BY <1>2, <2>3 DEF Worker, CheckContext, Count, LimiterPasses, LimiterFails, RequestEnds, Measured
    <3>2. QED
      BY <1>1, <2>1, <2>3, <3>1 DEF Conserved
  <2>4. QED
    BY <2>2, <2>3
<1>3. CASE WarmupOver
  <2>1. /\ phase = "warmup" /\ phase' = "measure" /\ remaining' = Requests
        /\ roundCtx' = stepCtx /\ UNCHANGED <<requests, cut, stepCtx, verdict>>
        /\ \A w \in Workers : at'[w] = "check"
    BY <1>1, <1>3 DEF WarmupOver
  <2>2. Num(Busy)' = 0
    <3>1. {w \in Workers : at'[w] \in Busy} = {}
      BY <2>1 DEF Busy
    <3>2. QED
      BY <3>1, FS_EmptySet DEF Num
  <2>3. Left' = Requests
    BY <2>1 DEF Left
  <2>4. requests = 0 /\ cut = 0
    BY <1>1, <2>1
  <2>5. QED
    BY <1>1, <2>1, <2>2, <2>3, <2>4 DEF Conserved
<1>4. CASE MeasureOver
  <2>1. /\ phase = "measure" /\ phase' = "judge"
        /\ UNCHANGED <<requests, cut, roundCtx, stepCtx, verdict>>
        /\ \A w \in Workers : at[w] = "exit"
    BY <1>4 DEF MeasureOver, Measured, RoundOver
  <2>2. roundCtx = "live" => requests = Requests /\ cut = 0
    <3>1. Num(Busy) = 0
      <4>1. {w \in Workers : at[w] \in Busy} = {}
        BY <2>1 DEF Busy
      <4>2. QED
        BY <4>1, FS_EmptySet DEF Num
    <3>2. 1 \in Workers
      BY LoadAssumption DEF Workers
    <3>3. roundCtx = "live" => Left = 0
      BY <1>1, <2>1, <3>2 DEF Conserved, Left
    <3>4. QED
      BY <1>1, <2>1, <3>1, <3>3 DEF Conserved
  <2>3. requests <= Requests
    BY <1>1, <2>1 DEF Conserved
  <2>4. QED
    BY <1>1, <2>1, <2>2, <2>3 DEF Conserved
<1>5. CASE Judge
  <2>1. /\ phase = "judge" /\ phase' = "over"
        /\ UNCHANGED <<requests, cut, roundCtx, stepCtx>>
        /\ verdict' = "ok" => stepCtx # "done"
    BY <1>5 DEF Judge
  <2>2. roundCtx = "live" \/ stepCtx = "done"
    BY <1>1, <2>1 DEF Typed
  <2>3. QED
    BY <1>1, <2>1, <2>2 DEF Conserved
<1>6. CASE StepCancelled
  <2>1. /\ UNCHANGED <<phase, at, remaining, requests, cut, verdict>>
        /\ roundCtx' = "done" /\ stepCtx' = "done"
    BY <1>6 DEF StepCancelled
  <2>2. Num(Busy)' = Num(Busy) /\ Left' = Left
    BY <2>1 DEF Num, Left
  <2>3. QED
    BY <1>1, <2>1, <2>2 DEF Conserved
<1>7. CASE WindowEnds
  <2>1. phase = "warmup" /\ UNCHANGED <<phase, requests, cut, verdict>>
    BY <1>1, <1>7 DEF WindowEnds
  <2>2. QED
    BY <1>1, <2>1 DEF Conserved
<1>8. CASE Tick \/ Returned \/ UNCHANGED vars
  <2>1. UNCHANGED <<phase, at, remaining, requests, cut, roundCtx, stepCtx, verdict>>
    BY <1>8 DEF Tick, Returned, vars
  <2>2. Num(Busy)' = Num(Busy) /\ Left' = Left
    BY <2>1 DEF Num, Left
  <2>3. QED
    BY <1>1, <2>1, <2>2 DEF Conserved
<1>9. QED
  BY <1>2, <1>3, <1>4, <1>5, <1>6, <1>7, <1>8 DEF Next, Run

\* A run of n requests that succeeds has measured n requests, none cut short, for
\* every n and every number of workers, and never sends more on the way.
THEOREM SuccessIsWhole == Spec => []NoPartialSuccess
<1>1. Init => Whole
  <2> SUFFICES ASSUME Init, cfg.mode = "requests" PROVE Conserved /\ Judged
    BY DEF Whole
  <2>1. requests = 0 /\ cut = 0 /\ verdict = "none" /\ roundCtx = "live" /\ stepCtx = "live"
    BY DEF Init
  <2>2. Num(Busy) = 0
    BY NumAtStart DEF Init, Busy
  <2>3. phase \in {"warmup", "measure"} /\ (phase = "measure" => remaining = Requests)
    BY DEF Init, Counting, Measured
  <2>4. phase = "measure" => Left = Requests
    BY <2>3, LoadAssumption DEF Left
  <2>5. \A w \in Workers : at[w] # "exit"
    BY DEF Init
  <2>6. Conserved
    BY <2>1, <2>2, <2>4, <2>5, LoadAssumption DEF Conserved
  <2>7. Judged
    BY <2>1, <2>3 DEF Judged
  <2>8. QED
    BY <2>6, <2>7
<1>2. Typed /\ Whole => NoPartialSuccess
  <2> SUFFICES ASSUME Typed, Whole, cfg.mode = "requests"
               PROVE  requests <= Requests /\ (verdict = "ok" => requests = Requests /\ cut = 0)
    BY DEF NoPartialSuccess
  <2>1. phase \in {"warmup", "measure", "judge", "over"}
    BY Zenon DEF Typed
  <2>2. QED
    BY <2>1, Numbers DEF Whole, Conserved, Judged
<1>3. QED
  BY <1>1, <1>2, AlwaysTyped, WholeStep, PTL DEF Spec

-----------------------------------------------------------------------------
\* A worker whose request was cut is past its last request: it is at the check of
\* the context, which is done, or has left.
Past == {"check", "exit"}

CutInv ==
  /\ phase = "warmup" \/ roundCtx = "live" => cut = 0
  /\ cut <= Num(Past)

LEMMA CutStep ==
  ASSUME Typed, CutInv, [Next]_vars
  PROVE  CutInv'
<1> USE Numbers DEF CutInv, Past, counters
<1>1. ASSUME NEW w \in Workers, Worker(w)
      PROVE  CutInv'
  <2>1. UNCHANGED <<phase, roundCtx>>
    BY <1>1 DEF Worker, CheckContext, Count, LimiterPasses, LimiterFails, RequestEnds
  <2>2. CASE CheckContext(w)
    <3>1. PICK to \in {"exit", "count"} : Goto(w, "check", to) /\ (to = "count" => roundCtx # "done")
      BY <2>2 DEF CheckContext
    <3>2. cut' = cut /\ (to = "exit" => Num(Past)' = Num(Past))
      BY <2>2, <3>1, WorkerMoves DEF CheckContext
    <3>3. to = "count" => cut = 0
      <4>1. roundCtx \in {"live", "done"}
        BY Zenon DEF Typed
      <4>2. QED
        BY <3>1, <4>1
    <3>4. Num(Past)' \in Nat
      <4>1. Goto(w, "check", to)
        BY <3>1
      <4>2. Num(Past)' = Cardinality({v \in Workers : at'[v] \in Past})
        BY DEF Num
      <4>3. QED
        BY <4>2, WorkersFinite, FS_Subset, FS_CardinalityType
    <3>5. QED
      BY <2>1, <3>1, <3>2, <3>3, <3>4
  <2>3. CASE Count(w) \/ LimiterPasses(w) \/ LimiterFails(w)
    <3>1. cut' = cut /\ \E from \in Points \ Past, to \in Points : Goto(w, from, to)
      BY <2>3 DEF Count, LimiterPasses, LimiterFails, Points
    <3>2. Num(Past)' \in {Num(Past), Num(Past) + 1}
      BY <3>1, WorkerMoves
    <3>3. QED
      BY <2>1, <3>1, <3>2
  <2>4. CASE RequestEnds(w)
    <3>1. Num(Past)' = Num(Past) + 1
      BY <2>4, WorkerMoves DEF RequestEnds
    <3>2. cut' \in {cut, cut + 1}
      BY <2>4 DEF RequestEnds
    <3>3. phase = "warmup" \/ roundCtx = "live" => cut' = cut
      BY <2>4 DEF RequestEnds, Measured
    <3>4. QED
      BY <2>1, <3>1, <3>2, <3>3
  <2>5. QED
    BY <1>1, <2>2, <2>3, <2>4 DEF Worker
<1>2. CASE WarmupOver
  <2>1. phase = "warmup" /\ cut' = cut /\ \A w \in Workers : at'[w] = "check"
    BY <1>2 DEF WarmupOver
  <2>2. Num(Past)' \in Nat
    <3>1. Num(Past)' = Cardinality({v \in Workers : at'[v] \in Past})
      BY DEF Num
    <3>2. QED
      BY <3>1, WorkersFinite, FS_Subset, FS_CardinalityType
  <2>3. QED
    BY <2>1, <2>2
<1>3. CASE MeasureOver \/ Judge \/ WindowEnds \/ StepCancelled \/ Tick \/ Returned \/ UNCHANGED vars
  <2>1. UNCHANGED <<at, cut>>
    BY <1>3 DEF MeasureOver, Judge, WindowEnds, StepCancelled, Tick, Returned, vars
  <2>2. phase' # "warmup" \/ phase = "warmup"
    BY <1>3 DEF MeasureOver, Judge, WindowEnds, StepCancelled, Tick, Returned, vars
  <2>3. roundCtx' = "live" => roundCtx = "live"
    BY <1>3 DEF MeasureOver, Judge, WindowEnds, StepCancelled, Tick, Returned, vars
  <2>4. Num(Past)' = Num(Past)
    BY <2>1 DEF Num
  <2>5. QED
    BY <2>1, <2>2, <2>3, <2>4
<1>4. QED
  BY <1>1, <1>2, <1>3 DEF Next, Run

\* The end of a window, or of the step, costs every worker one sample at most.
THEOREM LateSamplesAreFew == Spec => []CutIsBounded
<1>1. Init => CutInv
  <2> SUFFICES ASSUME Init PROVE CutInv
    OBVIOUS
  <2>1. cut = 0
    BY DEF Init
  <2>2. QED
    BY <2>1, NumIsNat DEF CutInv
<1>2. Typed /\ CutInv => CutIsBounded
  <2> SUFFICES ASSUME Typed, CutInv PROVE CutIsBounded
    OBVIOUS
  <2>1. Cardinality(Workers) \in Nat
    BY WorkersFinite, FS_CardinalityType
  <2>2. QED
    BY <2>1, NumIsNat, Numbers DEF CutInv, CutIsBounded
<1>3. QED
  BY <1>1, <1>2, AlwaysTyped, CutStep, PTL DEF Spec

\* A tick in the channel is one that no request has been begun on.
RateInv == cfg.rate => burst <= 1 /\ (token => burst = 0)

LEMMA RateStep ==
  ASSUME Typed, RateInv, [Next]_vars
  PROVE  RateInv'
<1> USE DEF RateInv, counters
<1>1. burst \in Nat
  BY Zenon DEF Typed
<1>2. ASSUME NEW w \in Workers, LimiterPasses(w), cfg.rate
      PROVE  burst' <= 1 /\ ~token'
  <2>1. burst = 0 /\ burst' = burst + 1 /\ token' = FALSE
    BY <1>2 DEF LimiterPasses
  <2>2. QED
    BY <2>1
<1>3. cfg' = cfg
  BY DEF Next, Worker, CheckContext, Count, LimiterPasses, LimiterFails, RequestEnds, Run,
     WarmupOver, MeasureOver, Judge, WindowEnds, StepCancelled, Tick, Returned, vars
<1>4. CASE Tick
  BY <1>4 DEF Tick
<1>5. CASE UNCHANGED <<token, burst>>
  BY <1>3, <1>5
<1>6. ASSUME ~Tick, \A w \in Workers : ~LimiterPasses(w)
      PROVE  UNCHANGED <<token, burst>>
  BY <1>6 DEF Next, Worker, CheckContext, Count, LimiterFails, RequestEnds, Run,
     WarmupOver, MeasureOver, Judge, WindowEnds, StepCancelled, Returned, vars
<1>7. QED
  BY <1>2, <1>3, <1>4, <1>5, <1>6

\* Between two ticks one request is begun at most, by any of any number of workers.
THEOREM OneRequestPerTick == Spec => []RateIsGlobal
<1>1. Init => RateInv
  BY DEF Init, RateInv
<1>2. RateInv => RateIsGlobal
  BY DEF RateInv, RateIsGlobal
<1>3. QED
  BY <1>1, <1>2, AlwaysTyped, RateStep, PTL DEF Spec
=================================================================================
