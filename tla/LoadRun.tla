-------------------------------- MODULE LoadRun ---------------------------------
(***************************************************************************)
(* One run of the load provider: a warm-up round and a measured round of   *)
(* workers over one counter, one rate limiter and one result, while the    *)
(* window of a round or the context of the step may end at any moment.     *)
(* Latencies, sizes and status classes are left out of a sample; what is   *)
(* kept is whether the context cut its request short.                      *)
(***************************************************************************)
EXTENDS Integers, FiniteSets

CONSTANTS
  Concurrency, \* run.concurrency; runWorkers takes 1 for less
  Requests,    \* run.requests, in requests mode
  MaxSamples   \* bound: requests begun in a measured window (duration mode)

ASSUME LoadAssumption ==
  /\ Concurrency \in Int
  /\ Requests \in Nat \ {0}  \* evaluateLoadExecution refuses the rest
  /\ MaxSamples \in Nat

Workers == 1 .. (IF Concurrency <= 0 THEN 1 ELSE Concurrency)

VARIABLES
  cfg,       \* runConfig: the mode, whether a rate and a warm-up are set
  phase,     \* "warmup", "measure", "judge" or "over"
  at,        \* worker -> where it is in its loop
  remaining, \* the requests left, in requests mode
  token,     \* the ticker's channel holds a tick
  burst,     \* requests begun since the last tick (history)
  requests,  \* result.requests
  cut,       \* those of them that the end of a context cut short (history)
  roundCtx,  \* the context of the round: "live" or "done"
  stepCtx,   \* its parent, the context of the step
  verdict    \* what Execute returns

counters == <<remaining, token, burst, requests, cut>>
vars == <<cfg, phase, at, counters, roundCtx, stepCtx, verdict>>

Measured == phase = "measure"
Counting == Measured /\ cfg.mode = "requests"

Init ==
  /\ cfg \in [mode : {"requests", "duration"}, rate : BOOLEAN, warmup : BOOLEAN]
  /\ phase = IF cfg.warmup THEN "warmup" ELSE "measure"
  /\ at = [w \in Workers |-> "check"]
  /\ remaining = IF Counting THEN Requests ELSE 0
  /\ token = FALSE /\ burst = 0
  /\ requests = 0 /\ cut = 0
  /\ roundCtx = "live" /\ stepCtx = "live"
  /\ verdict = "none"

Goto(w, from, to) == at[w] = from /\ at' = [at EXCEPT ![w] = to]

-----------------------------------------------------------------------------
(* The loop of a worker.                                                   *)

\* Mutant: the loop does not look at the context.
CheckNothing(w) ==
  /\ Goto(w, "check", "count")
  /\ UNCHANGED <<cfg, phase, counters, roundCtx, stepCtx, verdict>>

CheckContext(w) ==
  /\ Goto(w, "check", IF roundCtx = "done" THEN "exit" ELSE "count")
  /\ UNCHANGED <<cfg, phase, counters, roundCtx, stepCtx, verdict>>

\* Mutant: a worker that finds nothing left looks again.
CountAgain(w) ==
  /\ Goto(w, "count", IF Counting /\ remaining <= 0 THEN "check" ELSE "limit")
  /\ remaining' = IF Counting THEN remaining - 1 ELSE remaining
  /\ UNCHANGED <<cfg, phase, token, burst, requests, cut, roundCtx, stepCtx, verdict>>

\* atomic.AddInt64(&remaining, -1) < 0
Count(w) ==
  /\ Goto(w, "count", IF Counting /\ remaining <= 0 THEN "exit" ELSE "limit")
  /\ remaining' = IF Counting THEN remaining - 1 ELSE remaining
  /\ UNCHANGED <<cfg, phase, token, burst, requests, cut, roundCtx, stepCtx, verdict>>

\* The bound on the requests of a measured window.
Bounded == Measured /\ cfg.mode = "duration" /\ roundCtx = "live" =>
  requests + Cardinality({w \in Workers : at[w] = "request"}) < MaxSamples

\* Mutant: the tick is left in the channel.
LimiterLeavesToken(w) ==
  /\ Goto(w, "limit", "request")
  /\ Bounded
  /\ cfg.rate => token
  /\ burst' = IF cfg.rate THEN burst + 1 ELSE burst
  /\ UNCHANGED <<cfg, phase, remaining, token, requests, cut, roundCtx, stepCtx, verdict>>

\* rateLimiter.wait takes a tick, or nothing when there is no limiter.
LimiterPasses(w) ==
  /\ Goto(w, "limit", "request")
  /\ Bounded
  /\ cfg.rate => token
  /\ token' = FALSE
  /\ burst' = IF cfg.rate THEN burst + 1 ELSE burst
  /\ UNCHANGED <<cfg, phase, remaining, requests, cut, roundCtx, stepCtx, verdict>>

\* The context ends the wait; the request counted for it is never sent.
LimiterFails(w) ==
  /\ Goto(w, "limit", "exit")
  /\ cfg.rate /\ roundCtx = "done"
  /\ UNCHANGED <<cfg, phase, counters, roundCtx, stepCtx, verdict>>

\* doOne answered, failed or timed out, and recordSample under the lock; a request
\* under way when its context ends fails with it, unless its answer is first.
RequestEnds(w) ==
  /\ Goto(w, "request", "check")
  /\ requests' = IF Measured THEN requests + 1 ELSE requests
  /\ cut' \in IF Measured /\ roundCtx = "done" THEN {cut, cut + 1} ELSE {cut}
  /\ UNCHANGED <<cfg, phase, remaining, token, burst, roundCtx, stepCtx, verdict>>

Worker(w) ==
  \/ CheckContext(w) \/ Count(w) \/ LimiterPasses(w) \/ LimiterFails(w) \/ RequestEnds(w)

-----------------------------------------------------------------------------
(* executeRun and Execute.                                                 *)

RoundOver == \A w \in Workers : at[w] = "exit"

\* wg.Wait returns: the measured round gets a context and a counter of its own.
WarmupOver ==
  /\ phase = "warmup" /\ RoundOver
  /\ phase' = "measure"
  /\ at' = [w \in Workers |-> "check"]
  /\ remaining' = IF cfg.mode = "requests" THEN Requests ELSE 0
  /\ roundCtx' = stepCtx
  /\ UNCHANGED <<cfg, token, burst, requests, cut, stepCtx, verdict>>

MeasureOver ==
  /\ Measured /\ RoundOver
  /\ phase' = "judge"
  /\ UNCHANGED <<cfg, at, counters, roundCtx, stepCtx, verdict>>

\* Mutant: whatever was measured is a result.
JudgeSamples ==
  /\ phase = "judge"
  /\ phase' = "over"
  /\ verdict' = IF requests = 0 THEN "no samples" ELSE "ok"
  /\ UNCHANGED <<cfg, at, counters, roundCtx, stepCtx>>

\* "If the *parent* ctx was canceled ... surface it as an error"; errNoSamples.
Judge ==
  /\ phase = "judge"
  /\ phase' = "over"
  /\ verdict' = IF stepCtx = "done" THEN "canceled"
                ELSE IF requests = 0 THEN "no samples" ELSE "ok"
  /\ UNCHANGED <<cfg, at, counters, roundCtx, stepCtx>>

\* Mutant: only the measured window has a timeout.
MeasureWindowEnds ==
  /\ Measured /\ cfg.mode = "duration"
  /\ roundCtx = "live" /\ roundCtx' = "done"
  /\ UNCHANGED <<cfg, phase, at, counters, stepCtx, verdict>>

\* context.WithTimeout of run.warmup or run.duration.
WindowEnds ==
  /\ phase = "warmup" \/ (Measured /\ cfg.mode = "duration")
  /\ roundCtx = "live" /\ roundCtx' = "done"
  /\ UNCHANGED <<cfg, phase, at, counters, stepCtx, verdict>>

\* --timeout, or Ctrl-C.
StepCancelled ==
  /\ stepCtx = "live" /\ stepCtx' = "done"
  /\ roundCtx' = "done"
  /\ UNCHANGED <<cfg, phase, at, counters, verdict>>

\* time.Ticker: a tick is dropped when the last one was not taken.
Tick ==
  /\ cfg.rate /\ phase \in {"warmup", "measure"}
  /\ token' = TRUE /\ burst' = 0
  /\ UNCHANGED <<cfg, phase, at, remaining, requests, cut, roundCtx, stepCtx, verdict>>

Returned == phase = "over" /\ UNCHANGED vars

Run == WarmupOver \/ MeasureOver \/ Judge

Next ==
  \/ \E w \in Workers : Worker(w)
  \/ Run \/ WindowEnds \/ StepCancelled \/ Tick \/ Returned

Spec == Init /\ [][Next]_vars

\* Goroutines run on, a request ends (it has an answer, a timeout or its context),
\* windows end, and the ticker ticks. Nobody need cancel the step.
FairSpec ==
  /\ Spec
  /\ \A w \in Workers : WF_vars(Worker(w))
  /\ WF_vars(Run) /\ WF_vars(WindowEnds) /\ WF_vars(Tick)

-----------------------------------------------------------------------------

TypeOK ==
  /\ cfg \in [mode : {"requests", "duration"}, rate : BOOLEAN, warmup : BOOLEAN]
  /\ phase \in {"warmup", "measure", "judge", "over"}
  /\ at \in [Workers -> {"check", "count", "limit", "request", "exit"}]
  /\ remaining \in -Cardinality(Workers) .. Requests  \* a worker overdraws once
  /\ requests \in Nat /\ cut \in Nat /\ burst \in Nat
  /\ token \in BOOLEAN
  /\ roundCtx \in {"live", "done"} /\ stepCtx \in {"live", "done"}
  /\ verdict \in {"none", "canceled", "no samples", "ok"}

\* "... instead of reporting a 'successful' run with partial data" (runner.go): in
\* requests mode a run that succeeds has measured the requests asked for, neither
\* fewer nor more, and cut none of them short; on the way it never sends more.
NoPartialSuccess ==
  cfg.mode = "requests" =>
    /\ requests <= Requests
    /\ verdict = "ok" => requests = Requests /\ cut = 0

\* The end of a window costs every worker one sample at most: it is the request
\* under way that fails, and none is begun after it but by a worker past its check.
CutIsBounded == cut <= Cardinality(Workers)

\* "Global RPS cap": between two ticks one request is begun at most, by whichever
\* worker, in the warm-up or after it.
RateIsGlobal == cfg.rate => burst <= 1

\* A run ends, whoever is left in the limiter when the counter or the window is
\* exhausted.
RunEnds == <>(phase = "over")
=================================================================================
