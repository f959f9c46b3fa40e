----------------------------- MODULE WebhookReceiver ----------------------------
(***************************************************************************)
(* The webhook provider: receivers that the steps of the scenarios start,  *)
(* wait on and stop, the HTTP handlers that record into them, and Close at *)
(* the end of the run. What changes nothing is left out: a start of an id  *)
(* that is registered or whose address is taken, a stop or wait of an id   *)
(* that is not registered, a request of another path.                      *)
(***************************************************************************)
EXTENDS Integers, Functions

CONSTANTS
  Scenarios,
  Ids,          \* the receiver ids: a hash of the scenario, the step and its file
  NoId,
  Owner,        \* id -> the scenario whose steps derive it
  Counts,       \* the counts that wait steps ask for
  MaxReceivers, \* bound: receivers bound in the run
  MaxRequests   \* bound: requests that reach a receiver

ASSUME WebhookAssumption ==
  /\ NoId \notin Ids
  /\ Owner \in [Ids -> Scenarios]
  /\ Counts \subseteq Nat \ {0}
  /\ MaxReceivers \in Nat /\ MaxRequests \in Nat

Receivers == 1 .. MaxReceivers
None == 0
Points == {"idle", "register", "check", "select", "stop", "shutdown", "drain", "done"}

VARIABLES
  at,         \* scenario -> where its webhook step is
  rc,         \* scenario -> the receiver its step holds
  want,       \* scenario -> the count it waits for
  receivers,  \* Provider.receivers
  bound,      \* receivers created so far
  idOf,       \* receiver -> its id
  server,     \* receiver -> "none", "open", "closed" (the flag), "shut" (Shutdown called)
  reading,    \* receiver -> handlers that read a request
  requests,   \* receiver -> requests recorded
  notifying,  \* receiver -> handlers that have recorded and not signalled
  signal,     \* receiver -> whether its one-slot channel is full
  provider    \* "open", "closing" or "closed"

stepVars    == <<at, rc, want>>
serverVars  == <<receivers, bound, idOf, server>>
handlerVars == <<reading, requests, notifying, signal>>
vars == <<stepVars, serverVars, handlerVars, provider>>

Init ==
  /\ at = [s \in Scenarios |-> "idle"]
  /\ rc = [s \in Scenarios |-> None]
  /\ want = [s \in Scenarios |-> 0]
  /\ receivers = [i \in Ids |-> None]
  /\ bound = 0
  /\ idOf = [r \in Receivers |-> NoId]
  /\ server = [r \in Receivers |-> "none"]
  /\ reading = [r \in Receivers |-> 0]
  /\ requests = [r \in Receivers |-> 0]
  /\ notifying = [r \in Receivers |-> 0]
  /\ signal = [r \in Receivers |-> FALSE]
  /\ provider = "open"

Goto(s, from, to) == at[s] = from /\ at' = [at EXCEPT ![s] = to]

\* The step returns, and its locals are gone.
Return(s, from) ==
  /\ Goto(s, from, "idle")
  /\ rc' = [rc EXCEPT ![s] = None]
  /\ want' = [want EXCEPT ![s] = 0]

-----------------------------------------------------------------------------
(* The steps of a scenario.                                                *)

\* start: the id is not registered, an address is bound and served.
Start(s) ==
  /\ Goto(s, "idle", "register")
  /\ bound < MaxReceivers
  /\ \E i \in Ids : /\ Owner[i] = s /\ receivers[i] = None
                    /\ idOf' = [idOf EXCEPT ![bound + 1] = i]
  /\ bound' = bound + 1
  /\ rc' = [rc EXCEPT ![s] = bound + 1]
  /\ server' = [server EXCEPT ![bound + 1] = "open"]
  /\ UNCHANGED <<want, receivers, handlerVars, provider>>

\* Mutant: the receiver is served and never entered in the map.
RegisterNot(s) ==
  /\ Return(s, "register")
  /\ UNCHANGED <<serverVars, handlerVars, provider>>

\* start, second lookup: the receiver is registered, or shut down when another
\* is. (The id belongs to this scenario, so none is.)
Register(s) ==
  /\ at[s] = "register"
  /\ LET i == idOf[rc[s]] IN
     IF receivers[i] = None
     THEN Return(s, "register") /\ receivers' = [receivers EXCEPT ![i] = rc[s]]
     ELSE Goto(s, "register", "stop") /\ UNCHANGED <<rc, want, receivers>>
  /\ UNCHANGED <<bound, idOf, server, handlerVars, provider>>

\* wait: the receiver is looked up and no lock is held from here on.
Wait(s) ==
  /\ Goto(s, "idle", "check")
  /\ \E i \in Ids : /\ Owner[i] = s /\ receivers[i] # None
                    /\ rc' = [rc EXCEPT ![s] = receivers[i]]
  /\ \E n \in Counts : want' = [want EXCEPT ![s] = n]
  /\ UNCHANGED <<serverVars, handlerVars, provider>>

\* waitFor, the count under the lock: enough, and the step goes on with a snapshot.
Check(s) ==
  /\ at[s] = "check"
  /\ IF requests[rc[s]] >= want[s] THEN Return(s, "check")
     ELSE Goto(s, "check", "select") /\ UNCHANGED <<rc, want>>
  /\ UNCHANGED <<serverVars, handlerVars, provider>>

\* Mutant: a signal leads back to the select, without a look at the count.
WokenOnce(s) ==
  /\ at[s] = "select" /\ signal[rc[s]]
  /\ signal' = [signal EXCEPT ![rc[s]] = FALSE]
  /\ UNCHANGED <<stepVars, serverVars, reading, requests, notifying, provider>>

Woken(s) ==
  /\ Goto(s, "select", "check")
  /\ signal[rc[s]]
  /\ signal' = [signal EXCEPT ![rc[s]] = FALSE]
  /\ UNCHANGED <<rc, want, serverVars, reading, requests, notifying, provider>>

\* The timer, or the context of the step; either may win against the signal.
GivesUp(s) ==
  /\ Return(s, "select")
  /\ UNCHANGED <<serverVars, handlerVars, provider>>

\* stop: the receiver is removed, then shut down outside the lock.
Stop(s) ==
  /\ Goto(s, "idle", "stop")
  /\ \E i \in Ids : /\ Owner[i] = s /\ receivers[i] # None
                    /\ rc' = [rc EXCEPT ![s] = receivers[i]]
                    /\ receivers' = [receivers EXCEPT ![i] = None]
  /\ UNCHANGED <<want, bound, idOf, server, handlerVars, provider>>

\* receiver.shutdown: the flag under the lock, then Server.Shutdown.
Flag(r) == server[r] = "open" /\ server' = [server EXCEPT ![r] = "closed"]
Shut(r) == server[r] = "closed" /\ server' = [server EXCEPT ![r] = "shut"]

StopFlags(s) ==
  /\ Goto(s, "stop", "shutdown")
  /\ Flag(rc[s])
  /\ UNCHANGED <<rc, want, receivers, bound, idOf, handlerVars, provider>>

StopShuts(s) ==
  /\ Goto(s, "shutdown", "drain")
  /\ Shut(rc[s])
  /\ UNCHANGED <<rc, want, receivers, bound, idOf, handlerVars, provider>>

\* Shutdown returns when the handlers have drained, or after localShutdownTimeout.
Drained(s) ==
  /\ Return(s, "drain")
  /\ UNCHANGED <<serverVars, handlerVars, provider>>

ScenarioEnds(s) ==
  /\ Goto(s, "idle", "done")
  /\ UNCHANGED <<rc, want, serverVars, handlerVars, provider>>

-----------------------------------------------------------------------------
(* receiver.handle, one goroutine per request.                             *)

\* A connection is accepted until Shutdown closes the listener.
Request(r) ==
  /\ server[r] \in {"open", "closed"}
  /\ reading[r] + requests[r] < MaxRequests
  /\ reading' = [reading EXCEPT ![r] = @ + 1]
  /\ UNCHANGED <<stepVars, serverVars, requests, notifying, signal, provider>>

\* Mutant: a rejected request is answered twice.
RejectTwice(r) ==
  /\ reading[r] > 0
  /\ reading' = [reading EXCEPT ![r] = @ - 2]
  /\ UNCHANGED <<stepVars, serverVars, requests, notifying, signal, provider>>

\* The body is too large or cannot be read: answered 413 or 400, not recorded.
Reject(r) ==
  /\ reading[r] > 0
  /\ reading' = [reading EXCEPT ![r] = @ - 1]
  /\ UNCHANGED <<stepVars, serverVars, requests, notifying, signal, provider>>

\* Mutant: only the first request of a receiver is signalled.
RecordQuietly(r) ==
  /\ reading[r] > 0
  /\ reading' = [reading EXCEPT ![r] = @ - 1]
  /\ requests' = [requests EXCEPT ![r] = @ + 1]
  /\ notifying' = [notifying EXCEPT ![r] = IF requests[r] = 0 THEN @ + 1 ELSE @]
  /\ UNCHANGED <<stepVars, serverVars, signal, provider>>

Record(r) ==
  /\ reading[r] > 0
  /\ reading' = [reading EXCEPT ![r] = @ - 1]
  /\ requests' = [requests EXCEPT ![r] = @ + 1]
  /\ notifying' = [notifying EXCEPT ![r] = @ + 1]
  /\ UNCHANGED <<stepVars, serverVars, signal, provider>>

\* The non-blocking send: a full slot is left full.
Signal(r) ==
  /\ notifying[r] > 0
  /\ notifying' = [notifying EXCEPT ![r] = @ - 1]
  /\ signal' = [signal EXCEPT ![r] = TRUE]
  /\ UNCHANGED <<stepVars, serverVars, reading, requests, provider>>

-----------------------------------------------------------------------------
(* Provider.Close, after the last scenario.                                *)

\* The map is swapped for an empty one; `server` still tells which it held.
Close ==
  /\ provider = "open"
  /\ \A s \in Scenarios : at[s] = "done"
  /\ provider' = "closing"
  /\ UNCHANGED <<stepVars, serverVars, handlerVars>>

\* The receivers that the map held are shut down, one after the other.
CloseReceiver(i) ==
  /\ provider = "closing"
  /\ receivers[i] # None
  /\ \/ Flag(receivers[i]) /\ UNCHANGED receivers
     \/ Shut(receivers[i]) /\ receivers' = [receivers EXCEPT ![i] = None]
  /\ UNCHANGED <<stepVars, bound, idOf, handlerVars, provider>>

CloseReturns ==
  /\ provider = "closing"
  /\ \A i \in Ids : receivers[i] = None
  /\ provider' = "closed"
  /\ UNCHANGED <<stepVars, serverVars, handlerVars>>

Closed == provider = "closed" /\ UNCHANGED vars

StepOf(s) ==
  \/ Start(s) \/ Register(s) \/ Wait(s) \/ Check(s) \/ Woken(s) \/ GivesUp(s)
  \/ Stop(s) \/ StopFlags(s) \/ StopShuts(s) \/ Drained(s) \/ ScenarioEnds(s)

Handler(r) == Request(r) \/ Reject(r) \/ Record(r) \/ Signal(r)

Closing == Close \/ CloseReturns \/ \E i \in Ids : CloseReceiver(i)

Next ==
  \/ \E s \in Scenarios : StepOf(s)
  \/ \E r \in Receivers : Handler(r)
  \/ Closing \/ Closed

Spec == Init /\ [][Next]_vars

\* Goroutines run on. Nothing is assumed of the timer of a wait or of the context
\* of its step: they may never fire.
FairSpec ==
  /\ Spec
  /\ \A s \in Scenarios : WF_vars(Woken(s)) /\ WF_vars(Check(s))
  /\ \A r \in Receivers : WF_vars(Signal(r))

-----------------------------------------------------------------------------

TypeOK ==
  /\ at \in [Scenarios -> Points]
  /\ rc \in [Scenarios -> Receivers \cup {None}]
  /\ want \in [Scenarios -> Nat]
  /\ receivers \in [Ids -> Receivers \cup {None}]
  /\ bound \in 0 .. MaxReceivers
  /\ idOf \in [Receivers -> Ids \cup {NoId}]
  /\ server \in [Receivers -> {"none", "open", "closed", "shut"}]
  /\ reading \in [Receivers -> Nat]
  /\ requests \in [Receivers -> Nat]
  /\ notifying \in [Receivers -> Nat]
  /\ signal \in [Receivers -> BOOLEAN]
  /\ provider \in {"open", "closing", "closed"}

\* "The waiter re-reads the count under the lock" (server.go): a waiter that blocks
\* in its select with enough requests recorded has a signal waiting for it, or a
\* handler that is about to send one, whatever signals it has consumed before.
NoLostWakeup ==
  \A s \in Scenarios :
    at[s] = "select" /\ requests[rc[s]] >= want[s]
      => signal[rc[s]] \/ notifying[rc[s]] > 0

\* ... so it wakes without the help of its timer.
WokenByRequests ==
  \A s \in Scenarios :
    at[s] = "select" /\ requests[rc[s]] >= want[s] ~> at[s] # "select"

\* Somebody will shut every server: the map that Close empties, or the step that
\* took it out of the map or has not put it in yet. After Close none listens ("the
\* provider stops all remaining receivers on close").
NoReceiverOrphaned ==
  \A r \in Receivers : server[r] \in {"open", "closed"} =>
    /\ \/ r \in Range(receivers)
       \/ \E s \in Scenarios : rc[s] = r /\ at[s] \in {"register", "stop", "shutdown"}
    /\ provider # "closed"
=================================================================================
