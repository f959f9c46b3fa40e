---------------------------- MODULE PageRecorder ----------------------------
(***************************************************************************)
(* The recorder of one browsing context: what the page's network did since *)
(* the current step started.  chromedp's event loop feeds it at any time;  *)
(* each step of the scenario starts it again, with requests of the step    *)
(* before still in flight.  The console has the same ring and no requests  *)
(* to remember.                                                            *)
(***************************************************************************)
EXTENDS RecorderBounds, Sequences, FiniteSets

CONSTANTS Requests,   \* the request ids of the page, each for one request
          MaxEvents,  \* bound on the events of the page
          MaxStarts   \* bound on the steps

VARIABLES
    starts,   \* steps that have started the recorder
    items,    \* the ring's items, in the order of the array
    first,    \* index of the oldest item, counted from 0
    dropped,  \* items lost since Start
    pending,  \* URLs of the requests remembered, by id
    hop,      \* (page) the URL each request in flight is fetching
    finished, \* (page) the requests that ended
    feed,     \* (history) what the page did since Start
    crowded   \* (history) a request could not be remembered for a good reason

vars == <<starts, items, first, dropped, pending, hop, finished, feed, crowded>>

InFlight == DOMAIN hop
\* The URLs of a request, before and after a redirect.
First == "first"
Second == "second"
Blank == "blank"
Network(type, q, url) == [type |-> type, id |-> q, url |-> url]

Init ==
    /\ starts = 0 /\ items = <<>> /\ first = 0 /\ dropped = 0
    /\ pending = <<>> /\ hop = <<>> /\ finished = {} /\ feed = <<>> /\ crowded = FALSE
-----------------------------------------------------------------------------
(* The ring.                                                               *)

\* Items pushed one after the other.
PushTo(ring, v) ==
    IF Len(ring.items) < Limit
    THEN [items   |-> Append(ring.items, v),
          first   |-> ring.first,
          dropped |-> ring.dropped]
    ELSE [items   |-> [ring.items EXCEPT ![ring.first + 1] = v],
          first   |-> (ring.first + 1) % Limit,
          dropped |-> ring.dropped + 1]

PushAll(entries) ==
    LET ring0 == [items |-> items, first |-> first, dropped |-> dropped]
        ring  == IF Len(entries) = 1 THEN PushTo(ring0, entries[1])
                 ELSE PushTo(PushTo(ring0, entries[1]), entries[2])
    IN /\ items' = ring.items /\ first' = ring.first
       /\ dropped' = ring.dropped

Snapshot == SubSeq(items, first + 1, Len(items)) \o SubSeq(items, 1, first)

\* Recorder.Start: the requests in flight are still remembered.  Those sent
\* before the first Start never were.
Start ==
    /\ starts < MaxStarts /\ starts' = starts + 1
    /\ items' = <<>> /\ first' = 0 /\ dropped' = 0 /\ feed' = <<>>
    /\ UNCHANGED <<pending, hop, finished, crowded>>
-----------------------------------------------------------------------------
(* The page's events.  None is kept before the first Start.                *)

Started == starts > 0

Record(entries, truth) ==
    IF Started THEN PushAll(entries) /\ feed' = feed \o truth
               ELSE UNCHANGED <<items, first, dropped, feed>>

\* Mutant: a full table refuses every request, the redirects of those in it too.
RememberUnlessFull(q, url) ==
    IF Cardinality(DOMAIN pending) >= MaxPending THEN pending
    ELSE [r \in DOMAIN pending \cup {q} |-> IF r = q THEN url ELSE pending[r]]

\* Recorder.remember: a known id is a redirect, and is always let in.
Remember(q, url) ==
    IF q \notin DOMAIN pending /\ Cardinality(DOMAIN pending) >= MaxPending
    THEN pending
    ELSE [r \in DOMAIN pending \cup {q} |-> IF r = q THEN url ELSE pending[r]]

\* EventRequestWillBeSent, for a new request.
SendRequest(q) ==
    /\ q \notin InFlight \cup finished
    /\ hop' = [r \in InFlight \cup {q} |-> IF r = q THEN First ELSE hop[r]]
    /\ pending' = IF Started THEN Remember(q, First) ELSE pending
    /\ LET e == Network("request", q, First) IN Record(<<e>>, <<e>>)
    /\ crowded' = (crowded \/ ~Started \/ Cardinality(InFlight) >= MaxPending)
    /\ UNCHANGED <<starts, finished>>

\* EventRequestWillBeSent again, for the same id: the response that redirects
\* (it carries its URL) comes before the new request.
Redirect(q) ==
    /\ q \in InFlight /\ hop[q] = First
    /\ hop' = [hop EXCEPT ![q] = Second]
    /\ pending' = IF Started THEN Remember(q, Second) ELSE pending
    /\ LET es == <<Network("response", q, First), Network("request", q, Second)>>
       IN Record(es, es)
    /\ UNCHANGED <<starts, finished, crowded>>

\* EventLoadingFinished and EventLoadingFailed name their request by its id
\* only: Recorder.complete fills in the rest and forgets the request.
Finish(q) ==
    /\ q \in InFlight
    /\ hop' = [r \in InFlight \ {q} |-> hop[r]] /\ finished' = finished \cup {q}
    /\ pending' = IF Started THEN [r \in DOMAIN pending \ {q} |-> pending[r]]
                             ELSE pending
    /\ Record(<<Network("finished", q, IF q \in DOMAIN pending THEN pending[q]
                                                               ELSE Blank)>>,
              <<Network("finished", q, hop[q])>>)
    /\ UNCHANGED <<starts, crowded>>

Event == \E q \in Requests : SendRequest(q) \/ Redirect(q) \/ Finish(q)

Quiet == starts = MaxStarts /\ UNCHANGED vars
Next == Start \/ (Len(feed) < MaxEvents /\ Event) \/ Quiet
Spec == Init /\ [][Next]_vars
-----------------------------------------------------------------------------

\* The ring holds entries and its index stays within it.
TypeOK ==
    /\ starts \in 0..MaxStarts /\ Len(items) <= Limit
    /\ first \in 0..(Limit - 1) /\ dropped \in Nat
    /\ \A q \in DOMAIN pending : q \in InFlight /\ pending[q] \in {First, Second}

\* What a failing step writes (Recorder.Snapshot) is what the page did last
\* since that step started, oldest first, with the rest counted as dropped;
\* and an event that arrives long after its request, in a later step or after
\* a redirect, names the URL that was being fetched.  The URL is missing only
\* when too many requests were in flight or the request was never seen, and
\* never another one's.
EvidenceIsRecent ==
    LET n == Len(Snapshot)
        lost == Len(feed) - n
    IN Started =>
       /\ n = (IF Len(feed) < Limit THEN Len(feed) ELSE Limit)
       /\ dropped = lost
       /\ \A j \in 1..n :
             LET said == Snapshot[j]
                 true == feed[lost + j]
             IN /\ said.type = true.type /\ said.id = true.id
                /\ said.url = true.url \/ (crowded /\ said.url = Blank)
=============================================================================
