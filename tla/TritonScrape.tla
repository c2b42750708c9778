---------------------------- MODULE TritonScrape ----------------------------
(***************************************************************************)
(* The Triton metric path: getTritonClient and getTritonMetricValue        *)
(* (pkg/scaler/server.go) over Client.Scrape (pkg/triton/client.go).       *)
(*                                                                         *)
(* Triton's counters are cumulative, so the client keeps the previous      *)
(* sample and reports differences.  A scrape is an HTTP round trip, which  *)
(* runs outside the client's mutex, followed by applyDerived under it.     *)
(* The map of clients has no lock at all.                                  *)
(*                                                                         *)
(* One endpoint is modelled: clients of different endpoints share nothing. *)
(***************************************************************************)
EXTENDS Integers, FiniteSets

CONSTANTS
  Handlers,   \* goroutines that serve IsActive, StreamIsActive or GetMetrics
  Clients,    \* *triton.Client objects, more than there are handlers
  MaxWait,    \* the longest one request waits in Triton's queue
  MaxServed,  \* bound on the inferences of a behaviour
  Faults,     \* what Triton may do: "restart", "blank"
  None        \* no client

ASSUME TritonAssumption ==
  /\ MaxWait \in Nat
  /\ MaxServed \in Nat
  /\ None \notin Clients
  /\ IsFiniteSet(Handlers) /\ IsFiniteSet(Clients)
  /\ Cardinality(Clients) > Cardinality(Handlers)

VARIABLES
  server,    \* Triton's exposition: [count, queue], cumulative
  cache,     \* s.tritonClients[endpoint], or None
  client,    \* client[c]: havePrev, prevInferenceCnt, prevQueueDurUs of c
  call,      \* call[h]: the getTritonMetricValue call of handler h
  derived,   \* the derived fields of the last Scrape that returned
  served,    \* history: inferences Triton served so far
  credited,  \* history: sum of all inference-count deltas reported, capped
  skipped,   \* history: inferences that only first scrapes saw, capped
  had        \* history: the faults there have been

history == <<served, credited, skipped, had>>
vars == <<server, cache, client, call, derived, history>>

Samples == [count : 0..MaxServed, queue : 0..(MaxServed * MaxWait)]

NewClient == [havePrev |-> FALSE, prevInferenceCnt |-> 0, prevQueueDurUs |-> 0]

Idle == [pc |-> "idle"]

(***************************************************************************)
(* AvgQueueWaitUs is wait / count and RequestRatePerSec is count over the  *)
(* time between the two scrapes; that time is never zero, as an HTTP round *)
(* trip lies between two readings of the nanosecond clock.                 *)
(***************************************************************************)
NothingDerived == [wait |-> 0, count |-> 0]

Init ==
  /\ server = [count |-> 0, queue |-> 0]
  /\ cache = None
  /\ client = [c \in Clients |-> NewClient]
  /\ call = [h \in Handlers |-> Idle]
  /\ derived = NothingDerived
  /\ served = 0 /\ credited = 0 /\ skipped = 0 /\ had = {}

-----------------------------------------------------------------------------
(* Triton *)

\* Triton serves a request that waited w in its queue.
Infer(w) ==
  /\ served < MaxServed
  /\ server' = [count |-> server.count + 1, queue |-> server.queue + w]
  /\ served' = served + 1
  /\ UNCHANGED <<cache, client, call, derived, credited, skipped, had>>

\* Triton restarts and its counters start from 0 again.
Restart ==
  /\ "restart" \in Faults
  /\ server' = [count |-> 0, queue |-> 0]
  /\ had' = had \cup {"restart"}
  /\ UNCHANGED <<cache, client, call, derived, served, credited, skipped>>

-----------------------------------------------------------------------------
(* getTritonClient *)

\* A request for a Triton metric reaches getTritonClient.
Begin(h) ==
  /\ call[h] = Idle
  /\ call' = [call EXCEPT ![h] = [pc |-> "lookup"]]
  /\ UNCHANGED <<server, cache, client, derived, history>>

\* The map has a client for the endpoint.
CacheHit(h) ==
  /\ call[h].pc = "lookup"
  /\ cache # None
  /\ call' = [call EXCEPT ![h] = [pc |-> "fetch", client |-> cache]]
  /\ UNCHANGED <<server, cache, client, derived, history>>

Holding == {h \in Handlers : call[h].pc \in {"store", "fetch", "apply"}}
InUse == {cache} \cup {call[h].client : h \in Holding}

\* It has none: triton.NewClient; the assignment to the map begins.
CacheMiss(h) ==
  /\ call[h].pc = "lookup"
  /\ cache = None
  /\ LET c == CHOOSE x \in Clients : x \notin InUse IN
       /\ client' = [client EXCEPT ![c] = NewClient]
       /\ call' = [call EXCEPT ![h] = [pc |-> "store", client |-> c]]
  /\ UNCHANGED <<server, cache, derived, history>>

\* The assignment to the map is done.
CacheStore(h) ==
  /\ call[h].pc = "store"
  /\ cache' = call[h].client
  /\ call' = [call EXCEPT ![h].pc = "fetch"]
  /\ UNCHANGED <<server, client, derived, history>>

(***************************************************************************)
(* The Go runtime stops a process that writes a map while another          *)
(* goroutine uses it, when it notices.  The container is started again     *)
(* with nothing in memory.                                                 *)
(***************************************************************************)
Crash ==
  /\ \E g \in Handlers : \E h \in Handlers \ {g} :
       call[g].pc = "store" /\ call[h].pc \in {"lookup", "store"}
  /\ cache' = None
  /\ client' = [c \in Clients |-> NewClient]
  /\ call' = [h \in Handlers |-> Idle]
  /\ derived' = NothingDerived
  /\ UNCHANGED <<server, history>>

-----------------------------------------------------------------------------
(* Client.Scrape *)

\* Triton answers the HTTP request; the body is parsed into a sample.
Fetch(h) ==
  /\ call[h].pc = "fetch"
  /\ call' = [call EXCEPT ![h] =
                [pc |-> "apply", client |-> @.client, sample |-> server]]
  /\ UNCHANGED <<server, cache, client, derived, history>>

(***************************************************************************)
(* Triton answers 200 without the counters (no model is loaded, so there   *)
(* is no series): parseMetrics sums nothing, the sample is all zeros and   *)
(* Scrape returns no error.                                                *)
(***************************************************************************)
FetchBlank(h) ==
  /\ "blank" \in Faults
  /\ call[h].pc = "fetch"
  /\ call' = [call EXCEPT ![h] = [pc |-> "apply", client |-> @.client,
                                 sample |-> [count |-> 0, queue |-> 0]]]
  /\ had' = had \cup {"blank"}
  /\ UNCHANGED <<server, cache, client, derived, served, credited, skipped>>

\* Mutant: a failed request is taken for a sample of zeros.
FailureIsZeroSample(h) ==
  /\ call[h].pc = "fetch"
  /\ call' = [call EXCEPT ![h] = [pc |-> "apply", client |-> @.client,
                                 sample |-> [count |-> 0, queue |-> 0]]]
  /\ UNCHANGED <<server, cache, client, derived, history>>

\* Mutant: a failed request makes the next scrape a first one.
FailureForgetsBaseline(h) ==
  /\ call[h].pc = "fetch"
  /\ call' = [call EXCEPT ![h] = Idle]
  /\ client' = [client EXCEPT ![call[h].client] = NewClient]
  /\ UNCHANGED <<server, cache, derived, history>>

\* The request fails: the error goes to KEDA, the client is left alone.
FetchFails(h) ==
  /\ call[h].pc = "fetch"
  /\ call' = [call EXCEPT ![h] = Idle]
  /\ UNCHANGED <<server, cache, client, derived, history>>

NonNegative(n) == IF n > 0 THEN n ELSE 0

\* Mutant: the sign of the count delta is not looked at.
DeltaUnchecked(c, m) ==
  IF client[c].havePrev
    THEN [wait |-> NonNegative(m.queue - client[c].prevQueueDurUs),
          count |-> m.count - client[c].prevInferenceCnt]
    ELSE NothingDerived

\* What applyDerived computes from sample m against the baseline of client c.
Delta(c, m) ==
  LET dCount == m.count - client[c].prevInferenceCnt
      dQueueUs == m.queue - client[c].prevQueueDurUs
  IN IF client[c].havePrev /\ dCount > 0
       THEN [wait |-> NonNegative(dQueueUs), count |-> dCount]
       ELSE NothingDerived

\* Mutant: the baseline's queue time is left behind.
BaselineWithoutQueue(c, m) ==
  client' = [client EXCEPT ![c].havePrev = TRUE, ![c].prevInferenceCnt = m.count]

\* Mutant: only the first scrape sets the baseline.
BaselineFrozen(c, m) ==
  IF client[c].havePrev
    THEN client' = client
    ELSE client' = [client EXCEPT ![c] = [havePrev |-> TRUE,
                                          prevInferenceCnt |-> m.count,
                                          prevQueueDurUs |-> m.queue]]

\* The sample becomes the baseline, whatever the deltas were.
Baseline(c, m) ==
  client' = [client EXCEPT ![c] = [havePrev |-> TRUE,
                                   prevInferenceCnt |-> m.count,
                                   prevQueueDurUs |-> m.queue]]

\* The history counters stop one above what can be served.
Capped(n) == IF n > MaxServed THEN MaxServed + 1 ELSE n

\* applyDerived, under c.mu, and the return of getTritonMetricValue.
applyDerived(h) ==
  /\ call[h].pc = "apply"
  /\ LET c == call[h].client
         m == call[h].sample
     IN /\ derived' = Delta(c, m)
        /\ credited' = Capped(credited + Delta(c, m).count)
        /\ skipped' = Capped(skipped + IF client[c].havePrev THEN 0 ELSE m.count)
        /\ Baseline(c, m)
  /\ call' = [call EXCEPT ![h] = Idle]
  /\ UNCHANGED <<server, cache, served, had>>

-----------------------------------------------------------------------------

Handle(h) ==
  \/ CacheHit(h) \/ CacheMiss(h) \/ CacheStore(h)
  \/ Fetch(h) \/ FetchBlank(h) \/ FetchFails(h) \/ applyDerived(h)

Next ==
  \/ \E w \in 0..MaxWait : Infer(w)
  \/ Restart
  \/ \E h \in Handlers : Begin(h) \/ Handle(h)
  \/ Crash

Spec == Init /\ [][Next]_vars

(***************************************************************************)
(* Fairness: KEDA polls for ever, a handler that can go on does, and the   *)
(* endpoint answers again and again.                                       *)
(***************************************************************************)
Fairness ==
  \A h \in Handlers :
    /\ WF_vars(Begin(h)) /\ WF_vars(Handle(h)) /\ SF_vars(Fetch(h))

FairSpec == Spec /\ Fairness

-----------------------------------------------------------------------------
(* Safety *)

TypeOK ==
  /\ server \in Samples
  /\ cache \in Clients \cup {None}
  /\ client \in [Clients -> [havePrev : BOOLEAN,
                             prevInferenceCnt : 0..MaxServed,
                             prevQueueDurUs : 0..(MaxServed * MaxWait)]]
  /\ call \in [Handlers ->
                 {Idle} \cup [pc : {"lookup"}]
                   \cup [pc : {"store", "fetch"}, client : Clients]
                   \cup [pc : {"apply"}, client : Clients, sample : Samples]]
  /\ derived \in [wait : Nat, count : Nat]
  /\ served \in 0..MaxServed
  /\ credited \in 0..(MaxServed + 1) /\ skipped \in 0..(MaxServed + 1)
  /\ had \subseteq Faults

\* The counters never exceed what was served, nor the queue time what so many
\* requests can wait: what keeps the samples in their type.
Plausible ==
  /\ server.count <= served
  /\ server.queue <= server.count * MaxWait

(***************************************************************************)
(* No inference is reported twice, also when Triton restarts between two   *)
(* scrapes: the deltas behind RequestRatePerSec add up to at most the      *)
(* inferences served ("diffing two consecutive scrapes",                   *)
(* docs/configuration.md).  An answer without the counters is excepted: it *)
(* makes the next scrape report the server's whole life again.             *)
(***************************************************************************)
CreditedOnce == "blank" \notin had => credited <= served

(***************************************************************************)
(* No inference is lost: while the counters only grow, everything up to    *)
(* the baseline was reported, except what the first scrape found.          *)
(***************************************************************************)
NothingLost ==
  had = {} /\ cache # None /\ client[cache].havePrev
    => credited + skipped = client[cache].prevInferenceCnt

(***************************************************************************)
(* While the counters only grow, an average wait is never longer than the  *)
(* longest wait: the two deltas belong to the same requests.               *)
(***************************************************************************)
MeanWaitBounded == had = {} => derived.wait <= derived.count * MaxWait

\* The hypothesis under which the three hold: scrapes do not overlap.
OneHandler == \A g, h \in Handlers : g = h

(***************************************************************************)
(* The inductive invariants behind these three, for one handler.           *)
(* InOrder: scrapes go through the client of the map, and nothing is       *)
(* reported before it has a baseline.  Owed: with the baseline, the sample *)
(* in flight and the counters of now, what is reported and what may still  *)
(* be reported was served once.  Exact: while the counters only grow, the  *)
(* three are stages of one growth, and the baseline is the sum of the      *)
(* reports.                                                                *)
(***************************************************************************)
Scraped == cache # None /\ client[cache].havePrev
Previous == [count |-> client[cache].prevInferenceCnt,
             queue |-> client[cache].prevQueueDurUs]

\* Sample b may be taken after sample a, without a fault in between.
Grown(a, b) ==
  /\ a.count <= b.count /\ a.queue <= b.queue
  /\ b.queue - a.queue <= (b.count - a.count) * MaxWait

InOrder ==
  /\ \A h \in Handlers :
       /\ call[h].pc = "store" => cache = None /\ ~client[call[h].client].havePrev
       /\ call[h].pc \in {"fetch", "apply"} => call[h].client = cache
  /\ ~Scraped => credited = 0 /\ skipped = 0

Owed ==
  /\ Scraped => credited + NonNegative(server.count - Previous.count) <= served
  /\ \A h \in Handlers : call[h].pc = "apply" =>
       LET m == call[h].sample
           later == NonNegative(server.count - m.count)
       IN IF Scraped
            THEN credited + NonNegative(m.count - Previous.count) + later <= served
            ELSE later <= served

Exact ==
  /\ Scraped => /\ credited + skipped = Previous.count
                /\ Grown(Previous, server)
  /\ \A h \in Handlers : call[h].pc = "apply" =>
       /\ Grown(call[h].sample, server)
       /\ Scraped => Grown(Previous, call[h].sample)
  /\ derived.wait <= derived.count * MaxWait

SerialLedger ==
  /\ InOrder
  /\ "blank" \notin had => Owed
  /\ had = {} => Exact

(***************************************************************************)
(* All calls scrape with the client the map holds, so that each finds the  *)
(* sample of the one before (docs/configuration.md: "the scaler keeps one  *)
(* cached client per distinct tritonEndpoint").                            *)
(***************************************************************************)
OneClient ==
  \A h \in Holding : call[h].pc # "store" => call[h].client = cache

(* Liveness *)

(***************************************************************************)
(* Once Triton is idle and answers with its counters, the metrics become   *)
(* and stay 0, so that KEDA can scale down, whatever scrapes were in       *)
(* flight and whatever blank answers there were before.                    *)
(***************************************************************************)
IdleReportsZero ==
  (\E s \in Samples : <>[](server = s)) /\ <>[][\A h \in Handlers : ~FetchBlank(h)]_vars
    => <>[](derived = NothingDerived)
=============================================================================
