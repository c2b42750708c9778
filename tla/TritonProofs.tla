---------------------------- MODULE TritonProofs ----------------------------
(***************************************************************************)
(* Theorems about TritonScrape: type correctness for any number of         *)
(* handlers, and for one handler that every inference is reported once,    *)
(* none is lost, and an average wait is one a request can have.            *)
(***************************************************************************)
EXTENDS TritonScrape, FiniteSetTheorems, TLAPS

\* Products by the constant MaxWait, for provers that are weak on them.
LEMMA ProductOrder ==
  ASSUME NEW a \in Nat, NEW b \in Nat, a <= b
  PROVE  a * MaxWait <= b * MaxWait
BY TritonAssumption

LEMMA ProductNat ==
  ASSUME NEW a \in Nat
  PROVE  /\ a * MaxWait \in Nat
         /\ (a + 1) * MaxWait = a * MaxWait + MaxWait
BY TritonAssumption

LEMMA ProductSum ==
  ASSUME NEW a \in Int, NEW b \in Int
  PROVE  /\ (a + b) * MaxWait = a * MaxWait + b * MaxWait
         /\ a * MaxWait \in Int
BY TritonAssumption

LEMMA SampleType ==
  ASSUME NEW m \in Samples
  PROVE  m.count \in Nat /\ m.queue \in Nat /\ m.count <= MaxServed
BY TritonAssumption, ProductNat DEF Samples

LEMMA CappedType ==
  ASSUME NEW n \in Nat
  PROVE  /\ Capped(n) \in 0..(MaxServed + 1)
         /\ n <= MaxServed => Capped(n) = n
BY TritonAssumption DEF Capped

-----------------------------------------------------------------------------
(***************************************************************************)
(* Type correctness.  getTritonClient always finds a client nobody holds:  *)
(* there are more of them than handlers.                                   *)
(***************************************************************************)
TypeInv == TypeOK /\ Plausible

LEMMA FreeClient ==
  ASSUME TypeOK, cache = None
  PROVE  \E c \in Clients : c \notin InUse
<1> SUFFICES ASSUME \A c \in Clients : c \in InUse
             PROVE  FALSE
  OBVIOUS
<1>1. \A c \in Clients : \E h \in Holding : call[h].client = c
  BY TritonAssumption DEF InUse
<1>2. PICK d \in Clients : TRUE
  <2>1. Clients # {}
    BY TritonAssumption, FS_EmptySet, FS_CardinalityType
  <2> QED
    BY <2>1
<1> DEFINE held == [h \in Handlers |-> IF h \in Holding THEN call[h].client ELSE d]
<1>3. \A h \in Holding : call[h].client \in Clients
  BY DEF Holding, TypeOK, Idle
<1>4. held \in Surjection(Handlers, Clients)
  BY <1>1, <1>2, <1>3 DEF Surjection, Holding
<1>5. Cardinality(Clients) <= Cardinality(Handlers)
  BY <1>4, FS_Surjection, TritonAssumption
<1> QED
  BY <1>5, FS_CardinalityType, TritonAssumption

LEMMA TypeInit == Init => TypeInv
BY TritonAssumption, ProductNat
   DEF Init, TypeInv, TypeOK, Plausible, Samples, NewClient, NothingDerived

LEMMA DeltaType ==
  ASSUME TypeOK, NEW c \in Clients, NEW m \in Samples
  PROVE  /\ Delta(c, m) \in [wait : Nat, count : Nat]
         /\ Delta(c, m).count = IF client[c].havePrev
                                  THEN NonNegative(m.count - client[c].prevInferenceCnt)
                                  ELSE 0
BY SampleType, TritonAssumption, ProductNat
   DEF Delta, NothingDerived, NonNegative, TypeOK

LEMMA TypeNext == TypeInv /\ [Next]_vars => TypeInv'
<1> SUFFICES ASSUME TypeInv, [Next]_vars PROVE TypeInv'
  OBVIOUS
<1> USE DEF TypeInv
<1>1. ASSUME NEW w \in 0..MaxWait, Infer(w) PROVE TypeInv'
  <2>1. /\ server.count \in Nat /\ server.queue \in Nat /\ served \in Nat
        /\ served' = served + 1 /\ served' \in 0..MaxServed
        /\ server' = [count |-> server.count + 1, queue |-> server.queue + w]
    BY <1>1, SampleType, TritonAssumption DEF Infer, TypeOK
  <2>2. server'.count <= served' /\ server'.queue <= server'.count * MaxWait
    BY <2>1, ProductNat, TritonAssumption DEF Plausible
  <2>3. server'.count * MaxWait <= MaxServed * MaxWait
    BY <2>1, <2>2, ProductOrder, TritonAssumption
  <2>4. server' \in Samples
    BY <2>1, <2>2, <2>3, ProductNat, TritonAssumption DEF Samples
  <2> QED
    BY <1>1, <2>1, <2>2, <2>4 DEF Infer, TypeOK, Plausible
<1>2. CASE Restart
  BY <1>2, TritonAssumption, ProductNat DEF Restart, TypeOK, Plausible, Samples
<1>3. ASSUME NEW h \in Handlers, Begin(h) PROVE TypeInv'
  BY <1>3 DEF Begin, history, TypeOK, Plausible
<1>4. ASSUME NEW h \in Handlers, CacheHit(h) PROVE TypeInv'
  BY <1>4 DEF CacheHit, history, TypeOK, Plausible
<1>5. ASSUME NEW h \in Handlers, CacheMiss(h) PROVE TypeInv'
  <2> DEFINE c == CHOOSE x \in Clients : x \notin InUse
  <2>1. c \in Clients
    BY <1>5, FreeClient DEF CacheMiss
  <2> HIDE DEF c
  <2>2. /\ client' = [client EXCEPT ![c] = NewClient]
        /\ call' = [call EXCEPT ![h] = [pc |-> "store", client |-> c]]
        /\ UNCHANGED <<server, cache, derived, history>>
    BY <1>5 DEF CacheMiss, c
  <2>3. client' \in [Clients -> [havePrev : BOOLEAN,
                                 prevInferenceCnt : 0..MaxServed,
                                 prevQueueDurUs : 0..(MaxServed * MaxWait)]]
    BY <2>1, <2>2, TritonAssumption, ProductNat DEF NewClient, TypeOK
  <2> QED
    BY <2>1, <2>2, <2>3 DEF history, TypeOK, Plausible
<1>6. ASSUME NEW h \in Handlers, CacheStore(h) PROVE TypeInv'
  <2>1. call[h] \in [pc : {"store", "fetch"}, client : Clients]
    BY <1>6 DEF CacheStore, TypeOK, Idle
  <2>2. cache' = call[h].client /\ call' = [call EXCEPT ![h].pc = "fetch"]
    BY <1>6 DEF CacheStore
  <2>3. [call[h] EXCEPT !.pc = "fetch"] \in [pc : {"store", "fetch"}, client : Clients]
    BY <2>1
  <2>4. cache' \in Clients
    BY <2>1, <2>2
  <2> QED
    BY <1>6, <2>2, <2>3, <2>4 DEF CacheStore, history, TypeOK, Plausible
<1>7. ASSUME NEW h \in Handlers, Fetch(h) PROVE TypeInv'
  <2>1. call[h].client \in Clients
    BY <1>7 DEF Fetch, TypeOK, Idle
  <2> QED
    BY <1>7, <2>1 DEF Fetch, history, TypeOK, Plausible
<1>8. ASSUME NEW h \in Handlers, FetchBlank(h) PROVE TypeInv'
  <2>1. call[h].client \in Clients
    BY <1>8 DEF FetchBlank, TypeOK, Idle
  <2>2. [count |-> 0, queue |-> 0] \in Samples
    BY TritonAssumption, ProductNat DEF Samples
  <2> QED
    BY <1>8, <2>1, <2>2 DEF FetchBlank, TypeOK, Plausible
<1>9. ASSUME NEW h \in Handlers, FetchFails(h) PROVE TypeInv'
  BY <1>9 DEF FetchFails, history, TypeOK, Plausible
<1>10. ASSUME NEW h \in Handlers, applyDerived(h) PROVE TypeInv'
  <2> DEFINE c == call[h].client
             m == call[h].sample
  <2>1. c \in Clients /\ m \in Samples
    BY <1>10 DEF applyDerived, TypeOK, Idle
  <2>2. /\ derived' = Delta(c, m)
        /\ credited' = Capped(credited + Delta(c, m).count)
        /\ skipped' = Capped(skipped + IF client[c].havePrev THEN 0 ELSE m.count)
        /\ client' = [client EXCEPT ![c] = [havePrev |-> TRUE,
                                            prevInferenceCnt |-> m.count,
                                            prevQueueDurUs |-> m.queue]]
        /\ call' = [call EXCEPT ![h] = Idle]
        /\ UNCHANGED <<server, cache, served, had>>
    BY <1>10 DEF applyDerived, Baseline
  <2> HIDE DEF c, m
  <2>3. derived' \in [wait : Nat, count : Nat]
    BY <2>1, <2>2, DeltaType
  <2>4. credited' \in 0..(MaxServed + 1)
    BY <2>1, <2>2, DeltaType, CappedType DEF TypeOK
  <2>5. skipped' \in 0..(MaxServed + 1)
    BY <2>1, <2>2, SampleType, CappedType DEF TypeOK
  <2>6. client' \in [Clients -> [havePrev : BOOLEAN,
                                 prevInferenceCnt : 0..MaxServed,
                                 prevQueueDurUs : 0..(MaxServed * MaxWait)]]
    BY <2>1, <2>2 DEF TypeOK, Samples
  <2> QED
    BY <2>2, <2>3, <2>4, <2>5, <2>6 DEF TypeOK, Plausible
<1>11. CASE Crash
  BY <1>11, TritonAssumption, ProductNat
     DEF Crash, history, TypeOK, Plausible, NewClient, NothingDerived
<1>12. CASE UNCHANGED vars
  BY <1>12 DEF vars, history, TypeOK, Plausible
<1> QED
  BY <1>1, <1>2, <1>3, <1>4, <1>5, <1>6, <1>7, <1>8, <1>9, <1>10, <1>11, <1>12
     DEF Next, Handle

(***************************************************************************)
(* Every reachable state is well typed: no call ever runs without a client *)
(* and no delta is negative, whatever overlaps, restarts and crashes.      *)
(***************************************************************************)
THEOREM TypeCorrect == Spec => []TypeOK
<1>1. TypeInv => TypeOK
  BY DEF TypeInv
<1> QED
  BY <1>1, TypeInit, TypeNext, PTL DEF Spec

-----------------------------------------------------------------------------
(***************************************************************************)
(* One handler.                                                            *)
(***************************************************************************)
LEMMA GrownTypes ==
  ASSUME TypeInv
  PROVE  /\ server.count \in Nat /\ server.queue \in Nat
         /\ server.count <= served /\ server.count <= MaxServed
         /\ served \in Nat /\ credited \in Nat /\ skipped \in Nat
         /\ served <= MaxServed
         /\ Scraped =>
              cache \in Clients /\ Previous.count \in Nat /\ Previous.queue \in Nat
         /\ \A h \in Handlers : call[h].pc = "apply" =>
              /\ call[h].sample \in Samples
              /\ call[h].sample.count \in Nat /\ call[h].sample.queue \in Nat
              /\ call[h].sample.count <= MaxServed
<1>1. /\ server.count \in Nat /\ server.queue \in Nat /\ server.count <= MaxServed
      /\ server.count <= served
      /\ served \in Nat /\ credited \in Nat /\ skipped \in Nat /\ served <= MaxServed
  BY SampleType, TritonAssumption DEF TypeInv, TypeOK, Plausible
<1>2. Scraped => cache \in Clients /\ Previous.count \in Nat /\ Previous.queue \in Nat
  BY TritonAssumption, ProductNat DEF Scraped, Previous, TypeInv, TypeOK
<1>3. ASSUME NEW h \in Handlers, call[h].pc = "apply" PROVE call[h].sample \in Samples
  BY <1>3 DEF TypeInv, TypeOK, Idle
<1> QED
  BY <1>1, <1>2, <1>3, SampleType

LEMMA GrownTransitive ==
  ASSUME NEW a, NEW b, NEW c, a.count \in Nat, b.count \in Nat, c.count \in Nat,
         a.queue \in Nat, b.queue \in Nat, c.queue \in Nat, Grown(a, b), Grown(b, c)
  PROVE  Grown(a, c)
<1> DEFINE p == b.count - a.count
           q == c.count - b.count
<1>1. p \in Int /\ q \in Int /\ c.count - a.count = p + q
  OBVIOUS
<1>2. /\ b.queue - a.queue <= p * MaxWait
      /\ c.queue - b.queue <= q * MaxWait
  BY DEF Grown
<1> HIDE DEF p, q
<1>3. /\ (p + q) * MaxWait = p * MaxWait + q * MaxWait
      /\ p * MaxWait \in Int /\ q * MaxWait \in Int
  BY <1>1, ProductSum
<1>4. c.queue - a.queue <= p * MaxWait + q * MaxWait
  BY <1>2, <1>3
<1> QED
  BY <1>1, <1>3, <1>4 DEF Grown

LEMMA SerialInit == Init => SerialLedger
BY TritonAssumption, ProductNat
   DEF Init, SerialLedger, InOrder, Owed, Exact, Scraped, NothingDerived, Idle

LEMMA NoCrash ==
  ASSUME OneHandler
  PROVE  ~Crash
BY DEF OneHandler, Crash

\* What a step that leaves the server, the reports and the faults alone and is
\* not an answer does to the baseline and to the samples in flight.
LEMMA QuietStep ==
  ASSUME OneHandler, TypeInv, InOrder, NEW h \in Handlers,
         \/ Begin(h) \/ CacheHit(h) \/ CacheMiss(h) \/ CacheStore(h) \/ FetchFails(h)
  PROVE  /\ UNCHANGED <<server, derived, history, Scraped>>
         /\ Scraped => UNCHANGED Previous
         /\ \A g \in Handlers : call'[g].pc # "apply"
<1> USE DEF InOrder, Scraped, Previous, OneHandler
<1>1. CASE Begin(h)
  BY <1>1 DEF Begin, TypeInv, TypeOK
<1>2. CASE CacheHit(h)
  BY <1>2 DEF CacheHit, TypeInv, TypeOK
<1>3. CASE CacheMiss(h)
  <2>1. PICK c : call' = [call EXCEPT ![h] = [pc |-> "store", client |-> c]]
    BY <1>3 DEF CacheMiss
  <2> QED
    BY <1>3, <2>1 DEF CacheMiss, TypeInv, TypeOK
<1>4. CASE CacheStore(h)
  BY <1>4 DEF CacheStore, TypeInv, TypeOK
<1>5. CASE FetchFails(h)
  BY <1>5 DEF FetchFails, Idle, TypeInv, TypeOK
<1> QED
  BY <1>1, <1>2, <1>3, <1>4, <1>5

\* A fetch puts one sample in flight and leaves the baseline alone.
LEMMA FetchStep ==
  ASSUME OneHandler, TypeInv, NEW h \in Handlers, Fetch(h)
  PROVE  /\ UNCHANGED <<server, derived, history, Scraped>>
         /\ Scraped => UNCHANGED Previous
         /\ \A g \in Handlers : call'[g].sample = server
BY DEF Fetch, Scraped, Previous, OneHandler, TypeInv, TypeOK

\* An answer moves the sample in flight into the baseline.
LEMMA ApplyStep ==
  ASSUME OneHandler, TypeInv, InOrder, NEW h \in Handlers, applyDerived(h)
  PROVE  LET m == call[h].sample IN
         /\ call[h].pc = "apply" /\ UNCHANGED <<server, served, had>>
         /\ derived' = Delta(cache, m) /\ cache \in Clients
         /\ credited' = Capped(credited + derived'.count)
         /\ skipped' = Capped(skipped + IF Scraped THEN 0 ELSE m.count)
         /\ derived'.count =
              IF Scraped THEN NonNegative(m.count - Previous.count) ELSE 0
         /\ Scraped' /\ Previous' = [count |-> m.count, queue |-> m.queue]
         /\ \A g \in Handlers : call'[g] = Idle
<1> DEFINE m == call[h].sample
<1>1. /\ call[h].pc = "apply" /\ call[h].client = cache
      /\ cache \in Clients /\ m \in Samples
  BY TritonAssumption DEF applyDerived, InOrder, TypeInv, TypeOK, Idle
<1>2. /\ derived' = Delta(cache, m)
      /\ credited' = Capped(credited + Delta(cache, m).count)
      /\ skipped' = Capped(skipped + IF client[cache].havePrev THEN 0 ELSE m.count)
      /\ client' = [client EXCEPT ![cache] = [havePrev |-> TRUE,
                                              prevInferenceCnt |-> m.count,
                                              prevQueueDurUs |-> m.queue]]
      /\ call' = [call EXCEPT ![h] = Idle]
      /\ UNCHANGED <<server, cache, served, had>>
  BY <1>1 DEF applyDerived, Baseline
<1>3. Scraped <=> client[cache].havePrev
  BY <1>1, TritonAssumption DEF Scraped
<1>4. Scraped' /\ Previous' = [count |-> m.count, queue |-> m.queue]
  BY <1>1, <1>2, TritonAssumption DEF Scraped, Previous, TypeInv, TypeOK
<1>5. \A g \in Handlers : call'[g] = Idle
  BY <1>2 DEF OneHandler, TypeInv, TypeOK
<1>6. derived'.count = IF Scraped THEN NonNegative(m.count - Previous.count) ELSE 0
  BY <1>1, <1>2, <1>3, DeltaType DEF Previous, TypeInv
<1> QED
  BY <1>1, <1>2, <1>3, <1>4, <1>5, <1>6

LEMMA InOrderNext ==
  ASSUME OneHandler, TypeInv, InOrder, [Next]_vars
  PROVE  InOrder'
<1> USE DEF InOrder, Scraped
<1>1. ASSUME NEW w \in 0..MaxWait, Infer(w) PROVE InOrder'
  BY <1>1 DEF Infer
<1>2. CASE Restart
  BY <1>2 DEF Restart
<1>3. ASSUME NEW h \in Handlers, Begin(h) PROVE InOrder'
  BY <1>3 DEF Begin, history, TypeInv, TypeOK
<1>4. ASSUME NEW h \in Handlers, CacheHit(h) PROVE InOrder'
  BY <1>4 DEF CacheHit, history, TypeInv, TypeOK
<1>5. ASSUME NEW h \in Handlers, CacheMiss(h) PROVE InOrder'
  <2>1. PICK c \in Clients :
          /\ client' = [client EXCEPT ![c] = NewClient]
          /\ call' = [call EXCEPT ![h] = [pc |-> "store", client |-> c]]
          /\ cache = None
          /\ UNCHANGED <<server, cache, derived, history>>
    BY <1>5, FreeClient DEF CacheMiss, TypeInv
  <2> QED
    BY <2>1 DEF OneHandler, NewClient, history, TypeInv, TypeOK
<1>6. ASSUME NEW h \in Handlers, CacheStore(h) PROVE InOrder'
  BY <1>6 DEF CacheStore, OneHandler, history, TypeInv, TypeOK
<1>7. ASSUME NEW h \in Handlers, Fetch(h) PROVE InOrder'
  BY <1>7 DEF Fetch, history, TypeInv, TypeOK
<1>8. ASSUME NEW h \in Handlers, FetchBlank(h) PROVE InOrder'
  BY <1>8 DEF FetchBlank, TypeInv, TypeOK
<1>9. ASSUME NEW h \in Handlers, FetchFails(h) PROVE InOrder'
  BY <1>9 DEF FetchFails, history, Idle, TypeInv, TypeOK
<1>10. ASSUME NEW h \in Handlers, applyDerived(h) PROVE InOrder'
  BY <1>10, ApplyStep DEF Idle
<1>11. CASE UNCHANGED vars
  BY <1>11 DEF vars, history
<1> QED
  BY <1>1, <1>2, <1>3, <1>4, <1>5, <1>6, <1>7, <1>8, <1>9, <1>10, <1>11, NoCrash
     DEF Next, Handle

LEMMA OwedNext ==
  ASSUME OneHandler, TypeInv, InOrder, Owed, [Next]_vars, "blank" \notin had'
  PROVE  Owed'
<1> USE GrownTypes
<1>1. ASSUME NEW w \in 0..MaxWait, Infer(w) PROVE Owed'
  BY <1>1 DEF Infer, Owed, Scraped, Previous, NonNegative
<1>2. CASE Restart
  BY <1>2 DEF Restart, Owed, Scraped, Previous, NonNegative
<1>3. ASSUME NEW h \in Handlers,
             Begin(h) \/ CacheHit(h) \/ CacheMiss(h) \/ CacheStore(h) \/ FetchFails(h)
      PROVE  Owed'
  BY <1>3, QuietStep DEF Owed, history
<1>4. ASSUME NEW h \in Handlers, Fetch(h) PROVE Owed'
  BY <1>4, FetchStep DEF Owed, history, NonNegative
<1>5. ASSUME NEW h \in Handlers, FetchBlank(h) PROVE Owed'
  BY <1>5 DEF FetchBlank
<1>6. ASSUME NEW h \in Handlers, applyDerived(h) PROVE Owed'
  <2> DEFINE m == call[h].sample
  <2>1. /\ call[h].pc = "apply" /\ UNCHANGED <<server, served>>
        /\ credited' = Capped(credited + derived'.count)
        /\ derived'.count =
              IF Scraped THEN NonNegative(m.count - Previous.count) ELSE 0
        /\ Scraped' /\ Previous' = [count |-> m.count, queue |-> m.queue]
        /\ \A g \in Handlers : call'[g] = Idle
    BY <1>6, ApplyStep
  <2>2. m.count \in Nat /\ derived'.count \in Nat
    BY <2>1 DEF NonNegative
  <2>3. credited + derived'.count + NonNegative(server.count - m.count) <= served
    BY <2>1, <2>2 DEF Owed, InOrder, NonNegative
  <2>4. credited' = credited + derived'.count
    BY <2>1, <2>2, <2>3, CappedType, TritonAssumption DEF NonNegative
  <2> QED
    BY <2>1, <2>3, <2>4 DEF Owed, Idle
<1>7. CASE UNCHANGED vars
  BY <1>7 DEF vars, history, Owed, Scraped, Previous
<1> QED
  BY <1>1, <1>2, <1>3, <1>4, <1>5, <1>6, <1>7, NoCrash DEF Next, Handle

LEMMA ExactNext ==
  ASSUME OneHandler, TypeInv, InOrder, Exact, [Next]_vars, had' = {}
  PROVE  Exact'
<1> USE GrownTypes
<1>1. ASSUME NEW w \in 0..MaxWait, Infer(w) PROVE Exact'
  <2>1. /\ server' = [count |-> server.count + 1, queue |-> server.queue + w]
        /\ UNCHANGED <<call, derived, credited, skipped, cache, client>>
    BY <1>1 DEF Infer
  <2>2. Grown(server, server')
    BY <2>1, ProductNat, TritonAssumption DEF Grown
  <2>3. ASSUME NEW a, a.count \in Nat, a.queue \in Nat, Grown(a, server)
        PROVE  Grown(a, server')
    BY <2>1, <2>2, <2>3, GrownTransitive, TritonAssumption
  <2> QED
    BY <2>1, <2>3 DEF Exact, Scraped, Previous
<1>2. CASE Restart
  BY <1>2 DEF Restart
<1>3. ASSUME NEW h \in Handlers,
             Begin(h) \/ CacheHit(h) \/ CacheMiss(h) \/ CacheStore(h) \/ FetchFails(h)
      PROVE  Exact'
  BY <1>3, QuietStep DEF Exact, history
<1>4. ASSUME NEW h \in Handlers, Fetch(h) PROVE Exact'
  <2>1. Grown(server, server)
    BY ProductNat DEF Grown
  <2> QED
    BY <1>4, <2>1, FetchStep DEF Exact, history
<1>5. ASSUME NEW h \in Handlers, FetchBlank(h) PROVE Exact'
  BY <1>5 DEF FetchBlank
<1>6. ASSUME NEW h \in Handlers, applyDerived(h) PROVE Exact'
  <2> DEFINE m == call[h].sample
  <2>1. /\ call[h].pc = "apply" /\ UNCHANGED server
        /\ derived' = Delta(cache, m) /\ cache \in Clients
        /\ credited' = Capped(credited + derived'.count)
        /\ skipped' = Capped(skipped + IF Scraped THEN 0 ELSE m.count)
        /\ derived'.count =
              IF Scraped THEN NonNegative(m.count - Previous.count) ELSE 0
        /\ Scraped' /\ Previous' = [count |-> m.count, queue |-> m.queue]
        /\ \A g \in Handlers : call'[g] = Idle
    BY <1>6, ApplyStep
  <2>2. /\ m.count \in Nat /\ m.queue \in Nat /\ m.count <= MaxServed
        /\ Grown(m, server)
        /\ Scraped => Grown(Previous, m)
    BY <2>1 DEF Exact
  <2> HIDE DEF m
  <2>3. credited' + skipped' = m.count
    <3>1. CASE Scraped
      <4>1. Previous.count <= m.count /\ credited + skipped = Previous.count
        BY <2>2, <3>1 DEF Grown, Exact
      <4>2. credited + derived'.count <= MaxServed /\ skipped <= MaxServed
        BY <2>1, <2>2, <3>1, <4>1, TritonAssumption DEF NonNegative
      <4>3. derived'.count = m.count - Previous.count /\ derived'.count \in Nat
        BY <2>1, <2>2, <3>1, <4>1 DEF NonNegative
      <4>4. credited' = credited + derived'.count /\ skipped' = skipped
        BY <2>1, <3>1, <4>2, <4>3, CappedType
      <4> QED
        BY <2>2, <3>1, <4>1, <4>3, <4>4
    <3>2. CASE ~Scraped
      BY <2>1, <2>2, <3>2, CappedType, TritonAssumption DEF InOrder
    <3> QED
      BY <3>1, <3>2
  <2>4. Grown(Previous', server')
    BY <2>1, <2>2 DEF Grown
  <2>5. derived'.wait <= derived'.count * MaxWait
    <3>1. CASE Scraped /\ m.count > Previous.count
      <4>1. derived' = [wait |-> NonNegative(m.queue - Previous.queue),
                        count |-> m.count - Previous.count]
        BY <2>1, <2>2, <3>1 DEF Delta, Scraped, Previous
      <4>2. m.queue - Previous.queue <= (m.count - Previous.count) * MaxWait
        BY <2>2, <3>1 DEF Grown
      <4>3. (m.count - Previous.count) * MaxWait \in Nat
        BY <2>2, <3>1, ProductNat
      <4> QED
        BY <2>2, <3>1, <4>1, <4>2, <4>3 DEF NonNegative
    <3>2. CASE ~(Scraped /\ m.count > Previous.count)
      <4>1. derived' = NothingDerived
        BY <2>1, <2>2, <3>2, TritonAssumption DEF Delta, Scraped, Previous
      <4> QED
        BY <4>1, ProductNat DEF NothingDerived
    <3> QED
      BY <3>1, <3>2
  <2> QED
    BY <2>1, <2>3, <2>4, <2>5 DEF Exact, Idle
<1>7. CASE UNCHANGED vars
  BY <1>7 DEF vars, history, Exact, Scraped, Previous
<1> QED
  BY <1>1, <1>2, <1>3, <1>4, <1>5, <1>6, <1>7, NoCrash DEF Next, Handle

\* Faults are not forgotten.
LEMMA FaultsGrow ==
  ASSUME OneHandler, [Next]_vars
  PROVE  had \subseteq had'
BY NoCrash DEF Next, Handle, Infer, Restart, Begin, CacheHit, CacheMiss, CacheStore,
               Fetch, FetchBlank, FetchFails, applyDerived, vars, history

SerialInv == TypeInv /\ SerialLedger

LEMMA SerialInvariant ==
  ASSUME OneHandler
  PROVE  Spec => []SerialInv
<1>1. Init => SerialInv
  BY TypeInit, SerialInit DEF SerialInv
<1>2. SerialInv /\ [Next]_vars => SerialInv'
  BY TypeNext, InOrderNext, OwedNext, ExactNext, FaultsGrow DEF SerialInv, SerialLedger
<1> QED
  BY <1>1, <1>2, PTL DEF Spec

(***************************************************************************)
(* With scrapes that do not overlap the reported deltas never add up to    *)
(* more than Triton served, whatever requests fail and however often       *)
(* Triton restarts.                                                        *)
(***************************************************************************)
THEOREM CreditedAtMostOnce ==
  ASSUME OneHandler
  PROVE  Spec => []CreditedOnce
<1>1. SerialInv => CreditedOnce
  BY GrownTypes DEF SerialInv, SerialLedger, InOrder, Owed, CreditedOnce, NonNegative
<1> QED
  BY <1>1, SerialInvariant, PTL

(***************************************************************************)
(* While the counters only grow, the reports and what the first scrape     *)
(* found add up to the baseline.                                           *)
(***************************************************************************)
THEOREM NothingIsLost ==
  ASSUME OneHandler
  PROVE  Spec => []NothingLost
<1>1. SerialInv => NothingLost
  BY DEF SerialInv, SerialLedger, Exact, Scraped, Previous, NothingLost
<1> QED
  BY <1>1, SerialInvariant, PTL

(***************************************************************************)
(* While the counters only grow, the reported average is a wait that one   *)
(* request can have had.                                                   *)
(***************************************************************************)
THEOREM MeanIsBounded ==
  ASSUME OneHandler
  PROVE  Spec => []MeanWaitBounded
<1>1. SerialInv => MeanWaitBounded
  BY DEF SerialInv, SerialLedger, Exact, MeanWaitBounded
<1> QED
  BY <1>1, SerialInvariant, PTL
=============================================================================
