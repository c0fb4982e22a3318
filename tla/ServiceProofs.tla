--------------------------- MODULE ServiceProofs ---------------------------
(***************************************************************************)
(* Proofs about Service, for any list of providers, any retry intervals    *)
(* and any number of outages, address changes and bad replies.             *)
(***************************************************************************)
EXTENDS Service, FiniteSetTheorems, TLAPS

USE DEF registry, queue, retry, manager, main, targets, ready

LEMMA DeclaredFacts ==
    /\ Len(Declared) \in Nat
    /\ \A i \in 1..Len(Declared) : Declared[i] \in Names
    /\ \A p \in Names : \E i \in 1..Len(Declared) : p = Declared[i]
    /\ \A i, j \in 1..Len(Declared) : Declared[i] = Declared[j] => i = j
    /\ Nobody \notin Names
  BY ManagerAssumption DEF Names

-----------------------------------------------------------------------------
(* The invariant. *)

\* The backoff of the pending providers.
QueueInv ==
    /\ pending \subseteq Names
    /\ interval \in [Names -> 0..MaxRetryInterval]
    /\ wait \in [Names -> 0..MaxRetryInterval]
    /\ \A p \in Names : (p \in pending <=> interval[p] > 0) /\ wait[p] <= interval[p]

\* The registry's list holds each registered name once.
ListInv ==
    /\ byName \subseteq Names
    /\ instances \in Seq(Names)
    /\ \A i \in 1..Len(instances) : instances[i] \in byName
    /\ \A p \in byName : \E i \in 1..Len(instances) : instances[i] = p
    /\ \A i, j \in 1..Len(instances) : instances[i] = instances[j] => i = j
    /\ IsFiniteSet(byName)
    /\ Len(instances) = Cardinality(byName)

Between == {"off", "select", "left", "create"}
Trying == {"ping", "remove", "failed", "recovered"}

\* Where retryProvider is, and what that says of the provider it works on.
RetryInv ==
    /\ loop \in Between \cup Trying \cup {"callback"}
    /\ toRetry \subseteq pending
    /\ attempt \notin toRetry
    /\ loop \in Between => attempt = Nobody
    /\ loop \in {"off", "select", "left"} => toRetry = {}
    /\ loop \in Trying => attempt \in pending
    /\ loop \in {"ping", "remove", "recovered", "callback"} => attempt \in byName
    /\ loop = "failed" => attempt \notin byName
    /\ loop \in {"recovered", "callback"} => attempt \in pinged
    /\ loop = "callback" => attempt \notin pending
    /\ byName \cap pending \subseteq {attempt}
    /\ pinged \subseteq Names /\ checkers \subseteq Names
    /\ Settled \subseteq pinged

\* Where run is, and what that says of the providers.
StageInv ==
    /\ stage \in {"providers", "serving", "stopping", "stopped"}
    /\ next \in 1..Len(Declared) + 1
    /\ stage = "providers" <=> loop = "off"
    /\ stage # "providers" => next = Len(Declared) + 1 /\ Settled \subseteq checkers
    /\ byName \cup pending = Initialized

\* The order of the registry's list; a provider that was ready at first never retries.
OrderInv ==
    /\ OrderKept
    /\ early \subseteq Names
    /\ early \cap pending = {}
    /\ stage = "providers" => early = {}

ManagerInv == QueueInv /\ ListInv /\ RetryInv /\ StageInv /\ OrderInv

-----------------------------------------------------------------------------
(* The operators of the registry. *)

\* Append adds a new name at the end.
LEMMA CreateList ==
    ASSUME ListInv, NEW p \in Names, CreateInstance(p)
    PROVE  ListInv'
<1>. USE DEF ListInv
<1>1. /\ p \notin byName /\ byName' = byName \cup {p}
      /\ instances' = Append(instances, p)
  BY DEF CreateInstance
<1>2. /\ instances' \in Seq(Names)
      /\ Len(instances') = Len(instances) + 1
      /\ \A i \in 1..Len(instances) : instances'[i] = instances[i]
      /\ instances'[Len(instances) + 1] = p
  BY <1>1
<1>3. Len(instances) \in Nat
  OBVIOUS
<1>4. IsFiniteSet(byName') /\ Cardinality(byName') = Cardinality(byName) + 1
  BY <1>1, FS_AddElement
<1>5. \A i \in 1..Len(instances') : instances'[i] \in byName'
  BY <1>1, <1>2, <1>3
<1>6. \A q \in byName' : \E i \in 1..Len(instances') : instances'[i] = q
  BY <1>1, <1>2, <1>3
<1>7. \A i, j \in 1..Len(instances') : instances'[i] = instances'[j] => i = j
  BY <1>1, <1>2, <1>3
<1>. QED BY <1>1, <1>2, <1>4, <1>5, <1>6, <1>7

\* Remove takes one name out and closes the gap.
LEMMA RemoveList ==
    ASSUME ListInv, NEW p \in byName, Remove(p)
    PROVE  /\ ListInv'
           /\ byName' = byName \ {p}
           /\ \E e \in 1..Len(instances) :
                 /\ instances[e] = p
                 /\ instances' = [k \in 1..Len(instances) - 1 |->
                                    instances[IF k < e THEN k ELSE k + 1]]
<1>. USE DEF ListInv
<1>. DEFINE e == Place(p)
<1>1. e \in 1..Len(instances) /\ instances[e] = p
  BY DEF Place
<1>2. byName' = byName \ {p} /\ instances' = Without(p)
  BY DEF Remove
<1>3. instances' = [k \in 1..Len(instances) - 1 |-> instances[IF k < e THEN k ELSE k + 1]]
  BY <1>2 DEF Without
<1>. HIDE DEF e
<1>4. Len(instances) \in Nat /\ Len(instances) - 1 \in Nat
  BY <1>1
<1>5. /\ instances' \in Seq(Names) /\ Len(instances') = Len(instances) - 1
      /\ \A k \in 1..Len(instances') : instances'[k] = instances[IF k < e THEN k ELSE k + 1]
  BY <1>1, <1>3, <1>4
<1>6. IsFiniteSet(byName') /\ Cardinality(byName') = Cardinality(byName) - 1
  BY <1>2, FS_RemoveElement
<1>7. \A k \in 1..Len(instances') : instances'[k] \in byName'
  BY <1>1, <1>2, <1>4, <1>5
<1>8. ASSUME NEW q \in byName' PROVE \E k \in 1..Len(instances') : instances'[k] = q
  <2>1. PICK i \in 1..Len(instances) : instances[i] = q
    BY <1>2
  <2>2. i # e
    BY <1>1, <1>2, <2>1
  <2>3. CASE i < e
    BY <1>1, <1>4, <1>5, <2>1, <2>3
  <2>4. CASE i > e
    <3>1. i - 1 \in 1..Len(instances') /\ ~(i - 1 < e) /\ (i - 1) + 1 = i
      BY <1>1, <1>4, <1>5, <2>4
    <3>. QED BY <1>5, <2>1, <3>1
  <2>. QED BY <1>1, <2>2, <2>3, <2>4
<1>9. \A i, j \in 1..Len(instances') : instances'[i] = instances'[j] => i = j
  BY <1>1, <1>4, <1>5
<1>. QED BY <1>1, <1>2, <1>3, <1>5, <1>6, <1>7, <1>8, <1>9

-----------------------------------------------------------------------------
(* The steps that move providers: run and retryProvider. *)

LEMMA InitManager == Init => ManagerInv
<1>. SUFFICES ASSUME Init PROVE ManagerInv
  OBVIOUS
<1>. USE DEF Init, ManagerInit
<1>1. QueueInv
  BY ManagerAssumption DEF QueueInv
<1>2. ListInv
  BY FS_EmptySet DEF ListInv
<1>3. RetryInv
  BY DEF RetryInv, Between, Trying, Settled
<1>4. StageInv
  BY DeclaredFacts DEF StageInv, Initialized
<1>5. OrderInv
  BY DEF OrderInv, OrderKept
<1>. QED BY <1>1, <1>2, <1>3, <1>4, <1>5 DEF ManagerInv

\* A provider of the configuration comes up or is queued.
LEMMA InitializeStep == ASSUME ManagerInv, Initialize PROVE ManagerInv'
<1>. DEFINE p == Declared[next]
<1>1. /\ stage = "providers" /\ next \in 1..Len(Declared) /\ p \in Names
      /\ next' = next + 1 /\ InitializeProvider(p)
      /\ UNCHANGED <<stage, loop, toRetry, attempt, checkers, early>>
  BY DeclaredFacts DEF Initialize, InitializeProvider, ManagerInv, StageInv
<1>2. loop = "off" /\ attempt = Nobody /\ toRetry = {}
  BY <1>1 DEF ManagerInv, StageInv, RetryInv, Between
<1>3. p \notin byName /\ p \notin pending
  BY <1>1, DeclaredFacts DEF ManagerInv, StageInv, Initialized
<1>4. Initialized' = Initialized \cup {p}
  BY <1>1, DeclaredFacts DEF Initialized
<1>5. CASE CreateInstance(p) /\ pinged' = pinged \cup {p} /\ UNCHANGED <<pending, interval, wait>>
  <2>1. /\ byName' = byName \cup {p} /\ instances' = Append(instances, p)
    BY <1>5 DEF CreateInstance
  <2>2. ListInv'
    BY <1>1, <1>5, CreateList DEF ManagerInv
  <2>3. QueueInv'
    BY <1>5 DEF ManagerInv, QueueInv
  <2>4. RetryInv'
    BY <1>1, <1>2, <1>3, <1>5, <2>1, DeclaredFacts DEF ManagerInv, RetryInv, Between, Trying, Settled
  <2>5. StageInv'
    BY <1>1, <1>2, <1>4, <1>5, <2>1, DeclaredFacts DEF ManagerInv, StageInv
  <2>6. OrderKept'
    <3>1. /\ Len(instances) \in Nat /\ Len(instances') = Len(instances) + 1
          /\ \A i \in 1..Len(instances) : instances'[i] = instances[i]
          /\ instances'[Len(instances) + 1] = p
      BY <2>1 DEF ManagerInv, ListInv
    <3>2. \A i \in 1..Len(instances) : instances[i] \in Initialized
      BY DEF ManagerInv, ListInv, StageInv
    <3>3. ASSUME NEW i \in 1..Len(instances'), NEW j \in 1..Len(instances'),
                 NEW m \in 1..Len(Declared), NEW n \in 1..Len(Declared),
                 i < j, instances'[i] = Declared[n], instances'[j] = Declared[m], m < n
          PROVE  FALSE
      <4>1. i \in 1..Len(instances)
        BY <3>1, <3>3
      <4>2. CASE j \in 1..Len(instances)
        BY <1>1, <3>1, <3>3, <4>1, <4>2 DEF ManagerInv, OrderInv, OrderKept
      <4>3. CASE j = Len(instances) + 1
        <5>1. m = next
          BY <1>1, <3>1, <3>3, <4>3, DeclaredFacts
        <5>2. n <= next - 1
          <6>1. PICK k \in 1..next - 1 : instances[i] = Declared[k]
            BY <3>2, <4>1 DEF Initialized
          <6>2. k \in 1..Len(Declared) /\ Declared[k] = Declared[n]
            BY <1>1, <3>1, <3>3, <4>1, <6>1, DeclaredFacts
          <6>3. k = n
            BY <6>2, DeclaredFacts
          <6>. QED BY <1>1, <6>1, <6>3
        <5>. QED BY <1>1, <3>3, <5>1, <5>2
      <4>. QED BY <3>1, <3>3, <4>2, <4>3
    <3>. QED BY <3>3 DEF OrderKept
  <2>7. OrderInv'
    BY <1>1, <1>5, <2>6 DEF ManagerInv, OrderInv
  <2>. QED BY <2>2, <2>3, <2>4, <2>5, <2>7 DEF ManagerInv
<1>6. CASE Enqueue(p) /\ UNCHANGED <<byName, instances, pinged>>
  <2>1. QueueInv'
    BY <1>1, <1>6, ManagerAssumption DEF ManagerInv, QueueInv, Enqueue
  <2>2. pending' = pending \cup {p}
    BY <1>6 DEF Enqueue
  <2>3. ListInv'
    BY <1>6 DEF ManagerInv, ListInv
  <2>4. RetryInv'
    BY <1>1, <1>2, <1>3, <1>6, <2>2 DEF ManagerInv, RetryInv, Between, Trying, Settled
  <2>5. StageInv'
    BY <1>1, <1>4, <1>6, <2>2 DEF ManagerInv, StageInv
  <2>6. OrderInv'
    BY <1>1, <1>3, <1>6, <2>2 DEF ManagerInv, OrderInv, OrderKept
  <2>. QED BY <2>1, <2>3, <2>4, <2>5, <2>6 DEF ManagerInv
<1>. QED BY <1>1, <1>5, <1>6 DEF InitializeProvider

\* The process begins to serve with the providers that are registered.
LEMMA PrepareStep == ASSUME ManagerInv, Prepare PROVE ManagerInv'
<1>1. /\ stage = "providers" /\ stage' = "serving" /\ loop' = "select"
      /\ checkers' = byName /\ early' = byName /\ next = Len(Declared) + 1
      /\ UNCHANGED <<byName, instances, pending, interval, wait, toRetry, attempt, pinged, next>>
  BY DeclaredFacts DEF Prepare, ManagerInv, StageInv
<1>2. loop = "off" /\ attempt = Nobody /\ toRetry = {}
  BY <1>1 DEF ManagerInv, StageInv, RetryInv, Between
<1>3. QueueInv' /\ ListInv'
  BY <1>1 DEF ManagerInv, QueueInv, ListInv
<1>4. byName \cap pending = {}
  BY <1>2, DeclaredFacts DEF ManagerInv, RetryInv, QueueInv
<1>5. RetryInv'
  BY <1>1, <1>2 DEF ManagerInv, RetryInv, ListInv, Between, Trying, Settled
<1>6. StageInv'
  BY <1>1, <1>2 DEF ManagerInv, StageInv, Settled, Initialized
<1>7. OrderInv'
  BY <1>1, <1>4 DEF ManagerInv, OrderInv, OrderKept, ListInv
<1>. QED BY <1>3, <1>5, <1>6, <1>7 DEF ManagerInv

LEMMA SignalStep == ASSUME ManagerInv, Signal \/ Stop PROVE ManagerInv'
<1>1. /\ stage # "providers" /\ stage' \in {"stopping", "stopped"}
      /\ UNCHANGED <<byName, instances, pending, interval, wait, loop, toRetry, attempt, pinged,
                     next, checkers, early>>
  BY DEF Signal, Stop
<1>. QED BY <1>1 DEF ManagerInv, QueueInv, ListInv, RetryInv, StageInv, OrderInv, OrderKept,
                     Settled, Initialized

\* The loop moves, with the providers where they were.
LEMMA LoopStep ==
    ASSUME ManagerInv, CollectDue \/ LeaveLoop, UNCHANGED <<stage, next, early>>
    PROVE  ManagerInv'
<1>1. /\ loop = "select"
      /\ UNCHANGED <<byName, instances, pending, interval, wait, attempt, pinged, checkers>>
  BY DEF CollectDue, LeaveLoop
<1>2. attempt = Nobody /\ toRetry = {}
  BY <1>1 DEF ManagerInv, RetryInv, Between
<1>3. /\ toRetry' \subseteq pending
      /\ loop' \in {"select", "create", "left"}
      /\ loop' # "create" => toRetry' = {}
  BY <1>2 DEF CollectDue, LeaveLoop
<1>4. QueueInv' /\ ListInv' /\ OrderInv'
  BY <1>1 DEF ManagerInv, QueueInv, ListInv, OrderInv, OrderKept
<1>5. RetryInv'
  BY <1>1, <1>2, <1>3, DeclaredFacts DEF ManagerInv, RetryInv, QueueInv, Between, Trying, Settled
<1>6. StageInv'
  BY <1>1, <1>3 DEF ManagerInv, StageInv, Settled, Initialized
<1>. QED BY <1>4, <1>5, <1>6 DEF ManagerInv

\* retryProvider creates the instance or fails to.
LEMMA RetryCreateStep ==
    ASSUME ManagerInv, NEW p \in Names, RetryCreate(p), UNCHANGED <<stage, next, early>>
    PROVE  ManagerInv'
<1>1. /\ loop = "create" /\ p \in toRetry /\ attempt' = p /\ toRetry' = toRetry \ {p}
      /\ UNCHANGED <<pending, interval, wait, pinged, checkers>>
  BY DEF RetryCreate
<1>2. attempt = Nobody /\ p \in pending /\ p \notin byName
  BY <1>1, DeclaredFacts DEF ManagerInv, RetryInv, Between
<1>3. stage # "providers" /\ p \notin early
  BY <1>1, <1>2 DEF ManagerInv, StageInv, OrderInv
<1>4. byName \subseteq pinged /\ byName \subseteq checkers /\ byName \cap pending = {}
  BY <1>2, <1>3, DeclaredFacts DEF ManagerInv, ListInv, RetryInv, StageInv, Settled
<1>5. QueueInv'
  BY <1>1 DEF ManagerInv, QueueInv
<1>6. CASE CreateInstance(p) /\ loop' = "ping"
  <2>1. byName' = byName \cup {p} /\ instances' = Append(instances, p)
    BY <1>6 DEF CreateInstance
  <2>2. ListInv'
    BY <1>6, CreateList DEF ManagerInv
  <2>3. RetryInv'
    BY <1>1, <1>2, <1>4, <1>6, <2>1 DEF ManagerInv, RetryInv, Between, Trying, Settled
  <2>4. StageInv'
    BY <1>1, <1>2, <1>3, <1>4, <1>6, <2>1 DEF ManagerInv, StageInv, Settled, Initialized
  <2>5. OrderKept'
    <3>1. /\ Len(instances) \in Nat /\ Len(instances') = Len(instances) + 1
          /\ \A i \in 1..Len(instances) : instances'[i] = instances[i]
          /\ instances'[Len(instances) + 1] = p
      BY <2>1 DEF ManagerInv, ListInv
    <3>2. ASSUME NEW i \in 1..Len(instances'), NEW j \in 1..Len(instances'),
                 NEW m \in 1..Len(Declared), NEW n \in 1..Len(Declared),
                 i < j, instances'[i] = Declared[n], instances'[j] = Declared[m], m < n
          PROVE  Declared[m] \notin early
      <4>1. i \in 1..Len(instances)
        BY <3>1, <3>2
      <4>2. CASE j \in 1..Len(instances)
        BY <3>1, <3>2, <4>1, <4>2 DEF ManagerInv, OrderInv, OrderKept
      <4>3. CASE j = Len(instances) + 1
        BY <1>3, <3>1, <3>2, <4>3
      <4>. QED BY <3>1, <3>2, <4>2, <4>3
    <3>. QED BY <1>3, <3>2 DEF OrderKept
  <2>6. OrderInv'
    BY <1>1, <1>3, <2>5 DEF ManagerInv, OrderInv
  <2>. QED BY <1>5, <2>2, <2>3, <2>4, <2>6 DEF ManagerInv
<1>7. CASE loop' = "failed" /\ UNCHANGED <<byName, instances>>
  <2>1. ListInv' /\ OrderInv'
    BY <1>1, <1>7 DEF ManagerInv, ListInv, OrderInv, OrderKept
  <2>2. RetryInv'
    BY <1>1, <1>2, <1>4, <1>7 DEF ManagerInv, RetryInv, Between, Trying, Settled
  <2>3. StageInv'
    BY <1>1, <1>2, <1>3, <1>4, <1>7 DEF ManagerInv, StageInv, Settled, Initialized
  <2>. QED BY <1>5, <2>1, <2>2, <2>3 DEF ManagerInv
<1>. QED BY <1>6, <1>7 DEF RetryCreate

LEMMA RetryPingStep ==
    ASSUME ManagerInv, RetryPing, UNCHANGED <<stage, next, early>>
    PROVE  ManagerInv'
<1>1. /\ loop = "ping"
      /\ \/ loop' = "recovered" /\ pinged' = pinged \cup {attempt}
         \/ loop' = "remove" /\ pinged' = pinged
      /\ UNCHANGED <<byName, instances, pending, interval, wait, toRetry, attempt, checkers>>
  BY DEF RetryPing
<1>2. attempt \in pending /\ attempt \in byName /\ attempt \in Names
  BY <1>1 DEF ManagerInv, RetryInv, Trying, ListInv
<1>3. QueueInv' /\ ListInv' /\ OrderInv'
  BY <1>1 DEF ManagerInv, QueueInv, ListInv, OrderInv, OrderKept
<1>4. RetryInv'
  BY <1>1, <1>2 DEF ManagerInv, RetryInv, Between, Trying, Settled
<1>5. StageInv'
  BY <1>1 DEF ManagerInv, StageInv, Settled, Initialized
<1>. QED BY <1>3, <1>4, <1>5 DEF ManagerInv

\* An instance that did not answer is taken out of the registry again.
LEMMA RetryRemoveStep ==
    ASSUME ManagerInv, RetryRemove, UNCHANGED <<stage, next, early>>
    PROVE  ManagerInv'
<1>1. /\ loop = "remove" /\ loop' = "failed" /\ Remove(attempt)
      /\ UNCHANGED <<pending, interval, wait, toRetry, attempt, pinged, checkers>>
  BY DEF RetryRemove
<1>2. attempt \in pending /\ attempt \in byName
  BY <1>1 DEF ManagerInv, RetryInv, Trying
<1>3. ListInv' /\ byName' = byName \ {attempt}
  BY <1>1, <1>2, RemoveList DEF ManagerInv
<1>4. QueueInv'
  BY <1>1 DEF ManagerInv, QueueInv
<1>5. RetryInv'
  BY <1>1, <1>2, <1>3 DEF ManagerInv, RetryInv, Between, Trying, Settled
<1>6. StageInv'
  BY <1>1, <1>2, <1>3 DEF ManagerInv, StageInv, Settled, Initialized
<1>7. OrderKept'
  <2>1. PICK e \in 1..Len(instances) :
           instances' = [k \in 1..Len(instances) - 1 |-> instances[IF k < e THEN k ELSE k + 1]]
    BY <1>1, <1>2, RemoveList DEF ManagerInv
  <2>. DEFINE from(k) == IF k < e THEN k ELSE k + 1
  <2>2. Len(instances) \in Nat /\ Len(instances) - 1 \in Nat /\ e \in Nat
    BY <2>1 DEF ManagerInv, ListInv
  <2>3. Len(instances') = Len(instances) - 1
    BY <2>1, <2>2
  <2>4. \A k \in 1..Len(instances') :
           from(k) \in 1..Len(instances) /\ instances'[k] = instances[from(k)]
    BY <2>1, <2>2, <2>3
  <2>5. \A i, j \in 1..Len(instances') : i < j => from(i) < from(j)
    BY <2>2, <2>3
  <2>. HIDE DEF from
  <2>6. ASSUME NEW i \in 1..Len(instances'), NEW j \in 1..Len(instances'),
               NEW m \in 1..Len(Declared), NEW n \in 1..Len(Declared),
               i < j, instances'[i] = Declared[n], instances'[j] = Declared[m], m < n
        PROVE  stage # "providers" /\ Declared[m] \notin early
    <3>1. instances[from(i)] = Declared[n] /\ instances[from(j)] = Declared[m]
      BY <2>4, <2>6
    <3>2. from(i) \in 1..Len(instances) /\ from(j) \in 1..Len(instances) /\ from(i) < from(j)
      BY <2>4, <2>5, <2>6
    <3>. QED BY <2>6, <3>1, <3>2 DEF ManagerInv, OrderInv, OrderKept
  <2>. QED BY <2>6 DEF OrderKept
<1>8. OrderInv'
  BY <1>1, <1>7 DEF ManagerInv, OrderInv
<1>. QED BY <1>3, <1>4, <1>5, <1>6, <1>8 DEF ManagerInv

LEMMA NextRetryFacts == \A rest : /\ NextRetry(rest) \in {"select", "create"}
                                  /\ NextRetry(rest) = "select" => rest = {}
  BY DEF NextRetry

\* The wait of a provider that failed once more is positive and within its limit.
LEMMA BackoffBounds ==
    ASSUME QueueInv, NEW p \in pending
    PROVE  Backoff(p) \in 1..MaxRetryInterval
<1>1. interval[p] \in Nat \ {0} /\ MaxRetryInterval \in Nat \ {0} /\ RetryBackoffMultiplier \in Nat \ {0}
  BY ManagerAssumption DEF QueueInv
<1>2. interval[p] * RetryBackoffMultiplier \in Nat \ {0}
  BY <1>1
<1>. QED BY <1>1, <1>2 DEF Backoff

\* The provider stays pending, with a longer wait.
LEMMA RetryFailedStep ==
    ASSUME ManagerInv, RetryFailed, UNCHANGED <<stage, next, early>>
    PROVE  ManagerInv'
<1>1. /\ loop = "failed" /\ loop' = NextRetry(toRetry) /\ attempt' = Nobody
      /\ interval' = [interval EXCEPT ![attempt] = Backoff(attempt)]
      /\ wait' = [wait EXCEPT ![attempt] = Backoff(attempt)]
      /\ UNCHANGED <<byName, instances, pending, toRetry, pinged, checkers>>
  BY DEF RetryFailed
<1>2. attempt \in pending /\ attempt \notin byName /\ attempt \in Names
  BY <1>1 DEF ManagerInv, RetryInv, Trying, QueueInv
<1>3. Backoff(attempt) \in 1..MaxRetryInterval
  BY <1>2, BackoffBounds DEF ManagerInv
<1>4. QueueInv'
  BY <1>1, <1>2, <1>3, ManagerAssumption DEF ManagerInv, QueueInv
<1>5. ListInv' /\ OrderInv'
  BY <1>1 DEF ManagerInv, ListInv, OrderInv, OrderKept
<1>6. RetryInv'
  BY <1>1, <1>2, NextRetryFacts, DeclaredFacts
     DEF ManagerInv, RetryInv, QueueInv, Between, Trying, Settled
<1>7. StageInv'
  BY <1>1, <1>2, NextRetryFacts DEF ManagerInv, StageInv, Settled, Initialized
<1>. QED BY <1>4, <1>5, <1>6, <1>7 DEF ManagerInv

\* The provider is no longer pending.
LEMMA RetryRecoveredStep ==
    ASSUME ManagerInv, RetryRecovered, UNCHANGED <<stage, next, early>>
    PROVE  ManagerInv'
<1>1. /\ loop = "recovered" /\ loop' = "callback" /\ pending' = pending \ {attempt}
      /\ interval' = [interval EXCEPT ![attempt] = 0]
      /\ wait' = [wait EXCEPT ![attempt] = 0]
      /\ UNCHANGED <<byName, instances, toRetry, attempt, pinged, checkers>>
  BY DEF RetryRecovered
<1>2. attempt \in pending /\ attempt \in byName /\ attempt \in Names /\ attempt \notin toRetry
  BY <1>1 DEF ManagerInv, RetryInv, Trying, QueueInv
<1>3. QueueInv'
  BY <1>1, <1>2, ManagerAssumption DEF ManagerInv, QueueInv
<1>4. ListInv' /\ OrderInv'
  BY <1>1 DEF ManagerInv, ListInv, OrderInv, OrderKept
<1>5. RetryInv'
  BY <1>1, <1>2 DEF ManagerInv, RetryInv, Between, Trying, Settled
<1>6. StageInv'
  BY <1>1, <1>2 DEF ManagerInv, StageInv, Settled, Initialized
<1>. QED BY <1>3, <1>4, <1>5, <1>6 DEF ManagerInv

LEMMA ProviderReadyStep ==
    ASSUME ManagerInv, OnProviderReady, UNCHANGED <<stage, next, early>>
    PROVE  ManagerInv'
<1>1. /\ loop = "callback" /\ loop' = NextRetry(toRetry) /\ attempt' = Nobody
      /\ checkers' = checkers \cup {attempt}
      /\ UNCHANGED <<byName, instances, pending, interval, wait, toRetry, pinged>>
  BY DEF OnProviderReady
<1>2. attempt \notin pending /\ attempt \in byName /\ attempt \in pinged /\ attempt \in Names
  BY <1>1 DEF ManagerInv, RetryInv, ListInv
<1>3. QueueInv' /\ ListInv' /\ OrderInv'
  BY <1>1 DEF ManagerInv, QueueInv, ListInv, OrderInv, OrderKept
<1>4. RetryInv'
  BY <1>1, <1>2, NextRetryFacts, DeclaredFacts
     DEF ManagerInv, RetryInv, QueueInv, Between, Trying, Settled
<1>5. StageInv'
  BY <1>1, <1>2, NextRetryFacts DEF ManagerInv, StageInv, Settled, Initialized
<1>. QED BY <1>3, <1>4, <1>5 DEF ManagerInv

LEMMA SecondStep ==
    ASSUME ManagerInv, Second, UNCHANGED <<stage, next, early>>
    PROVE  ManagerInv'
<1>1. /\ wait' = [p \in Names |-> IF wait[p] > 0 THEN wait[p] - 1 ELSE 0]
      /\ UNCHANGED <<byName, instances, pending, interval, loop, toRetry, attempt, pinged, checkers>>
  BY DEF Second
<1>2. QueueInv'
  BY <1>1, ManagerAssumption DEF ManagerInv, QueueInv
<1>. QED BY <1>1, <1>2 DEF ManagerInv, ListInv, RetryInv, StageInv, OrderInv, OrderKept,
                           Settled, Initialized

LEMMA OtherStep ==
    ASSUME ManagerInv, UNCHANGED <<manager, stage, next, early>>
    PROVE  ManagerInv'
  BY DEF ManagerInv, QueueInv, ListInv, RetryInv, StageInv, OrderInv, OrderKept, Settled, Initialized

LEMMA NextManager == ASSUME ManagerInv, [Next]_vars PROVE ManagerInv'
<1>1. CASE Initialize
  BY <1>1, InitializeStep
<1>2. CASE Prepare
  BY <1>2, PrepareStep
<1>3. CASE Signal \/ Stop
  BY <1>3, SignalStep
<1>4. CASE Retrying
  <2>1. UNCHANGED <<stage, next, early>>
    BY <1>4 DEF Retrying, Others
  <2>2. CASE CollectDue
    BY <2>1, <2>2, LoopStep
  <2>3. ASSUME NEW p \in Names, RetryCreate(p) PROVE ManagerInv'
    BY <2>1, <2>3, RetryCreateStep
  <2>4. CASE RetryPing
    BY <2>1, <2>4, RetryPingStep
  <2>5. CASE RetryRemove
    BY <2>1, <2>5, RetryRemoveStep
  <2>6. CASE RetryFailed
    BY <2>1, <2>6, RetryFailedStep
  <2>7. CASE RetryRecovered
    BY <2>1, <2>7, RetryRecoveredStep
  <2>8. CASE OnProviderReady
    BY <2>1, <2>8, ProviderReadyStep
  <2>. QED BY <1>4, <2>2, <2>3, <2>4, <2>5, <2>6, <2>7, <2>8 DEF Retrying, RetryLoop
<1>5. CASE Leaving
  BY <1>5, LoopStep DEF Leaving, Others
<1>6. CASE Ticking
  BY <1>6, SecondStep DEF Ticking, Others
<1>7. ASSUME NEW p \in Names, Refresh(p) \/ RunChecker(p) \/ Outage(p) PROVE ManagerInv'
  BY <1>7, OtherStep DEF Refresh, RunChecker, Outage
<1>8. ASSUME NEW a \in Addresses, Move(a) PROVE ManagerInv'
  BY <1>8, OtherStep DEF Move
<1>9. CASE HandleReady \/ Respond
  BY <1>9, OtherStep DEF HandleReady, Respond
<1>10. CASE UNCHANGED vars
  BY <1>10, OtherStep DEF vars
<1>. QED BY <1>1, <1>2, <1>3, <1>4, <1>5, <1>6, <1>7, <1>8, <1>9, <1>10 DEF Next

-----------------------------------------------------------------------------
(* The rest of the process. *)

RunType ==
    /\ tick \in BOOLEAN /\ ctxDone \in BOOLEAN /\ shuttingDown \in BOOLEAN
    /\ recovered \subseteq Names /\ refreshers \subseteq Names
    /\ up \in [Names -> BOOLEAN] /\ outages \in 0..MaxOutages

TargetType ==
    /\ address \in Addresses
    /\ lastGood \in [Names -> Addresses \cup {Literal}]
    /\ target \in [Names -> Addresses \cup {Literal}]
    /\ moves \in 0..MaxMoves /\ bad \in 0..MaxBadReplies

\* A request to /ready is answered only while the process serves or stops, and what was
\* answered then stays true: a provider that was reached once remains so.
ReadyInv ==
    /\ request \in {"none", "checking"} /\ asked \subseteq Names /\ healthy \in BOOLEAN
    /\ answer \in {"none", "shutting_down", "not_ready", "degraded", "ready"}
    /\ request = "checking" => stage # "providers"
    /\ ReadyIsHonest

ServiceInv == ManagerInv /\ RunType /\ TargetType /\ ReadyInv

LEMMA InitService == Init => ServiceInv
<1>1. Init => ManagerInv
  BY InitManager
<1>2. Init => RunType
  <2>. SUFFICES ASSUME Init PROVE RunType
    OBVIOUS
  <2>1. tick \in BOOLEAN /\ ctxDone \in BOOLEAN
    BY DEF Init, ManagerInit
  <2>2. shuttingDown \in BOOLEAN /\ recovered \subseteq Names /\ refreshers \subseteq Names
    BY DEF Init
  <2>3. up \in [Names -> BOOLEAN] /\ outages \in 0..MaxOutages
    BY ServiceAssumption DEF Init
  <2>. QED BY <2>1, <2>2, <2>3 DEF RunType
<1>3. Init => TargetType
  BY ServiceAssumption DEF Init, TargetType
<1>4. Init => ReadyInv
  BY DEF Init, ReadyInv, ReadyIsHonest
<1>. QED BY <1>1, <1>2, <1>3, <1>4 DEF ServiceInv

LEMMA RetryLoopFrame ==
    ASSUME RetryLoop PROVE UNCHANGED ctxDone /\ tick' \in {tick, FALSE}
  BY DEF RetryLoop, CollectDue, RetryCreate, RetryPing, RetryRemove, RetryFailed, RetryRecovered,
         OnProviderReady

LEMMA NextRunType == ASSUME ServiceInv, [Next]_vars PROVE RunType'
<1>. USE DEF ServiceInv, RunType
<1>1. CASE Initialize
  BY <1>1 DEF Initialize, InitializeProvider
<1>2. CASE Prepare
  BY <1>2 DEF Prepare, RecoverOwnership, BuildTargetRefreshers, ManagerInv, ListInv
<1>3. CASE Signal \/ Stop
  BY <1>3 DEF Signal, Stop
<1>4. CASE Retrying
  BY <1>4, RetryLoopFrame DEF Retrying, Others
<1>5. CASE Leaving \/ Ticking
  BY <1>5 DEF Leaving, Ticking, LeaveLoop, Second, Others
<1>6. ASSUME NEW p \in Names, Refresh(p) \/ RunChecker(p) PROVE RunType'
  BY <1>6 DEF Refresh, RunChecker
<1>7. ASSUME NEW p \in Names, Outage(p) PROVE RunType'
  BY <1>7, ServiceAssumption DEF Outage
<1>8. ASSUME NEW a \in Addresses, Move(a) PROVE RunType'
  BY <1>8 DEF Move
<1>9. CASE HandleReady \/ Respond \/ UNCHANGED vars
  BY <1>9 DEF HandleReady, Respond, vars
<1>. QED BY <1>1, <1>2, <1>3, <1>4, <1>5, <1>6, <1>7, <1>8, <1>9 DEF Next

LEMMA NextTargetType == ASSUME ServiceInv, [Next]_vars PROVE TargetType'
<1>. USE DEF ServiceInv, TargetType
<1>1. ASSUME NEW p \in Names, Refresh(p) PROVE TargetType'
  <2>1. PICK replies \in [1..Endpoints -> Replies] :
           /\ bad' = IF \A i \in 1..Endpoints : Query(replies[i]) THEN bad ELSE bad + 1
           /\ bad' <= MaxBadReplies
           /\ ResolveOnce(p, replies)
    BY <1>1 DEF Refresh
  <2>2. bad' \in 0..MaxBadReplies
    BY <2>1, ServiceAssumption
  <2>3. UNCHANGED <<address, moves>>
    BY <1>1 DEF Refresh
  <2>4. /\ lastGood' \in [Names -> Addresses \cup {Literal}]
        /\ target' \in [Names -> Addresses \cup {Literal}]
    BY <2>1 DEF ResolveOnce
  <2>. QED BY <2>2, <2>3, <2>4
<1>2. ASSUME NEW a \in Addresses, Move(a) PROVE TargetType'
  BY <1>2, ServiceAssumption DEF Move
<1>3. CASE Initialize \/ Prepare \/ Signal \/ Stop
  BY <1>3 DEF Initialize, Prepare, Signal, Stop
<1>4. CASE Retrying \/ Leaving \/ Ticking
  BY <1>4 DEF Retrying, Leaving, Ticking, Others
<1>5. ASSUME NEW p \in Names, RunChecker(p) \/ Outage(p) PROVE TargetType'
  BY <1>5 DEF RunChecker, Outage
<1>6. CASE HandleReady \/ Respond \/ UNCHANGED vars
  BY <1>6 DEF HandleReady, Respond, vars
<1>. QED BY <1>1, <1>2, <1>3, <1>4, <1>5, <1>6 DEF Next

\* What was pinged stays pinged.
LEMMA PingedGrows == ASSUME [Next]_vars PROVE pinged \subseteq pinged'
<1>1. CASE Retrying
  BY <1>1 DEF Retrying, RetryLoop, CollectDue, RetryCreate, RetryPing, RetryRemove, RetryFailed,
              RetryRecovered, OnProviderReady
<1>2. CASE Initialize \/ Prepare \/ Signal \/ Stop
  BY <1>2 DEF Initialize, InitializeProvider, Prepare, Signal, Stop
<1>3. CASE Leaving \/ Ticking
  BY <1>3 DEF Leaving, Ticking, LeaveLoop, Second
<1>4. ASSUME NEW p \in Names, Refresh(p) \/ RunChecker(p) \/ Outage(p) PROVE pinged \subseteq pinged'
  BY <1>4 DEF Refresh, RunChecker, Outage
<1>5. ASSUME NEW a \in Addresses, Move(a) PROVE pinged \subseteq pinged'
  BY <1>5 DEF Move
<1>6. CASE HandleReady \/ Respond \/ UNCHANGED vars
  BY <1>6 DEF HandleReady, Respond, vars
<1>. QED BY <1>1, <1>2, <1>3, <1>4, <1>5, <1>6 DEF Next

\* Once the process serves and nothing is pending, every provider has been reached, also
\* the one whose retry has not returned yet.
LEMMA NonePending ==
    ASSUME ManagerInv, stage # "providers", pending = {}
    PROVE  Names \subseteq pinged
<1>1. byName = Names
  <2>1. byName = Initialized /\ next - 1 = Len(Declared)
    BY DeclaredFacts DEF ManagerInv, StageInv
  <2>. QED BY <2>1 DEF Initialized, Names
<1>2. loop \in Between \cup {"callback"}
  BY DEF ManagerInv, RetryInv, Between
<1>3. attempt \in pinged \cup {Nobody}
  BY <1>2 DEF ManagerInv, RetryInv, Between
<1>. QED BY <1>1, <1>3, DeclaredFacts DEF ManagerInv, RetryInv, Settled

LEMMA NextReady == ASSUME ServiceInv, [Next]_vars PROVE ReadyInv'
<1>. USE DEF ServiceInv, ReadyInv
<1>1. stage # "providers" => stage' # "providers"
  <2>1. CASE Prepare \/ Signal \/ Stop
    BY <2>1 DEF Prepare, Signal, Stop
  <2>2. CASE Initialize \/ Retrying \/ Leaving \/ Ticking \/ HandleReady \/ Respond \/ UNCHANGED vars
    BY <2>2 DEF Initialize, Retrying, Leaving, Ticking, Others, HandleReady, Respond, vars
  <2>3. ASSUME NEW p \in Names, Refresh(p) \/ RunChecker(p) \/ Outage(p) PROVE UNCHANGED stage
    BY <2>3 DEF Refresh, RunChecker, Outage
  <2>4. ASSUME NEW a \in Addresses, Move(a) PROVE UNCHANGED stage
    BY <2>4 DEF Move
  <2>. QED BY <2>1, <2>2, <2>3, <2>4 DEF Next
<1>2. CASE UNCHANGED <<request, asked, healthy, answer>>
  BY <1>1, <1>2, PingedGrows DEF ReadyIsHonest
<1>3. CASE HandleReady
  BY <1>3 DEF HandleReady, ReadyIsHonest, ManagerInv, RetryInv
<1>4. ASSUME NEW p \in Names, RunChecker(p) PROVE ReadyInv'
  BY <1>4 DEF RunChecker, ReadyIsHonest
<1>5. CASE Respond
  <2>1. answer' = "ready" => pending = {} /\ stage # "providers"
    BY <1>5 DEF Respond
  <2>2. ReadyIsHonest'
    BY <1>5, <2>1, NonePending DEF Respond, ReadyIsHonest
  <2>. QED BY <1>5, <2>2 DEF Respond
<1>6. ASSUME Initialize \/ Prepare \/ Signal \/ Stop \/ Retrying \/ Leaving \/ Ticking \/ UNCHANGED vars
      PROVE  UNCHANGED <<request, asked, healthy, answer>>
  BY <1>6 DEF Initialize, Prepare, Signal, Stop, Retrying, Leaving, Ticking, Others, vars
<1>7. ASSUME NEW p \in Names, Refresh(p) \/ Outage(p)
      PROVE  UNCHANGED <<request, asked, healthy, answer>>
  BY <1>7 DEF Refresh, Outage
<1>8. ASSUME NEW a \in Addresses, Move(a) PROVE UNCHANGED <<request, asked, healthy, answer>>
  BY <1>8 DEF Move
<1>. QED BY <1>2, <1>3, <1>4, <1>5, <1>6, <1>7, <1>8 DEF Next

LEMMA NextService == ASSUME ServiceInv, [Next]_vars PROVE ServiceInv'
  BY NextManager, NextRunType, NextTargetType, NextReady DEF ServiceInv

-----------------------------------------------------------------------------
(* The theorems.  Fairness plays no part in them. *)

LEMMA Always == Spec => []ServiceInv
<1>1. Init => ServiceInv
  BY InitService
<1>2. ServiceInv /\ [Next]_vars => ServiceInv'
  BY NextService
<1>. QED BY <1>1, <1>2, PTL DEF Spec

\* Every variable of the process around the provider manager has its type; the backoff of
\* a pending provider stays within MaxRetryInterval and no other provider has one.
THEOREM ServiceTypes == Spec => []TypeOK
<1>1. ServiceInv => TypeOK
  <2>. SUFFICES ASSUME ServiceInv PROVE TypeOK
    OBVIOUS
  <2>1. attempt \in Names \cup {Nobody}
    BY DEF ServiceInv, ManagerInv, RetryInv, QueueInv, ListInv, Between, Trying
  <2>. QED BY <2>1 DEF ServiceInv, ManagerInv, RunType, TargetType, ReadyInv, QueueInv, ListInv,
                       RetryInv, StageInv, OrderInv, Between, Trying, TypeOK
<1>. QED BY <1>1, Always, PTL

\* Whatever fails when, every configured provider that run has come to is registered or
\* pending and never lost, only the one under retry is both, and the list and the index of
\* the registry agree (InitializeProvider, retryProvider, CreateInstance, Remove).
THEOREM NoProviderLost == Spec => []PendingOrReady
<1>1. ServiceInv => PendingOrReady
  <2>. SUFFICES ASSUME ServiceInv PROVE PendingOrReady
    OBVIOUS
  <2>1. {instances[i] : i \in 1..Len(instances)} = byName
    BY DEF ServiceInv, ManagerInv, ListInv
  <2>. QED BY <2>1 DEF ServiceInv, ManagerInv, ListInv, RetryInv, StageInv, PendingOrReady
<1>. QED BY <1>1, Always, PTL

\* For any list of providers, two registered ones are out of the order of the
\* configuration only if the one that should come first was pending at the start.
THEOREM OrderOfRegistry == Spec => []OrderKept
<1>1. ServiceInv => OrderKept
  BY DEF ServiceInv, ManagerInv, OrderInv
<1>. QED BY <1>1, Always, PTL

\* /ready answers "ready" only after every configured provider has been reached, although
\* checkers and pending providers are read at different times (handleReady).
THEOREM ReadyHonesty == Spec => []ReadyIsHonest
<1>1. ServiceInv => ReadyIsHonest
  BY DEF ServiceInv, ReadyInv
<1>. QED BY <1>1, Always, PTL
=============================================================================
