--------------------------- MODULE ProviderManager ---------------------------
(***************************************************************************)
(* The provider registry and the provider manager (pkg/provider): a        *)
(* provider that cannot be created or does not answer is kept as pending   *)
(* and retried with exponential backoff by a goroutine, while reconcile    *)
(* cycles and the health server read the registry. A retry registers the   *)
(* instance before it has pinged it, and takes it out again if the ping    *)
(* fails: those are separate steps, between which the others run.          *)
(*                                                                         *)
(* Service.tla composes this module with the rest of the process.          *)
(***************************************************************************)
EXTENDS Naturals, Sequences, FiniteSets

CONSTANTS Declared,       \* provider names in the order of DNSWEAVER_INSTANCES
          Nobody,
          InitialRetryInterval, MaxRetryInterval, RetryBackoffMultiplier

Names == {Declared[i] : i \in 1..Len(Declared)}

ASSUME ManagerAssumption ==
  /\ Declared \in Seq(Names)
  /\ \A i, j \in 1..Len(Declared) : Declared[i] = Declared[j] => i = j
  /\ Nobody \notin Names
  /\ InitialRetryInterval \in Nat \ {0} /\ MaxRetryInterval \in Nat \ {0}
  /\ InitialRetryInterval <= MaxRetryInterval
  /\ RetryBackoffMultiplier \in Nat \ {0}

VARIABLES
  up,         \* up[p]: the backend of p answers
  byName,     \* Registry.byName, its keys
  instances,  \* Registry.instances
  pending,    \* Manager.pending, its keys
  interval,   \* interval[p]: RetryInterval of a pending provider, else 0
  wait,       \* wait[p]: seconds until NextRetryAt
  tick,       \* the ticker's channel holds a tick
  loop,       \* where retryLoop is
  toRetry,    \* the pending providers that were due
  attempt,    \* the provider of the running retryProvider call
  ctxDone,    \* the context of run is cancelled
  checkers,   \* providers with a checker in the health server
  pinged      \* history: providers whose registered instance answered a ping

registry == <<byName, instances>>
queue == <<pending, interval, wait>>
retry == <<loop, toRetry, attempt>>

-----------------------------------------------------------------------------
(* Registry.CreateInstance, after the factory has made the provider, and   *)
(* Registry.Remove, which does not close the provider.                     *)
\* Fault: the latest provider comes first.
CreateInstanceFirst(p) == /\ p \notin byName
                          /\ byName' = byName \cup {p}
                          /\ instances' = <<p>> \o instances
CreateInstance(p) == /\ p \notin byName
                     /\ byName' = byName \cup {p}
                     /\ instances' = Append(instances, p)
Place(p) == CHOOSE i \in 1..Len(instances) : instances[i] = p
Without(p) == [k \in 1..Len(instances) - 1 |-> instances[IF k < Place(p) THEN k ELSE k + 1]]
Remove(p) == byName' = byName \ {p} /\ instances' = Without(p)

(* The factory and the ping: both may reach out to the backend. The ping   *)
(* of a retry ends with the context of run.                                *)
FactoryFails(p) == ~up[p]
Answers(p) == up[p] /\ ~ctxDone

(* The wait of a provider that failed once more, and the entry of one that *)
(* failed for the first time. Fault: no limit.                            *)
BackoffUnlimited(p) == interval[p] * RetryBackoffMultiplier
Backoff(p) == LET next == interval[p] * RetryBackoffMultiplier
              IN  IF next > MaxRetryInterval THEN MaxRetryInterval ELSE next

Enqueue(p) ==
  /\ pending' = pending \cup {p}
  /\ interval' = [interval EXCEPT ![p] = InitialRetryInterval]
  /\ wait' = [wait EXCEPT ![p] = InitialRetryInterval]

(* InitializeProvider: on the main goroutine, before any other runs. A     *)
(* provider that is created but does not answer is removed again.          *)
InitializeProvider(p) ==
  /\ \/ /\ CreateInstance(p) /\ up[p]
        /\ pinged' = pinged \cup {p}
        /\ UNCHANGED queue
     \/ ~up[p] /\ Enqueue(p) /\ UNCHANGED <<registry, pinged>>
  /\ UNCHANGED <<tick, retry, ctxDone, checkers>>

-----------------------------------------------------------------------------
(* A second passes: the ticker sends, unless its channel is full.          *)
Second ==
  /\ loop # "off"
  /\ ~tick \/ \E p \in pending : wait[p] > 0
  /\ tick' = TRUE
  /\ wait' = [p \in Names |-> IF wait[p] > 0 THEN wait[p] - 1 ELSE 0]
  /\ UNCHANGED <<registry, pending, interval, retry, ctxDone, checkers, pinged>>

(* retryPendingProviders: who is due, in no particular order.              *)
CollectDue ==
  /\ loop = "select" /\ tick
  /\ tick' = FALSE
  /\ toRetry' = {p \in pending : wait[p] = 0}
  /\ loop' = IF toRetry' = {} THEN "select" ELSE "create"
  /\ UNCHANGED <<registry, queue, attempt, ctxDone, checkers, pinged>>

(* retryProvider, step by step.                                            *)
NextRetry(rest) == IF rest = {} THEN "select" ELSE "create"

RetryCreate(p) ==
  /\ loop = "create" /\ p \in toRetry
  /\ attempt' = p /\ toRetry' = toRetry \ {p}
  /\ \/ CreateInstance(p) /\ loop' = "ping"
     \/ /\ p \in byName \/ FactoryFails(p)
        /\ loop' = "failed" /\ UNCHANGED registry
  /\ UNCHANGED <<queue, tick, ctxDone, checkers, pinged>>

RetryPing ==
  /\ loop = "ping"
  /\ \/ Answers(attempt) /\ loop' = "recovered" /\ pinged' = pinged \cup {attempt}
     \/ ~Answers(attempt) /\ loop' = "remove" /\ pinged' = pinged
  /\ UNCHANGED <<registry, queue, tick, toRetry, attempt, ctxDone, checkers>>

\* Fault: the instance stays registered.
RetryKeep ==
  /\ loop = "remove" /\ loop' = "failed"
  /\ UNCHANGED <<registry, queue, tick, toRetry, attempt, ctxDone, checkers, pinged>>
RetryRemove ==
  /\ loop = "remove" /\ loop' = "failed"
  /\ Remove(attempt)
  /\ UNCHANGED <<queue, tick, toRetry, attempt, ctxDone, checkers, pinged>>

RetryFailed ==
  /\ loop = "failed"
  /\ interval' = [interval EXCEPT ![attempt] = Backoff(attempt)]
  /\ wait' = [wait EXCEPT ![attempt] = Backoff(attempt)]
  /\ loop' = NextRetry(toRetry) /\ attempt' = Nobody
  /\ UNCHANGED <<registry, pending, tick, toRetry, ctxDone, checkers, pinged>>

RetryRecovered ==
  /\ loop = "recovered" /\ loop' = "callback"
  /\ pending' = pending \ {attempt}
  /\ interval' = [interval EXCEPT ![attempt] = 0]
  /\ wait' = [wait EXCEPT ![attempt] = 0]
  /\ UNCHANGED <<registry, tick, toRetry, attempt, ctxDone, checkers, pinged>>

(* OnProviderReady, which run sets: a health checker for the provider.     *)
\* Fault: the callback is not called.
ProviderReadyUntold ==
  /\ loop = "callback"
  /\ loop' = NextRetry(toRetry) /\ attempt' = Nobody
  /\ UNCHANGED <<registry, queue, tick, toRetry, ctxDone, checkers, pinged>>
OnProviderReady ==
  /\ loop = "callback"
  /\ checkers' = checkers \cup {attempt}
  /\ loop' = NextRetry(toRetry) /\ attempt' = Nobody
  /\ UNCHANGED <<registry, queue, tick, toRetry, ctxDone, pinged>>

(* retryLoop returns when it sees the cancelled context; Stop waits for it.*)
\* Fault: the loop first empties its queue.
LeaveLoopEmpty ==
  /\ loop = "select" /\ ctxDone /\ pending = {}
  /\ loop' = "left"
  /\ UNCHANGED <<registry, queue, tick, toRetry, attempt, ctxDone, checkers, pinged>>
LeaveLoop ==
  /\ loop = "select" /\ ctxDone
  /\ loop' = "left"
  /\ UNCHANGED <<registry, queue, tick, toRetry, attempt, ctxDone, checkers, pinged>>

RetryLoop == \/ CollectDue \/ (\E p \in Names : RetryCreate(p)) \/ RetryPing \/ RetryRemove
             \/ RetryFailed \/ RetryRecovered \/ OnProviderReady

ManagerInit ==
  /\ byName = {} /\ instances = <<>>
  /\ pending = {} /\ interval = [p \in Names |-> 0] /\ wait = [p \in Names |-> 0]
  /\ tick = FALSE /\ loop = "off" /\ toRetry = {} /\ attempt = Nobody
  /\ ctxDone = FALSE /\ checkers = {} /\ pinged = {}
=============================================================================
