------------------------------- MODULE Service -------------------------------
(***************************************************************************)
(* The process around the provider manager: run of cmd/dnsweaver starts    *)
(* the providers in the order of the configuration, recovers ownership,    *)
(* builds the target refreshers, registers health checkers and starts the  *)
(* retry loop; the health server (internal/health) answers /ready from     *)
(* several reads; the refreshers (internal/target) follow an address that  *)
(* changes; the shutdown waits for the retry loop.                         *)
(***************************************************************************)
EXTENDS ProviderManager

CONSTANTS Dynamic,        \* providers with a TARGET_MODE
          Addresses, Literal,
          Endpoints,      \* how many public-address endpoints there are
          MaxOutages,     \* bound: backends that go down or come up
          MaxMoves,       \* bound: changes of the host's address
          MaxBadReplies   \* bound: attempts to resolve in which an endpoint misbehaves

ASSUME ServiceAssumption ==
  /\ Dynamic \subseteq Names /\ Literal \notin Addresses /\ Addresses # {}
  /\ Endpoints \in Nat \ {0}
  /\ MaxOutages \in Nat /\ MaxMoves \in Nat /\ MaxBadReplies \in Nat

VARIABLES
  stage, next,        \* where run is; the provider it initializes next
  recovered,          \* providers whose ownership records were read
  refreshers,         \* providers with a target refresher
  address,            \* the host's address
  lastGood, target,   \* Refresher.lastGood; ProviderInstance.EffectiveTarget
  request, asked, healthy, answer,   \* a request to /ready
  shuttingDown,
  early,              \* history: providers that were ready when the process began to serve
  outages, moves, bad

manager == <<registry, queue, tick, retry, ctxDone, checkers, pinged>>
main == <<stage, next, recovered, refreshers, shuttingDown, early>>
targets == <<address, lastGood, target, moves, bad>>
ready == <<request, asked, healthy, answer>>
vars == <<up, byName, instances, pending, interval, wait, tick, loop, toRetry, attempt, ctxDone,
          checkers, pinged, stage, next, recovered, refreshers, shuttingDown, early, address, lastGood,
          target, moves, bad, request, asked, healthy, answer, outages>>

-----------------------------------------------------------------------------
(* initializeProviders: one after the other.                               *)
Initialize ==
  /\ stage = "providers" /\ next <= Len(Declared)
  /\ InitializeProvider(Declared[next])
  /\ next' = next + 1
  /\ UNCHANGED <<up, stage, recovered, refreshers, shuttingDown, early, targets, ready, outages>>

(* RecoverOwnership asks the providers that are registered now, and only   *)
(* those with a target mode get a refresher; then run registers the health *)
(* checkers of the same providers and starts the manager.                  *)
RecoverOwnership == recovered' = {p \in byName : up[p]}
BuildTargetRefreshers == refreshers' = Dynamic \cap byName
Prepare ==
  /\ stage = "providers" /\ next > Len(Declared)
  /\ RecoverOwnership /\ BuildTargetRefreshers
  /\ checkers' = byName /\ early' = byName
  /\ loop' = "select"
  /\ stage' = "serving"
  /\ UNCHANGED <<up, registry, queue, tick, toRetry, attempt, ctxDone, pinged, next, shuttingDown,
                 targets, ready, outages>>

(* A signal: readiness ends, the context is cancelled, and the deferred    *)
(* Stop of the manager waits for its loop.                                 *)
Signal ==
  /\ stage = "serving"
  /\ stage' = "stopping" /\ shuttingDown' = TRUE /\ ctxDone' = TRUE
  /\ UNCHANGED <<up, registry, queue, tick, retry, checkers, pinged, next, recovered, refreshers, early,
                 targets, ready, outages>>
Stop ==
  /\ stage = "stopping" /\ loop = "left"
  /\ stage' = "stopped"
  /\ UNCHANGED <<up, manager, next, recovered, refreshers, shuttingDown, early, targets, ready, outages>>

-----------------------------------------------------------------------------
(* PublicResolver.query: what an endpoint replies, and Resolve: the first  *)
(* endpoint with an address of the right family.                           *)
Replies == {"unreachable", "status", "noAddress", "otherFamily", "address"}
Query(reply) == reply = "address"
Resolved(replies) == \E i \in 1..Endpoints : Query(replies[i])

(* resolveOnce: an error keeps the last good value; a change is handed to  *)
(* the provider instance (and triggers a cycle). Fault: the comparison    *)
(* comes after the assignment.                                             *)
ResolveOnceLate(p, replies) ==
  /\ lastGood' = [lastGood EXCEPT ![p] = IF Resolved(replies) THEN address ELSE @]
  /\ target' = target
ResolveOnce(p, replies) ==
  IF Resolved(replies) /\ lastGood[p] # address
  THEN /\ lastGood' = [lastGood EXCEPT ![p] = address]
       /\ target' = [target EXCEPT ![p] = address]
  ELSE UNCHANGED <<lastGood, target>>

Refresh(p) ==
  /\ stage = "serving" /\ p \in refreshers
  /\ \E replies \in [1..Endpoints -> Replies] :
       /\ bad' = IF \A i \in 1..Endpoints : Query(replies[i]) THEN bad ELSE bad + 1
       /\ bad' <= MaxBadReplies
       /\ ResolveOnce(p, replies)
  /\ UNCHANGED <<up, manager, main, address, moves, ready, outages>>

-----------------------------------------------------------------------------
(* handleReady: the checkers are copied, run one after the other, and the  *)
(* manager is asked for pending providers at the end.                      *)
HandleReady ==
  /\ stage \in {"serving", "stopping"} /\ request = "none"
  /\ IF shuttingDown
     THEN answer' = "shutting_down" /\ UNCHANGED <<request, asked, healthy>>
     ELSE /\ request' = "checking" /\ asked' = checkers /\ healthy' = TRUE
          /\ answer' = "none"
  /\ UNCHANGED <<up, manager, main, targets, outages>>
RunChecker(p) ==
  /\ request = "checking" /\ p \in asked
  /\ asked' = asked \ {p} /\ healthy' = (healthy /\ up[p])
  /\ UNCHANGED <<up, manager, main, targets, request, answer, outages>>
\* Fault: the degraded checkers are not asked.
RespondHealthy ==
  /\ request = "checking" /\ asked = {}
  /\ answer' = IF healthy THEN "ready" ELSE "not_ready"
  /\ request' = "none" /\ healthy' = TRUE
  /\ UNCHANGED <<up, manager, main, targets, asked, outages>>
Respond ==
  /\ request = "checking" /\ asked = {}
  /\ answer' = IF ~healthy THEN "not_ready" ELSE IF pending # {} THEN "degraded" ELSE "ready"
  /\ request' = "none" /\ healthy' = TRUE
  /\ UNCHANGED <<up, manager, main, targets, asked, outages>>

-----------------------------------------------------------------------------
Outage(p) ==
  /\ outages < MaxOutages
  /\ outages' = outages + 1
  /\ up' = [up EXCEPT ![p] = ~@]
  /\ UNCHANGED <<manager, main, targets, ready>>
Move(a) ==
  /\ moves < MaxMoves /\ a # address
  /\ moves' = moves + 1 /\ address' = a
  /\ UNCHANGED <<up, manager, main, lastGood, target, bad, ready, outages>>

Init ==
  /\ ManagerInit
  /\ up \in [Names -> BOOLEAN]
  /\ stage = "providers" /\ next = 1 /\ recovered = {} /\ refreshers = {} /\ shuttingDown = FALSE
  /\ early = {}
  /\ address \in Addresses /\ moves = 0 /\ bad = 0 /\ outages = 0
  /\ lastGood = [p \in Names |-> Literal] /\ target = [p \in Names |-> Literal]
  /\ request = "none" /\ asked = {} /\ healthy = TRUE /\ answer = "none"

Others == <<up, main, targets, ready, outages>>
Retrying == RetryLoop /\ UNCHANGED Others
Leaving == LeaveLoop /\ UNCHANGED Others
Ticking == Second /\ UNCHANGED Others

Next ==
  \/ Initialize \/ Prepare \/ Signal \/ Stop
  \/ Retrying \/ Leaving \/ Ticking
  \/ \E p \in Names : Refresh(p) \/ RunChecker(p) \/ Outage(p)
  \/ HandleReady \/ Respond
  \/ \E a \in Addresses : Move(a)

(* The main goroutine, the retry loop, its ticker and the refreshers go on *)
(* as long as they can; select takes a channel that stays ready in the end.*)
Spec == /\ Init /\ [][Next]_vars
        /\ WF_vars(Initialize) /\ WF_vars(Prepare) /\ WF_vars(Stop)
        /\ WF_vars(Retrying) /\ WF_vars(Ticking) /\ SF_vars(Leaving)
        /\ \A p \in Names : WF_vars(Refresh(p))

-----------------------------------------------------------------------------
(* Type invariant; the backoff never exceeds MaxRetryInterval, and only    *)
(* pending providers have one (RetryInterval, NextRetryAt).                *)
TypeOK ==
  /\ up \in [Names -> BOOLEAN]
  /\ byName \subseteq Names /\ instances \in Seq(Names) /\ pending \subseteq Names
  /\ interval \in [Names -> 0..MaxRetryInterval] /\ wait \in [Names -> 0..MaxRetryInterval]
  /\ \A p \in Names : (p \in pending <=> interval[p] > 0) /\ wait[p] <= interval[p]
  /\ tick \in BOOLEAN /\ toRetry \subseteq Names /\ attempt \in Names \cup {Nobody}
  /\ loop \in {"off", "select", "create", "ping", "remove", "failed", "recovered", "callback", "left"}
  /\ ctxDone \in BOOLEAN /\ checkers \subseteq Names /\ pinged \subseteq Names
  /\ stage \in {"providers", "serving", "stopping", "stopped"} /\ next \in 1..Len(Declared) + 1
  /\ recovered \subseteq Names /\ refreshers \subseteq Names /\ shuttingDown \in BOOLEAN
  /\ early \subseteq Names
  /\ address \in Addresses
  /\ lastGood \in [Names -> Addresses \cup {Literal}] /\ target \in [Names -> Addresses \cup {Literal}]
  /\ request \in {"none", "checking"} /\ asked \subseteq Names /\ healthy \in BOOLEAN
  /\ answer \in {"none", "shutting_down", "not_ready", "degraded", "ready"}
  /\ outages \in 0..MaxOutages /\ moves \in 0..MaxMoves /\ bad \in 0..MaxBadReplies

(* No provider is lost and none is kept twice: an initialized provider is  *)
(* pending or registered, and both only while retryProvider works on it;   *)
(* the list and the index of the registry agree; and a provider that is    *)
(* no longer pending has answered a ping and, once its retry is over, has  *)
(* a health checker.                                                       *)
Initialized == {Declared[i] : i \in 1..next - 1}
Settled == byName \ {attempt}
PendingOrReady ==
  /\ byName \cup pending = Initialized
  /\ byName \cap pending \subseteq {attempt}
  /\ toRetry \subseteq pending
  /\ Settled \subseteq pinged
  /\ stage # "providers" => Settled \subseteq checkers
  /\ {instances[i] : i \in 1..Len(instances)} = byName /\ Len(instances) = Cardinality(byName)

(* First match wins: two registered providers are out of the order of      *)
(* DNSWEAVER_INSTANCES only if the one that should come first was pending  *)
(* when the process started.                                               *)
OrderKept ==
  \A i, j \in 1..Len(instances), m, n \in 1..Len(Declared) :
    i < j /\ instances[i] = Declared[n] /\ instances[j] = Declared[m] /\ m < n
      => stage # "providers" /\ Declared[m] \notin early

(* "ready" is only answered when every configured provider has been        *)
(* reached: the answer is put together from reads at different times, while*)
(* the retry loop moves providers.                                         *)
ReadyIsHonest == answer = "ready" => Names \subseteq pinged

(* A provider whose backend answers for good is in the end registered and  *)
(* no longer pending, unless the process stops.                            *)
Recovers == \A p \in Names :
              (<>[](up[p] /\ stage = "serving")) => <>[](p \in byName /\ p \notin pending)

(* A refreshed target follows the host's address.                          *)
TargetFollows == \A p \in Names :
                   (<>[](stage = "serving" /\ p \in refreshers)) => <>[](target[p] = address)

(* The shutdown ends although the retry loop may be in the middle of a     *)
(* round.                                                                  *)
ShutdownEnds == stage = "stopping" ~> stage = "stopped"

-----------------------------------------------------------------------------
(* "The order matches the priority order from DNSWEAVER_INSTANCES." Not so *)
(* for a provider that was pending: it is appended when it recovers.       *)
DeclaredOrder ==
  \A i, j \in 1..Len(instances), m, n \in 1..Len(Declared) :
    i < j /\ instances[i] = Declared[m] /\ instances[j] = Declared[n] => m < n

(* What a provider held before the restart is recovered. Not so for one    *)
(* that was pending: RecoverOwnership runs once.                           *)
AllRecovered == stage = "serving" => Settled \subseteq recovered

(* A provider with a target mode follows the address. Not so for one that  *)
(* was pending when the refreshers were built.                             *)
DynamicFollows == \A p \in Dynamic :
                    (<>[](stage = "serving" /\ p \in Settled)) => <>[](target[p] = address)
=============================================================================
