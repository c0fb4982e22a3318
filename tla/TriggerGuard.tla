---------------------------- MODULE TriggerGuard ----------------------------
(***************************************************************************)
(* What starts reconciliations, and how the process stops: the watchers    *)
(* with their debounce timers, the pollers, the periodic timer, the guard  *)
(* around Reconcile (triggerReconcile of cmd/dnsweaver/main.go) and the    *)
(* shutdown sequence of run.                                               *)
(*                                                                         *)
(* A cycle itself is two steps here: it lists what the sources have, then  *)
(* it writes (module Reconciler models what it writes).                    *)
(***************************************************************************)
EXTENDS Integers, FiniteSets

CONSTANTS
    Watchers,   \* event watchers with a debounce timer: Docker, Kubernetes, Incus
    Pollers,    \* loops that call the trigger themselves: files, dynamic targets
    Callbacks,  \* goroutines that run the callbacks of fired debounce timers
    Main, Ticker, Nobody,
    MaxChanges, MaxStreamErrors, MaxListErrors

ASSUME GuardAssumption ==
    /\ Main # Ticker
    /\ Watchers \cap Pollers = {}
    /\ {Main, Ticker} \cap (Pollers \cup Callbacks) = {}
    /\ Pollers \cap Callbacks = {}
    /\ Nobody \notin {Main, Ticker} \cup Pollers \cup Callbacks \cup Watchers

ASSUME GuardBounds ==
    MaxChanges \in Nat /\ MaxStreamErrors \in Nat /\ MaxListErrors \in Nat

Sources == Watchers \cup Pollers
Threads == {Main, Ticker} \cup Pollers \cup Callbacks

VARIABLES
    version,    \* version[s]: how often what source s offers has changed
    covered,    \* covered[s]: the version the latest listing saw
    told,       \* told[p]: the version poller p compares with (lastSeen, lastGood)
    alive,      \* alive[s]: the goroutine of s runs
    stopped,    \* stopped[s]: Stop of s was called
    stream,     \* stream[w]: the event stream of w is connected
    inbox,      \* inbox[w]: events that w has not handled yet
    timer,      \* timer[w]: the debounce timer of w is armed
    mu,         \* holder of reconcileMu
    pending,    \* reconcilePending
    inflight,   \* counter of reconcileWg
    at,         \* at[t]: where goroutine t is in triggerReconcile
    again,      \* again[t]: t is in its catch-up pass
    stage,      \* where run is
    starting,   \* the source run is starting
    ctxDone,    \* the context of run is cancelled
    cut,        \* history: a cycle ended after its context was cancelled
    errors      \* listing and stream errors that may still happen

guard == <<mu, pending, inflight, at, again>>
events == <<stream, inbox, timer>>
run == <<stage, starting, ctxDone>>
vars == <<version, covered, told, alive, stopped, stream, inbox, timer, mu, pending,
          inflight, at, again, stage, starting, ctxDone, cut, errors>>

-----------------------------------------------------------------------------
(* triggerReconcile. *)

Call(t) == at[t] = "away" /\ at' = [at EXCEPT ![t] = "enter"]

\* Fault: the lock is not looked at.
TryLockBlindly(t) ==
    /\ at[t] = "enter"
    /\ mu' = t
    /\ at' = [at EXCEPT ![t] = "count"]
    /\ UNCHANGED <<version, covered, told, alive, stopped, events, pending, inflight, again,
                   run, cut, errors>>

TryLock(t) ==
    /\ at[t] = "enter"
    /\ mu' = IF mu = Nobody THEN t ELSE mu
    /\ at' = [at EXCEPT ![t] = IF mu = Nobody THEN "count" ELSE "mark"]
    /\ UNCHANGED <<version, covered, told, alive, stopped, events, pending, inflight, again,
                   run, cut, errors>>

MarkPending(t) ==
    /\ at[t] = "mark"
    /\ pending' = TRUE
    /\ at' = [at EXCEPT ![t] = "away"]
    /\ UNCHANGED <<version, covered, told, alive, stopped, events, mu, inflight, again, run,
                   cut, errors>>

Count(t) ==
    /\ at[t] = "count"
    /\ inflight' = inflight + 1
    /\ at' = [at EXCEPT ![t] = "list"]
    /\ UNCHANGED <<version, covered, told, alive, stopped, events, mu, pending, again, run,
                   cut, errors>>

AfterPass(t) == IF again[t] THEN "release" ELSE "check"

\* The first half of Reconcile: list what the sources have.  An error ends the cycle.  A
\* cancelled context makes every lister that calls an API fail.
List(t) ==
    /\ at[t] = "list"
    /\ \/ /\ covered' = version
          /\ at' = [at EXCEPT ![t] = "write"]
          /\ UNCHANGED errors
       \/ /\ ctxDone
          /\ at' = [at EXCEPT ![t] = AfterPass(t)]
          /\ UNCHANGED <<covered, errors>>
       \/ /\ errors.list > 0
          /\ errors' = [errors EXCEPT !.list = @ - 1]
          /\ at' = [at EXCEPT ![t] = AfterPass(t)]
          /\ UNCHANGED covered
    /\ UNCHANGED <<version, told, alive, stopped, events, mu, pending, inflight, again, run, cut>>

\* The rest of Reconcile.  Its calls fail once the context is cancelled.
Write(t) ==
    /\ at[t] = "write"
    /\ cut' = (cut \/ ctxDone)
    /\ at' = [at EXCEPT ![t] = AfterPass(t)]
    /\ UNCHANGED <<version, covered, told, alive, stopped, events, mu, pending, inflight,
                   again, run, errors>>

\* The compare-and-swap after the first pass.
CheckPending(t) ==
    /\ at[t] = "check"
    /\ pending' = FALSE
    /\ again' = [again EXCEPT ![t] = pending]
    /\ at' = [at EXCEPT ![t] = IF pending THEN "list" ELSE "release"]
    /\ UNCHANGED <<version, covered, told, alive, stopped, events, mu, inflight, run, cut, errors>>

\* The deferred function: Done, then Unlock.
Release(t) ==
    /\ at[t] = "release"
    /\ inflight' = inflight - 1
    /\ again' = [again EXCEPT ![t] = FALSE]
    /\ at' = [at EXCEPT ![t] = "unlock"]
    /\ UNCHANGED <<version, covered, told, alive, stopped, events, mu, pending, run, cut, errors>>

\* Fault: the mutex stays locked.
UnlockNever(t) ==
    /\ at[t] = "unlock"
    /\ at' = [at EXCEPT ![t] = "away"]
    /\ UNCHANGED <<version, covered, told, alive, stopped, events, mu, pending, inflight,
                   again, run, cut, errors>>

Unlock(t) ==
    /\ at[t] = "unlock"
    /\ mu' = Nobody
    /\ at' = [at EXCEPT ![t] = "away"]
    /\ UNCHANGED <<version, covered, told, alive, stopped, events, pending, inflight, again,
                   run, cut, errors>>

Trigger(t) == \/ TryLock(t) \/ MarkPending(t) \/ Count(t) \/ List(t) \/ Write(t)
              \/ CheckPending(t) \/ Release(t) \/ Unlock(t)

-----------------------------------------------------------------------------
(* The event watchers: watchLoop, handleEvent, the debounce timer. *)

\* A lost connection drops the events in flight, and those until the reconnection.
StreamError(w) ==
    /\ alive[w]
    /\ stream[w]
    /\ errors.stream > 0
    /\ errors' = [errors EXCEPT !.stream = @ - 1]
    /\ stream' = [stream EXCEPT ![w] = FALSE]
    /\ inbox' = [inbox EXCEPT ![w] = 0]
    /\ UNCHANGED <<version, covered, told, alive, stopped, timer, guard, run, cut>>

\* Nothing is triggered on reconnection.
Reconnect(w) ==
    /\ alive[w]
    /\ ~stream[w]
    /\ ~stopped[w]
    /\ stream' = [stream EXCEPT ![w] = TRUE]
    /\ UNCHANGED <<version, covered, told, alive, stopped, inbox, timer, guard, run, cut, errors>>

\* Fault: what a channel without an event yields counts as one.
HandleEventUnready(w) ==
    /\ alive[w]
    /\ inbox' = [inbox EXCEPT ![w] = @ - 1]
    /\ timer' = [timer EXCEPT ![w] = TRUE]
    /\ UNCHANGED <<version, covered, told, alive, stopped, stream, guard, run, cut, errors>>

\* Every event starts the timer anew.  An event that is ready may be chosen over the
\* cancelled context, also after Stop.
HandleEvent(w) ==
    /\ alive[w]
    /\ inbox[w] > 0
    /\ inbox' = [inbox EXCEPT ![w] = @ - 1]
    /\ timer' = [timer EXCEPT ![w] = TRUE]
    /\ UNCHANGED <<version, covered, told, alive, stopped, stream, guard, run, cut, errors>>

\* The timer runs its function in a goroutine of its own; Stop does not reach that.
Fire(w, c) ==
    /\ timer[w]
    /\ timer' = [timer EXCEPT ![w] = FALSE]
    /\ Call(c)
    /\ UNCHANGED <<version, covered, told, alive, stopped, stream, inbox, mu, pending,
                   inflight, again, run, cut, errors>>

(* The pollers (pollLoop and pollAll, loop and resolveOnce): compare with what was seen
   last and call the trigger from the polling goroutine.                               *)
Poll(p) ==
    /\ alive[p]
    /\ told[p] # version[p]
    /\ told' = [told EXCEPT ![p] = version[p]]
    /\ Call(p)
    /\ UNCHANGED <<version, covered, alive, stopped, events, mu, pending, inflight, again,
                   run, cut, errors>>

\* The goroutine of a source sees that its context is cancelled.
Leave(s) ==
    /\ alive[s]
    /\ stopped[s] \/ ctxDone
    /\ s \in Pollers => at[s] = "away"
    /\ alive' = [alive EXCEPT ![s] = FALSE]
    /\ UNCHANGED <<version, covered, told, stopped, events, guard, run, cut, errors>>

\* What a source offers changes; a connected event stream tells.
Change(s) ==
    /\ version[s] < MaxChanges
    /\ version' = [version EXCEPT ![s] = @ + 1]
    /\ inbox' = IF s \in Watchers /\ alive[s] /\ stream[s]
                THEN [inbox EXCEPT ![s] = @ + 1] ELSE inbox
    /\ UNCHANGED <<covered, told, alive, stopped, stream, timer, guard, run, cut, errors>>

-----------------------------------------------------------------------------
(* The periodic timer and the life of run. *)

Serving == stage \notin {"start", "initial"}

\* The select may prefer the tick to a cancelled context.
Tick ==
    /\ Serving
    /\ Call(Ticker)
    /\ UNCHANGED <<version, covered, told, alive, stopped, events, mu, pending, inflight,
                   again, run, cut, errors>>

\* Fault: the ticker goroutine goes on until everything else has stopped.
TickerLeavesLast ==
    /\ stage = "waiting"
    /\ at[Ticker] = "away"
    /\ at' = [at EXCEPT ![Ticker] = "gone"]
    /\ UNCHANGED <<version, covered, told, alive, stopped, events, mu, pending, inflight,
                   again, run, cut, errors>>

\* The ticker goroutine sees the cancelled context.
TickerLeaves ==
    /\ Serving
    /\ ctxDone
    /\ at[Ticker] = "away"
    /\ at' = [at EXCEPT ![Ticker] = "gone"]
    /\ UNCHANGED <<version, covered, told, alive, stopped, events, mu, pending, inflight,
                   again, run, cut, errors>>

\* Start of a source.  The first poll happens inside it, on the main goroutine, and calls
\* the trigger if there is anything.
StartSource(s) ==
    /\ stage = "start"
    /\ starting = Nobody
    /\ at[Main] = "away"
    /\ ~alive[s]
    /\ s \in Pollers => \A w \in Watchers : alive[w]
    /\ starting' = s
    /\ \/ s \in Watchers /\ UNCHANGED <<at, told>>
       \/ /\ s \in Pollers
          /\ told' = [told EXCEPT ![s] = version[s]]
          /\ at' = IF version[s] # 0 THEN [at EXCEPT ![Main] = "enter"] ELSE at
    /\ UNCHANGED <<version, covered, alive, stopped, events, mu, pending, inflight, again,
                   stage, ctxDone, cut, errors>>

\* Start returns and its goroutine runs.
SourceStarted ==
    /\ starting # Nobody
    /\ at[Main] = "away"
    /\ alive' = [alive EXCEPT ![starting] = TRUE]
    /\ stream' = IF starting \in Watchers THEN [stream EXCEPT ![starting] = TRUE] ELSE stream
    /\ starting' = Nobody
    /\ UNCHANGED <<version, covered, told, stopped, inbox, timer, guard, stage, ctxDone, cut,
                   errors>>

InitialTrigger ==
    /\ stage = "start"
    /\ starting = Nobody
    /\ \A s \in Sources : alive[s]
    /\ stage' = "initial"
    /\ Call(Main)
    /\ UNCHANGED <<version, covered, told, alive, stopped, events, mu, pending, inflight,
                   again, starting, ctxDone, cut, errors>>

Serve ==
    /\ stage = "initial"
    /\ at[Main] = "away"
    /\ stage' = "serving"
    /\ UNCHANGED <<version, covered, told, alive, stopped, events, guard, starting, ctxDone,
                   cut, errors>>

Signal ==
    /\ stage = "serving"
    /\ stage' = "stopping"
    /\ UNCHANGED <<version, covered, told, alive, stopped, events, guard, starting, ctxDone,
                   cut, errors>>

StopSource(s) ==
    /\ stage = "stopping"
    /\ ~stopped[s]
    /\ s \in Pollers => \A w \in Watchers : stopped[w]
    /\ stopped' = [stopped EXCEPT ![s] = TRUE]
    /\ timer' = IF s \in Watchers THEN [timer EXCEPT ![s] = FALSE] ELSE timer
    /\ UNCHANGED <<version, covered, told, alive, stream, inbox, guard, run, cut, errors>>

Cancel ==
    /\ stage = "stopping"
    /\ \A s \in Sources : stopped[s]
    /\ ctxDone' = TRUE
    /\ stage' = "joining"
    /\ UNCHANGED <<version, covered, told, alive, stopped, events, guard, starting, cut, errors>>

\* Fault: the ticker goroutine is not waited for.
JoinAtOnce ==
    /\ stage = "joining"
    /\ stage' = "waiting"
    /\ UNCHANGED <<version, covered, told, alive, stopped, events, guard, starting, ctxDone,
                   cut, errors>>

\* wg.Wait returns when the ticker goroutine is gone.
Join ==
    /\ stage = "joining"
    /\ at[Ticker] = "gone"
    /\ stage' = "waiting"
    /\ UNCHANGED <<version, covered, told, alive, stopped, events, guard, starting, ctxDone,
                   cut, errors>>

\* The select on reconcileDone and the shutdown timeout.
Waited ==
    /\ stage = "waiting"
    /\ \/ inflight = 0 /\ stage' = "completed"
       \/ inflight # 0 /\ stage' = "timedout"
    /\ UNCHANGED <<version, covered, told, alive, stopped, events, guard, starting, ctxDone,
                   cut, errors>>

\* The health server is shut down and the process ends.
Exit ==
    /\ stage \in {"completed", "timedout"}
    /\ stage' = "exited"
    /\ UNCHANGED <<version, covered, told, alive, stopped, events, guard, starting, ctxDone,
                   cut, errors>>

RunSteps ==
    \/ \E s \in Sources : StartSource(s) \/ StopSource(s)
    \/ SourceStarted
    \/ InitialTrigger
    \/ Serve
    \/ Cancel
    \/ Join
    \/ Waited
    \/ Exit

-----------------------------------------------------------------------------
Init ==
    /\ version = [s \in Sources |-> 0]
    /\ covered = [s \in Sources |-> 0]
    /\ told = [p \in Pollers |-> 0]
    /\ alive = [s \in Sources |-> FALSE]
    /\ stopped = [s \in Sources |-> FALSE]
    /\ stream = [w \in Watchers |-> FALSE]
    /\ inbox = [w \in Watchers |-> 0]
    /\ timer = [w \in Watchers |-> FALSE]
    /\ mu = Nobody
    /\ pending = FALSE
    /\ inflight = 0
    /\ at = [t \in Threads |-> "away"]
    /\ again = [t \in Threads |-> FALSE]
    /\ stage = "start"
    /\ starting = Nobody
    /\ ctxDone = FALSE
    /\ cut = FALSE
    /\ errors = [list |-> MaxListErrors, stream |-> MaxStreamErrors]

\* Nothing happens after the end of the process.
Next ==
    /\ stage # "exited"
    /\ \/ \E t \in Threads : Trigger(t)
       \/ \E w \in Watchers : \/ StreamError(w) \/ Reconnect(w) \/ HandleEvent(w)
                              \/ \E c \in Callbacks : Fire(w, c)
       \/ \E p \in Pollers : Poll(p)
       \/ \E s \in Sources : Leave(s) \/ Change(s)
       \/ Tick
       \/ TickerLeaves
       \/ Signal
       \/ RunSteps

Spec == Init /\ [][Next]_vars

\* Goroutines that can run do run, timers fire, and the ticker ticks.  Its select chooses
\* at random, so it does not prefer ticks to the cancelled context for ever.  Changes,
\* errors and the signal need not happen.
FairSpec ==
    /\ Spec
    /\ \A t \in Threads : WF_vars(stage # "exited" /\ Trigger(t))
    /\ \A w \in Watchers : /\ WF_vars(stage # "exited" /\ (Reconnect(w) \/ HandleEvent(w)))
                           /\ WF_vars(stage # "exited" /\ \E c \in Callbacks : Fire(w, c))
    /\ \A p \in Pollers : WF_vars(stage # "exited" /\ Poll(p))
    /\ WF_vars(stage # "exited" /\ Tick)
    /\ SF_vars(stage # "exited" /\ TickerLeaves)
    /\ WF_vars(stage # "exited" /\ RunSteps)

-----------------------------------------------------------------------------
(* Correctness. *)

Stages == {"start", "initial", "serving", "stopping", "joining", "waiting", "completed",
           "timedout", "exited"}
Holding == {"count", "list", "write", "check", "release", "unlock"}
Counted == {"list", "write", "check", "release"}

\* Every variable has its type.
TypeOK ==
    /\ version \in [Sources -> Nat]
    /\ covered \in [Sources -> Nat]
    /\ told \in [Pollers -> Nat]
    /\ alive \in [Sources -> BOOLEAN]
    /\ stopped \in [Sources -> BOOLEAN]
    /\ stream \in [Watchers -> BOOLEAN]
    /\ inbox \in [Watchers -> Nat]
    /\ timer \in [Watchers -> BOOLEAN]
    /\ mu \in Threads \cup {Nobody}
    /\ pending \in BOOLEAN
    /\ inflight \in Int
    /\ at \in [Threads -> Holding \cup {"away", "enter", "mark", "gone"}]
    /\ again \in [Threads -> BOOLEAN]
    /\ stage \in Stages
    /\ starting \in Sources \cup {Nobody}
    /\ ctxDone \in BOOLEAN
    /\ cut \in BOOLEAN
    /\ errors \in [list : Nat, stream : Nat]

\* Whatever triggers arrive, at most one goroutine is in a cycle: the one that holds
\* reconcileMu.  reconcileWg is one exactly while a cycle runs: it never becomes negative
\* (which would panic), and its Wait does not return while a counted cycle runs.
OneReconciliation ==
    /\ \A t \in Threads : at[t] \in Holding <=> mu = t
    /\ inflight = IF mu # Nobody /\ at[mu] \in Counted THEN 1 ELSE 0

\* Every change is eventually seen by a cycle unless the process stops first: the periodic
\* timer makes up for events lost with the stream, failed listings and lost triggers.
ChangesCovered == <>[](covered = version \/ stage = "stopping" \/ ctxDone)

\* A shutdown signal ends the process: neither a cycle under way nor the wait for the
\* ticker goroutine, which has no timeout, blocks it.
ShutdownCompletes == stage = "stopping" ~> stage = "exited"

\* Once the shutdown has joined the ticker goroutine, a cycle can only be run by a debounce
\* callback that Stop did not reach or by a poller that has not seen its cancelled context,
\* and all sources have been stopped: no periodic or initial cycle goes on behind the wait
\* for cycles in flight (wg.Wait and the stop sequence of run).
OnlyStraysLate ==
    stage \in {"waiting", "completed", "timedout", "exited"} =>
        /\ ctxDone /\ \A s \in Sources : stopped[s]
        /\ at[Main] = "away" /\ at[Ticker] = "gone"
        /\ mu # Nobody => mu \in Callbacks \cup Pollers

\* A trigger that was skipped while a cycle ran is made up for by that run: when nobody is
\* in triggerReconcile any more, none is pending.
PendingServed == (\A t \in Threads : at[t] \in {"away", "gone"}) => ~pending

\* Once the watchers are stopped and the wait for cycles in flight is over, no cycle runs.
NoCycleAfterWait == stage = "completed" => \A t \in Threads : at[t] \notin {"list", "write"}

\* The shutdown lets a cycle in flight complete with its context intact.
InflightUncut == ~cut
=============================================================================
