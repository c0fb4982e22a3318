------------------------- MODULE TriggerGuardProofs -------------------------
(***************************************************************************)
(* Proofs about TriggerGuard, for any number of watchers, pollers and      *)
(* callback goroutines and any number of changes and errors.               *)
(***************************************************************************)
EXTENDS TriggerGuard, TLAPS

USE DEF guard, events, run

Inside == Holding \cup {"away", "enter", "mark", "gone"}

\* The part of TypeOK that the guard depends on.
GuardType ==
    /\ mu \in Threads \cup {Nobody}
    /\ inflight \in Int
    /\ at \in [Threads -> Inside]

GuardInv == GuardType /\ OneReconciliation

LEMMA ThreadsNamed == Main \in Threads /\ Ticker \in Threads /\ Nobody \notin Threads
                      /\ Pollers \subseteq Threads /\ Callbacks \subseteq Threads
  BY GuardAssumption DEF Threads

LEMMA InitGuard == Init => GuardInv
<1>1. Init => GuardType
  BY DEF Init, GuardType, Inside
<1>2. Init => OneReconciliation
  BY ThreadsNamed DEF Init, OneReconciliation, Holding, Counted
<1>. QED BY <1>1, <1>2 DEF GuardInv

\* A step of triggerReconcile.
LEMMA TriggerGuardStep ==
    ASSUME GuardInv, NEW t \in Threads, Trigger(t) PROVE GuardInv'
<1>. USE DEF GuardInv, GuardType, OneReconciliation, Inside, Holding, Counted
<1>1. CASE TryLock(t)
  BY <1>1, ThreadsNamed DEF TryLock
<1>2. CASE MarkPending(t)
  BY <1>2, ThreadsNamed DEF MarkPending
<1>3. CASE Count(t)
  BY <1>3, ThreadsNamed DEF Count
<1>4. CASE List(t)
  <2>1. at[t] = "list" /\ UNCHANGED <<mu, inflight>>
    BY <1>4 DEF List
  <2>2. \E x \in {"write", "release", "check"} : at' = [at EXCEPT ![t] = x]
    BY <1>4 DEF List, AfterPass
  <2>. QED BY <2>1, <2>2, ThreadsNamed
<1>5. CASE Write(t)
  <2>1. at[t] = "write" /\ UNCHANGED <<mu, inflight>>
    BY <1>5 DEF Write
  <2>2. \E x \in {"release", "check"} : at' = [at EXCEPT ![t] = x]
    BY <1>5 DEF Write, AfterPass
  <2>. QED BY <2>1, <2>2, ThreadsNamed
<1>6. CASE CheckPending(t)
  <2>1. at[t] = "check" /\ UNCHANGED <<mu, inflight>>
    BY <1>6 DEF CheckPending
  <2>2. \E x \in {"list", "release"} : at' = [at EXCEPT ![t] = x]
    BY <1>6 DEF CheckPending
  <2>. QED BY <2>1, <2>2, ThreadsNamed
<1>7. CASE Release(t)
  BY <1>7, ThreadsNamed DEF Release
<1>8. CASE Unlock(t)
  BY <1>8, ThreadsNamed DEF Unlock
<1>. QED BY <1>1, <1>2, <1>3, <1>4, <1>5, <1>6, <1>7, <1>8 DEF Trigger

\* A goroutine outside the guard enters it or ends.
LEMMA EnterGuard ==
    ASSUME GuardInv, NEW t \in Threads, NEW x \in {"enter", "gone"},
           at[t] = "away", at' = [at EXCEPT ![t] = x], UNCHANGED <<mu, inflight>>
    PROVE  GuardInv'
  BY ThreadsNamed DEF GuardInv, GuardType, OneReconciliation, Inside, Holding, Counted

LEMMA IdleGuard ==
    ASSUME GuardInv, UNCHANGED <<mu, inflight, at>> PROVE GuardInv'
  BY DEF GuardInv, GuardType, OneReconciliation

LEMMA NextGuard ==
    ASSUME GuardInv, [Next]_vars PROVE GuardInv'
<1>1. ASSUME NEW t \in Threads, Trigger(t) PROVE GuardInv'
  BY <1>1, TriggerGuardStep
<1>2. ASSUME NEW w \in Watchers, NEW c \in Callbacks, Fire(w, c) PROVE GuardInv'
  BY <1>2, EnterGuard, ThreadsNamed DEF Fire, Call
<1>3. ASSUME NEW p \in Pollers, Poll(p) PROVE GuardInv'
  BY <1>3, EnterGuard, ThreadsNamed DEF Poll, Call
<1>4. CASE Tick \/ TickerLeaves
  BY <1>4, EnterGuard, ThreadsNamed DEF Tick, TickerLeaves, Call
<1>5. CASE InitialTrigger
  BY <1>5, EnterGuard, ThreadsNamed DEF InitialTrigger, Call
<1>6. ASSUME NEW s \in Sources, StartSource(s) PROVE GuardInv'
  <2>1. CASE at' = at
    BY <1>6, <2>1, IdleGuard DEF StartSource
  <2>2. CASE at' = [at EXCEPT ![Main] = "enter"]
    BY <1>6, <2>2, EnterGuard, ThreadsNamed DEF StartSource
  <2>. QED BY <1>6, <2>1, <2>2 DEF StartSource
<1>7. CASE UNCHANGED <<mu, inflight, at>>
  BY <1>7, IdleGuard
<1>8. ASSUME NEW w, StreamError(w) \/ Reconnect(w) \/ HandleEvent(w)
      PROVE  UNCHANGED <<mu, inflight, at>>
  BY <1>8 DEF StreamError, Reconnect, HandleEvent
<1>9. ASSUME NEW s, Leave(s) \/ Change(s) \/ StopSource(s)
      PROVE  UNCHANGED <<mu, inflight, at>>
  BY <1>9 DEF Leave, Change, StopSource
<1>10. ASSUME SourceStarted \/ Serve \/ Signal \/ Cancel \/ Join \/ Waited \/ Exit \/ UNCHANGED vars
       PROVE  UNCHANGED <<mu, inflight, at>>
  BY <1>10 DEF SourceStarted, Serve, Signal, Cancel, Join, Waited, Exit, vars
<1>. QED
  BY <1>1, <1>2, <1>3, <1>4, <1>5, <1>6, <1>7, <1>8, <1>9, <1>10 DEF Next, RunSteps

\* However many watchers, pollers and timers trigger, at most one goroutine is in a cycle,
\* the holder of reconcileMu, and reconcileWg is one exactly while it is.
THEOREM GuardSafety == Spec => []OneReconciliation
<1>1. Init => GuardInv
  BY InitGuard
<1>2. GuardInv /\ [Next]_vars => GuardInv'
  BY NextGuard
<1>3. GuardInv => OneReconciliation
  BY DEF GuardInv
<1>. QED BY <1>1, <1>2, <1>3, PTL DEF Spec

-----------------------------------------------------------------------------
(* Types.  What GuardType does not say, in three parts: the sources, the rest of the guard
   and the life of run.                                                               *)

SourceType ==
    /\ version \in [Sources -> Nat]
    /\ covered \in [Sources -> Nat]
    /\ told \in [Pollers -> Nat]
    /\ alive \in [Sources -> BOOLEAN]
    /\ stopped \in [Sources -> BOOLEAN]

EventType ==
    /\ stream \in [Watchers -> BOOLEAN]
    /\ inbox \in [Watchers -> Nat]
    /\ timer \in [Watchers -> BOOLEAN]
    /\ errors \in [list : Nat, stream : Nat]

RunType ==
    /\ pending \in BOOLEAN
    /\ again \in [Threads -> BOOLEAN]
    /\ stage \in Stages
    /\ starting \in Sources \cup {Nobody}
    /\ ctxDone \in BOOLEAN
    /\ cut \in BOOLEAN

Types == SourceType /\ EventType /\ RunType

LEMMA SourcesNamed == Watchers \subseteq Sources /\ Pollers \subseteq Sources
                      /\ Nobody \notin Sources
  BY GuardAssumption DEF Sources

LEMMA InitTypes == Init => Types
<1>1. Init => SourceType
  BY SourcesNamed DEF Init, SourceType
<1>2. Init => EventType
  BY GuardBounds DEF Init, EventType
<1>3. Init => RunType
  BY DEF Init, RunType, Stages
<1>. QED BY <1>1, <1>2, <1>3 DEF Types

\* One error less.
LEMMA OneErrorLess ==
    ASSUME errors \in [list : Nat, stream : Nat],
           \/ errors.list > 0 /\ errors' = [errors EXCEPT !.list = @ - 1]
           \/ errors.stream > 0 /\ errors' = [errors EXCEPT !.stream = @ - 1]
    PROVE  errors' \in [list : Nat, stream : Nat]
  OBVIOUS

\* The types of the sources after every step.
LEMMA NextSources ==
    ASSUME Types, [Next]_vars PROVE SourceType'
<1>. USE DEF Types, SourceType
<1>1. ASSUME NEW t \in Threads, Trigger(t) PROVE SourceType'
  <2>1. UNCHANGED <<version, told, alive, stopped>>
    BY <1>1 DEF Trigger, TryLock, MarkPending, Count, List, Write, CheckPending, Release, Unlock
  <2>2. covered' \in {covered, version}
    BY <1>1 DEF Trigger, TryLock, MarkPending, Count, List, Write, CheckPending, Release, Unlock
  <2>. QED BY <2>1, <2>2
<1>2. ASSUME NEW w \in Watchers,
             \/ StreamError(w) \/ Reconnect(w) \/ HandleEvent(w)
             \/ \E c \in Callbacks : Fire(w, c)
      PROVE  SourceType'
  BY <1>2 DEF StreamError, Reconnect, HandleEvent, Fire
<1>3. ASSUME NEW p \in Pollers, Poll(p) PROVE SourceType'
  BY <1>3, SourcesNamed DEF Poll
<1>4. ASSUME NEW s \in Sources, Leave(s) PROVE SourceType'
  BY <1>4 DEF Leave
<1>5. ASSUME NEW s \in Sources, Change(s) PROVE SourceType'
  BY <1>5 DEF Change
<1>6. ASSUME NEW s \in Sources, StartSource(s) PROVE SourceType'
  BY <1>6 DEF StartSource
<1>7. ASSUME NEW s \in Sources, StopSource(s) PROVE SourceType'
  BY <1>7 DEF StopSource
<1>8. CASE SourceStarted
  <2>1. starting \in Sources
    BY <1>8 DEF SourceStarted, RunType
  <2>. QED BY <1>8, <2>1 DEF SourceStarted
<1>9. CASE Tick \/ TickerLeaves \/ InitialTrigger \/ Serve \/ Signal
  BY <1>9 DEF Tick, TickerLeaves, InitialTrigger, Serve, Signal
<1>10. CASE Cancel \/ Join \/ Waited \/ Exit \/ UNCHANGED vars
  BY <1>10 DEF Cancel, Join, Waited, Exit, vars
<1>. QED
  BY <1>1, <1>2, <1>3, <1>4, <1>5, <1>6, <1>7, <1>8, <1>9, <1>10 DEF Next, RunSteps

\* The types of the event streams, timers and error budgets after every step.
LEMMA NextEvents ==
    ASSUME Types, [Next]_vars PROVE EventType'
<1>. USE DEF Types, EventType
<1>1. ASSUME NEW t \in Threads, Trigger(t) PROVE EventType'
  <2>1. UNCHANGED <<stream, inbox, timer>>
    BY <1>1 DEF Trigger, TryLock, MarkPending, Count, List, Write, CheckPending, Release, Unlock
  <2>2. CASE List(t)
    BY <2>1, <2>2, OneErrorLess DEF List
  <2>3. CASE ~List(t)
    <3>1. UNCHANGED errors
      BY <1>1, <2>3 DEF Trigger, TryLock, MarkPending, Count, Write, CheckPending, Release, Unlock
    <3>. QED BY <2>1, <3>1
  <2>. QED BY <2>2, <2>3
<1>2. ASSUME NEW w \in Watchers, StreamError(w) PROVE EventType'
  <2>1. errors' \in [list : Nat, stream : Nat]
    BY <1>2, OneErrorLess DEF StreamError
  <2>2. stream' \in [Watchers -> BOOLEAN] /\ UNCHANGED timer
    BY <1>2 DEF StreamError
  <2>3. inbox' \in [Watchers -> Nat]
    BY <1>2 DEF StreamError
  <2>. QED BY <2>1, <2>2, <2>3
<1>3. ASSUME NEW w \in Watchers, Reconnect(w) \/ HandleEvent(w) PROVE EventType'
  <2>1. CASE Reconnect(w)
    BY <2>1 DEF Reconnect
  <2>2. CASE HandleEvent(w)
    <3>1. inbox' \in [Watchers -> Nat]
      BY <2>2 DEF HandleEvent
    <3>2. timer' \in [Watchers -> BOOLEAN] /\ UNCHANGED <<stream, errors>>
      BY <2>2 DEF HandleEvent
    <3>. QED BY <3>1, <3>2
  <2>. QED BY <1>3, <2>1, <2>2
<1>4. ASSUME NEW w \in Watchers, NEW c \in Callbacks, Fire(w, c) PROVE EventType'
  BY <1>4 DEF Fire
<1>5. ASSUME NEW s \in Sources, Change(s) PROVE EventType'
  BY <1>5 DEF Change
<1>6. ASSUME NEW s \in Sources, StopSource(s) PROVE EventType'
  BY <1>6 DEF StopSource
<1>7. CASE SourceStarted
  BY <1>7 DEF SourceStarted
<1>8. ASSUME NEW s, Poll(s) \/ Leave(s) \/ StartSource(s) PROVE EventType'
  BY <1>8 DEF Poll, Leave, StartSource
<1>9. CASE Tick \/ TickerLeaves \/ InitialTrigger \/ Serve \/ Signal
  BY <1>9 DEF Tick, TickerLeaves, InitialTrigger, Serve, Signal
<1>10. CASE Cancel \/ Join \/ Waited \/ Exit \/ UNCHANGED vars
  BY <1>10 DEF Cancel, Join, Waited, Exit, vars
<1>. QED
  BY <1>1, <1>2, <1>3, <1>4, <1>5, <1>6, <1>7, <1>8, <1>9, <1>10 DEF Next, RunSteps

\* The types of the flags of the guard and of run after every step.
LEMMA NextRun ==
    ASSUME Types, [Next]_vars PROVE RunType'
<1>. USE DEF Types, RunType
<1>1. ASSUME NEW t \in Threads, Trigger(t) PROVE RunType'
  <2>1. UNCHANGED <<stage, starting, ctxDone>>
    BY <1>1 DEF Trigger, TryLock, MarkPending, Count, List, Write, CheckPending, Release, Unlock
  <2>2. cut' \in BOOLEAN
    BY <1>1 DEF Trigger, TryLock, MarkPending, Count, List, Write, CheckPending, Release, Unlock
  <2>3. pending' \in BOOLEAN
    BY <1>1 DEF Trigger, TryLock, MarkPending, Count, List, Write, CheckPending, Release, Unlock
  <2>4. again' \in [Threads -> BOOLEAN]
    BY <1>1 DEF Trigger, TryLock, MarkPending, Count, List, Write, CheckPending, Release, Unlock
  <2>. QED BY <2>1, <2>2, <2>3, <2>4
<1>2. ASSUME NEW w,
             \/ StreamError(w) \/ Reconnect(w) \/ HandleEvent(w)
             \/ \E c \in Callbacks : Fire(w, c)
      PROVE  RunType'
  BY <1>2 DEF StreamError, Reconnect, HandleEvent, Fire
<1>3. ASSUME NEW s, Poll(s) \/ Leave(s) \/ Change(s) \/ StopSource(s) PROVE RunType'
  BY <1>3 DEF Poll, Leave, Change, StopSource
<1>4. ASSUME NEW s \in Sources, StartSource(s) PROVE RunType'
  BY <1>4 DEF StartSource
<1>5. CASE Tick \/ TickerLeaves \/ UNCHANGED vars
  BY <1>5 DEF Tick, TickerLeaves, vars
<1>6. CASE SourceStarted
  BY <1>6 DEF SourceStarted
<1>7. CASE InitialTrigger \/ Serve \/ Signal
  BY <1>7 DEF InitialTrigger, Serve, Signal, Stages
<1>8. CASE Cancel \/ Join \/ Waited \/ Exit
  BY <1>8 DEF Cancel, Join, Waited, Exit, Stages
<1>. QED BY <1>1, <1>2, <1>3, <1>4, <1>5, <1>6, <1>7, <1>8 DEF Next, RunSteps

\* Every variable of the guard, the sources and the shutdown has its type.
THEOREM GuardTypes == Spec => []TypeOK
<1>1. Init => GuardInv /\ Types
  BY InitGuard, InitTypes
<1>2. GuardInv /\ Types /\ [Next]_vars => GuardInv' /\ Types'
  BY NextGuard, NextSources, NextEvents, NextRun DEF Types
<1>3. GuardInv /\ Types => TypeOK
  BY DEF GuardInv, GuardType, Types, SourceType, EventType, RunType, TypeOK, Inside
<1>. QED BY <1>1, <1>2, <1>3, PTL DEF Spec

-----------------------------------------------------------------------------
(* The shutdown. *)

Late == {"waiting", "completed", "timedout", "exited"}

\* What OnlyStraysLate rests on: the main goroutine triggers only until it serves, the
\* context is cancelled after all sources are stopped, and the ticker goroutine has ended
\* before the wait.
ShutdownInv ==
    /\ Serving => at[Main] = "away"
    /\ stage \in Late \cup {"joining"} => ctxDone /\ \A s \in Sources : stopped[s]
    /\ stage \in Late => at[Ticker] = "gone"

LEMMA InitShutdown == Init => ShutdownInv
  BY DEF Init, ShutdownInv, Serving, Late

\* No step of triggerReconcile is one of a goroutine that is away or gone.
LEMMA TriggerShutdown ==
    ASSUME GuardInv, ShutdownInv, NEW t \in Threads, Trigger(t) PROVE ShutdownInv'
<1>1. UNCHANGED <<stage, ctxDone, stopped>>
  BY DEF Trigger, TryLock, MarkPending, Count, List, Write, CheckPending, Release, Unlock
<1>2. at[t] \notin {"away", "gone"}
  BY DEF Trigger, TryLock, MarkPending, Count, List, Write, CheckPending, Release, Unlock
<1>3. \A u \in Threads : u # t => at'[u] = at[u]
  BY DEF GuardInv, GuardType, Trigger, TryLock, MarkPending, Count, List, Write, CheckPending,
         Release, Unlock
<1>. QED BY <1>1, <1>2, <1>3, ThreadsNamed DEF ShutdownInv, Serving

\* A step that changes neither what run has done nor where its two goroutines are.
LEMMA IdleShutdown ==
    ASSUME ShutdownInv, UNCHANGED <<stage, ctxDone, stopped>>,
           at'[Main] = at[Main], at'[Ticker] = at[Ticker]
    PROVE  ShutdownInv'
  BY DEF ShutdownInv, Serving

LEMMA NextShutdown ==
    ASSUME GuardInv, Types, ShutdownInv, [Next]_vars PROVE ShutdownInv'
<1>. USE DEF ShutdownInv, Serving, Late
<1>1. ASSUME NEW t \in Threads, Trigger(t) PROVE ShutdownInv'
  BY <1>1, TriggerShutdown
<1>2. ASSUME NEW w \in Watchers, NEW c \in Callbacks, Fire(w, c) PROVE ShutdownInv'
  <2>1. at'[Main] = at[Main] /\ at'[Ticker] = at[Ticker]
    BY <1>2, GuardAssumption, ThreadsNamed DEF Fire, Call, GuardInv, GuardType
  <2>. QED BY <1>2, <2>1, IdleShutdown DEF Fire
<1>3. ASSUME NEW p \in Pollers, Poll(p) PROVE ShutdownInv'
  <2>1. at'[Main] = at[Main] /\ at'[Ticker] = at[Ticker]
    BY <1>3, GuardAssumption, ThreadsNamed DEF Poll, Call, GuardInv, GuardType
  <2>. QED BY <1>3, <2>1, IdleShutdown DEF Poll
<1>4. CASE Tick \/ TickerLeaves
  <2>1. at'[Main] = at[Main] /\ at[Ticker] = "away"
    BY <1>4, GuardAssumption, ThreadsNamed DEF Tick, TickerLeaves, Call, GuardInv, GuardType
  <2>2. UNCHANGED <<stage, ctxDone, stopped>>
    BY <1>4 DEF Tick, TickerLeaves
  <2>. QED BY <2>1, <2>2
<1>5. ASSUME NEW s \in Sources, StartSource(s) PROVE ShutdownInv'
  BY <1>5 DEF StartSource
<1>6. CASE InitialTrigger
  BY <1>6 DEF InitialTrigger
<1>7. ASSUME NEW s \in Sources, StopSource(s) PROVE ShutdownInv'
  BY <1>7 DEF StopSource
<1>8. CASE Serve \/ Signal
  BY <1>8 DEF Serve, Signal
<1>9. CASE Cancel \/ Join
  BY <1>9 DEF Cancel, Join
<1>10. CASE Waited \/ Exit
  BY <1>10 DEF Waited, Exit
<1>11. CASE SourceStarted \/ UNCHANGED vars
  BY <1>11 DEF SourceStarted, vars
<1>12. ASSUME NEW w, StreamError(w) \/ Reconnect(w) \/ HandleEvent(w) PROVE ShutdownInv'
  BY <1>12 DEF StreamError, Reconnect, HandleEvent
<1>13. ASSUME NEW s, Leave(s) \/ Change(s) PROVE ShutdownInv'
  BY <1>13 DEF Leave, Change
<1>. QED
  BY <1>1, <1>2, <1>3, <1>4, <1>5, <1>6, <1>7, <1>8, <1>9, <1>10, <1>11, <1>12, <1>13
     DEF Next, RunSteps

\* Behind the shutdown's wait for cycles in flight neither the main nor the ticker goroutine
\* is in a cycle, for any number of watchers, pollers and callbacks: the holder of
\* reconcileMu can only be a callback or a poller that Stop did not reach.
THEOREM ShutdownSafety == Spec => []OnlyStraysLate
<1>1. Init => GuardInv /\ Types /\ ShutdownInv
  BY InitGuard, InitTypes, InitShutdown
<1>2. GuardInv /\ Types /\ ShutdownInv /\ [Next]_vars => GuardInv' /\ Types' /\ ShutdownInv'
  BY NextGuard, NextSources, NextEvents, NextRun, NextShutdown DEF Types
<1>3. GuardInv /\ ShutdownInv => OnlyStraysLate
  BY ThreadsNamed DEF GuardInv, GuardType, OneReconciliation, ShutdownInv, Serving, Late,
                      OnlyStraysLate, Threads, Holding
<1>. QED BY <1>1, <1>2, <1>3, PTL DEF Spec
=============================================================================
