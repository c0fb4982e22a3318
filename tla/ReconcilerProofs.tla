-------------------------- MODULE ReconcilerProofs --------------------------
(***************************************************************************)
(* Proofs about Reconciler, for every number of copies, provider           *)
(* instances, backends and host names, every configuration and every bound *)
(* on failures, crashes and edits.                                         *)
(***************************************************************************)
EXTENDS Reconciler, FiniteSetTheorems, TLAPS

USE DEF store, process, cycle, loop, env, history

CourseInv == TypeOK /\ LoopInv

LEMMA InitCourse == Init => CourseInv
<1>. SUFFICES ASSUME Init PROVE CourseInv OBVIOUS
<1>1. /\ zone \in [Backends -> SUBSET Data]
      /\ txt \in [Backends -> SUBSET Marker]
      /\ want \in [Copies -> [Hosts -> Specs \cup {NoSpec}]]
      /\ aim \in [Prov -> Targets]
      /\ enabled \in [Copies -> BOOLEAN]
      /\ dryRun \in [Copies -> BOOLEAN]
      /\ pc \in [Copies -> Places]
      /\ known \in [Copies -> SUBSET Hosts]
      /\ route \in [Copies -> [Hosts -> SUBSET Prov]]
      /\ recovered \in [Copies -> [Hosts -> Metas]]
      /\ found \in [Copies -> [Hosts -> Specs \cup {NoSpec}]]
      /\ mapping \in [Copies -> [Hosts -> SUBSET Prov]]
  BY ConfigAssumption, NullAssumption
     DEF Init, NoneFound, NoRoute, NoneRecovered, ProvConfig, CopyConfig, Places
<1>2. /\ cache \in [Copies -> [Prov -> CacheEntry]]
      /\ todo \in [Copies -> SUBSET Hosts]
      /\ host \in [Copies -> Hosts \cup {NoHost}]
      /\ queue \in [Copies -> SUBSET Prov]
      /\ job \in [Copies -> Job \cup {NoJob}]
      /\ purge \in [Copies -> Purge \cup {NoJob}]
  BY DEF Init, EmptyCache, NotCached, CacheEntry
<1>3. budget \in [Kinds -> Nat]
  BY BoundAssumption DEF Init, Kinds, Bound
<1>4. /\ marked \in [Backends -> SUBSET (Hosts \X Ids)]
      /\ seen \in [Copies -> SUBSET Hosts]
      /\ purged \subseteq Copies \X Prov \X Hosts
  <2>1. \A b \in Backends : \A m \in InitialTxt[b] : m.host \in Hosts /\ m.id \in Ids
    BY ConfigAssumption DEF Marker
  <2>2. \A b \in Backends : {<<m.host, m.id>> : m \in InitialTxt[b]} \in SUBSET (Hosts \X Ids)
    BY ONLY <2>1
  <2>. QED BY <2>2 DEF Init
<1>5. /\ \A i \in Copies : pc[i] = "down" /\ job[i] = NoJob /\ purge[i] = NoJob
  BY DEF Init
<1>6. TypeOK
  BY <1>1, <1>2, <1>3, <1>4, <1>5 DEF TypeOK, EnsurePlaces, PurgePlaces
<1>7. LoopInv
  BY <1>5 DEF LoopInv, OnCourse, EnsurePlaces, PurgePlaces, CleanupPlaces
<1>. QED BY <1>6, <1>7 DEF CourseInv

-----------------------------------------------------------------------------
(* What the helpers return. *)

LEMMA MineType == \A i : Mine(i) \subseteq Prov
  BY DEF Mine

LEMMA WritersType ==
    ASSUME NEW i, NEW h, NEW s PROVE Writers(i, h, s) \subseteq Prov
  BY DEF Writers, MatchingProvidersForHostname, MatchingProviders, Mine

LEMMA OrphanProvidersType ==
    ASSUME NEW i, NEW h PROVE OrphanProviders(i, h) \subseteq Prov
  BY DEF OrphanProviders, MatchingProviders, Mine

LEMMA CfgType ==
    ASSUME NEW p \in Prov
    PROVE  /\ Cfg[p].backend \in Backends
           /\ Cfg[p].type \in Types
           /\ Cfg[p].pool \subseteq Targets
           /\ Cfg[p].target \in Targets
           /\ Cfg[p].mode \in Modes
           /\ Cfg[p].txt \in BOOLEAN
           /\ Cfg[p].native \in BOOLEAN
  BY ConfigAssumption DEF ProvConfig

LEMMA OptType ==
    ASSUME NEW i \in Copies
    PROVE  /\ Opt[i].id \in Ids
           /\ Opt[i].tracking \in BOOLEAN
           /\ Opt[i].adopt \in BOOLEAN
           /\ Opt[i].dryRun \in BOOLEAN
  BY ConfigAssumption DEF CopyConfig

LEMMA SpecType ==
    ASSUME NEW s \in Specs
    PROVE  /\ s.type \in Types \cup {""}
           /\ s.target \in Targets \cup {""}
           /\ s.srv \in SRVs
           /\ s.meta \in Metas
  BY ConfigAssumption DEF Hint

\* The record a job is about is a data record of its host name.
LEMMA DesiredType ==
    ASSUME TypeOK, NEW p \in Prov, NEW h \in Hosts, NEW s \in Specs
    PROVE  Desired(p, h, s) \in Data /\ Desired(p, h, s).host = h
<1>1. /\ (IF s.type # "" THEN s.type ELSE Cfg[p].type) \in Types
      /\ (IF s.target # "" THEN s.target ELSE aim[p]) \in Targets
      /\ s.srv \in SRVs
  BY SpecType, CfgType DEF TypeOK
<1>. QED BY <1>1 DEF Desired, Data

LEMMA RecordsOfType ==
    ASSUME NEW S \in SUBSET Data, NEW h PROVE RecordsOf(S, h) \in SUBSET Data
  BY DEF RecordsOf

LEMMA NextStepType ==
    ASSUME NEW i \in Copies, NEW p, NEW rec, NEW E
    PROVE  NextStep(i, p, rec, E) \in {"own", "ensure", "update", "create"}
<1>. DEFINE exact == \E r \in Same(rec, E) : Matches(rec, r)
            adopts == Opt[i].adopt /\ NeedsMarker(i, p, rec.host)
<1>. QED BY DEF NextStep

LEMMA DoomedType ==
    ASSUME NEW path \in {"managed", "authoritative", "target", "cache"},
           NEW p, NEW t, NEW R \in SUBSET Data
    PROVE  Doomed(path, p, t, R) \in SUBSET Data
  BY DEF Doomed

-----------------------------------------------------------------------------
(* Every variable keeps its type and the loops stay on course. *)

LEMMA StartCourse ==
    ASSUME CourseInv, NEW i \in Copies, Start(i) PROVE CourseInv'
<1>1. TypeOK'
  BY DEF CourseInv, TypeOK, Start, Places, EnsurePlaces, PurgePlaces, Mine
<1>2. LoopInv'
  BY DEF CourseInv, TypeOK, LoopInv, OnCourse, Start, EnsurePlaces, PurgePlaces, CleanupPlaces, Discovered
<1>. QED BY <1>1, <1>2 DEF CourseInv

LEMMA BeginCourse ==
    ASSUME CourseInv, NEW i \in Copies, Begin(i) PROVE CourseInv'
<1>1. TypeOK'
  BY MineType DEF CourseInv, TypeOK, Begin, Places, EnsurePlaces, PurgePlaces, Spend, Kinds
<1>2. LoopInv'
  BY MineType DEF CourseInv, TypeOK, LoopInv, OnCourse, Begin, EnsurePlaces, PurgePlaces, CleanupPlaces, Discovered
<1>. QED BY <1>1, <1>2 DEF CourseInv

LEMMA FillCacheCourse ==
    ASSUME CourseInv, NEW i \in Copies, NEW p \in Prov, FillCache(i, p) PROVE CourseInv'
<1>1. TypeOK'
  <2>1. cache' \in [Copies -> [Prov -> CacheEntry]]
    <3>1. CASE cache' = cache
      BY <3>1 DEF CourseInv, TypeOK
    <3>2. CASE cache' = [cache EXCEPT ![i][p] =
                [ok |-> TRUE, data |-> zone[Cfg[p].backend], txt |-> txt[Cfg[p].backend]]]
      <4>1. [ok |-> TRUE, data |-> zone[Cfg[p].backend], txt |-> txt[Cfg[p].backend]]
              \in CacheEntry
        BY CfgType DEF CourseInv, TypeOK, CacheEntry
      <4>2. [cache[i] EXCEPT ![p] = [ok |-> TRUE, data |-> zone[Cfg[p].backend],
                                     txt |-> txt[Cfg[p].backend]]] \in [Prov -> CacheEntry]
        BY <4>1 DEF CourseInv, TypeOK
      <4>. QED BY <3>2, <4>2 DEF CourseInv, TypeOK
    <3>. QED BY <3>1, <3>2 DEF FillCache
  <2>2. budget' \in [Kinds -> Nat]
    BY DEF CourseInv, TypeOK, FillCache, Spend, Kinds
  <2>3. queue' \in [Copies -> SUBSET Prov]
    BY DEF CourseInv, TypeOK, FillCache
  <2>. QED BY <2>1, <2>2, <2>3 DEF CourseInv, TypeOK, FillCache
<1>2. LoopInv'
  BY CfgType DEF CourseInv, TypeOK, LoopInv, OnCourse, FillCache, EnsurePlaces, PurgePlaces, CleanupPlaces, Discovered, First
<1>. QED BY <1>1, <1>2 DEF CourseInv

LEMMA CacheFilledCourse ==
    ASSUME CourseInv, NEW i \in Copies, CacheFilled(i) PROVE CourseInv'
<1>1. TypeOK'
  BY DEF CourseInv, TypeOK, CacheFilled, Places, EnsurePlaces, PurgePlaces
<1>2. LoopInv'
  BY DEF CourseInv, TypeOK, LoopInv, OnCourse, CacheFilled, EnsurePlaces, PurgePlaces, CleanupPlaces, Discovered
<1>. QED BY <1>1, <1>2 DEF CourseInv

LEMMA NextHostCourse ==
    ASSUME CourseInv, NEW i \in Copies, NextHost(i) PROVE CourseInv'
<1>1. TypeOK'
  BY WritersType, NullAssumption DEF CourseInv, TypeOK, NextHost, Places, EnsurePlaces, PurgePlaces
<1>2. LoopInv'
  BY WritersType, NullAssumption DEF CourseInv, TypeOK, LoopInv, OnCourse, NextHost, EnsurePlaces, PurgePlaces, CleanupPlaces, Discovered
<1>. QED BY <1>1, <1>2 DEF CourseInv

LEMMA BeginCleanupCourse ==
    ASSUME CourseInv, NEW i \in Copies, BeginCleanup(i) PROVE CourseInv'
<1>1. TypeOK'
  BY DEF CourseInv, TypeOK, BeginCleanup, Places, EnsurePlaces, PurgePlaces, Orphans, Discovered
<1>2. LoopInv'
  BY DEF CourseInv, TypeOK, LoopInv, OnCourse, BeginCleanup, EnsurePlaces, PurgePlaces, CleanupPlaces, Discovered, Orphans
<1>. QED BY <1>1, <1>2 DEF CourseInv

LEMMA NextOrphanCourse ==
    ASSUME CourseInv, NEW i \in Copies, NextOrphan(i) PROVE CourseInv'
<1>1. TypeOK'
  BY OrphanProvidersType, NullAssumption DEF CourseInv, TypeOK, NextOrphan, Places, EnsurePlaces, PurgePlaces
<1>2. LoopInv'
  BY OrphanProvidersType, NullAssumption DEF CourseInv, TypeOK, LoopInv, OnCourse, NextOrphan, EnsurePlaces, PurgePlaces, CleanupPlaces, Discovered
<1>. QED BY <1>1, <1>2 DEF CourseInv

LEMMA CommitCourse ==
    ASSUME CourseInv, NEW i \in Copies, Commit(i) PROVE CourseInv'
<1>1. TypeOK'
  BY DEF CourseInv, TypeOK, Commit, Places, EnsurePlaces, PurgePlaces, Discovered, NoneFound, EmptyCache, NotCached, CacheEntry, NoRoute
<1>2. LoopInv'
  BY DEF CourseInv, TypeOK, LoopInv, OnCourse, Commit, EnsurePlaces, PurgePlaces, CleanupPlaces, Discovered
<1>. QED BY <1>1, <1>2 DEF CourseInv

LEMMA CrashCourse ==
    ASSUME CourseInv, NEW i \in Copies, Crash(i) PROVE CourseInv'
<1>0. aim' \in [Prov -> Targets]
  <2>1. PICK literal \in SUBSET Mine(i) :
          aim' = [p \in Prov |-> IF p \in literal THEN Cfg[p].target ELSE aim[p]]
    BY DEF Crash
  <2>. QED BY <2>1, CfgType DEF CourseInv, TypeOK
<1>1. TypeOK'
  BY <1>0, OptType, NullAssumption DEF CourseInv, TypeOK, Crash, Places, EnsurePlaces, PurgePlaces, NoneFound, EmptyCache, NotCached, CacheEntry, NoRoute, NoneRecovered, Spend, Kinds
<1>2. LoopInv'
  BY OptType, NullAssumption DEF CourseInv, TypeOK, LoopInv, OnCourse, Crash, EnsurePlaces, PurgePlaces, CleanupPlaces, Discovered
<1>. QED BY <1>1, <1>2 DEF CourseInv

LEMMA SetDryRunCourse ==
    ASSUME CourseInv, NEW i \in Copies, NEW on \in BOOLEAN, SetDryRun(i, on) PROVE CourseInv'
<1>1. TypeOK'
  BY DEF CourseInv, TypeOK, SetDryRun, Places, EnsurePlaces, PurgePlaces, Spend, Kinds
<1>2. LoopInv'
  BY DEF CourseInv, TypeOK, LoopInv, OnCourse, SetDryRun, EnsurePlaces, PurgePlaces, CleanupPlaces, Discovered
<1>. QED BY <1>1, <1>2 DEF CourseInv

LEMMA SetEnabledCourse ==
    ASSUME CourseInv, NEW i \in Copies, NEW on \in BOOLEAN, SetEnabled(i, on) PROVE CourseInv'
<1>1. TypeOK'
  BY DEF CourseInv, TypeOK, SetEnabled, Places, EnsurePlaces, PurgePlaces, Spend, Kinds
<1>2. LoopInv'
  BY DEF CourseInv, TypeOK, LoopInv, OnCourse, SetEnabled, EnsurePlaces, PurgePlaces, CleanupPlaces, Discovered
<1>. QED BY <1>1, <1>2 DEF CourseInv

LEMMA SetDynamicTargetCourse ==
    ASSUME CourseInv, NEW p \in Prov, NEW t \in Cfg[p].pool, SetDynamicTarget(p, t) PROVE CourseInv'
<1>1. TypeOK'
  BY CfgType DEF CourseInv, TypeOK, SetDynamicTarget, Places, EnsurePlaces, PurgePlaces, Spend, Kinds
<1>2. LoopInv'
  BY CfgType DEF CourseInv, TypeOK, LoopInv, OnCourse, SetDynamicTarget, EnsurePlaces, PurgePlaces, CleanupPlaces, Discovered
<1>. QED BY <1>1, <1>2 DEF CourseInv

LEMMA ChangeWorkloadCourse ==
    ASSUME CourseInv, NEW i \in Copies, NEW h \in Hosts, NEW s \in Specs \cup {NoSpec}, ChangeWorkload(i, h, s) PROVE CourseInv'
<1>1. TypeOK'
  BY DEF CourseInv, TypeOK, ChangeWorkload, Places, EnsurePlaces, PurgePlaces, Spend, Kinds
<1>2. LoopInv'
  BY DEF CourseInv, TypeOK, LoopInv, OnCourse, ChangeWorkload, EnsurePlaces, PurgePlaces, CleanupPlaces, Discovered
<1>. QED BY <1>1, <1>2 DEF CourseInv

LEMMA EditZoneCourse ==
    ASSUME CourseInv, NEW b \in Backends, NEW r \in ManualRecords, EditZone(b, r) PROVE CourseInv'
<1>1. TypeOK'
  <2>1. r \in Data
    BY ConfigAssumption
  <2>2. zone' \in [Backends -> SUBSET Data]
    <3>1. zone \in [Backends -> SUBSET Data]
      BY DEF CourseInv, TypeOK
    <3>2. zone[b] \ {r} \in SUBSET Data /\ zone[b] \cup {r} \in SUBSET Data
      BY <2>1, <3>1
    <3>3. \/ zone' = [zone EXCEPT ![b] = zone[b] \ {r}]
          \/ zone' = [zone EXCEPT ![b] = zone[b] \cup {r}]
      BY DEF EditZone
    <3>. QED BY <3>1, <3>2, <3>3
  <2>3. budget' \in [Kinds -> Nat]
    BY DEF CourseInv, TypeOK, EditZone, Spend, Kinds
  <2>. QED BY <2>2, <2>3 DEF CourseInv, TypeOK, EditZone
<1>2. LoopInv'
  BY DEF CourseInv, TypeOK, LoopInv, OnCourse, EditZone, EnsurePlaces, PurgePlaces, CleanupPlaces, Discovered
<1>. QED BY <1>1, <1>2 DEF CourseInv

LEMMA BudgetType ==
    ASSUME budget \in [Kinds -> Nat], NEW err, Ends(err) PROVE budget' \in [Kinds -> Nat]
  BY DEF Ends, Spend, Kinds

LEMMA FaultType ==
    ASSUME budget \in [Kinds -> Nat], Spend("fault") PROVE budget' \in [Kinds -> Nat]
  BY DEF Spend, Kinds

LEMMA DeleteType ==
    ASSUME TypeOK, NEW p \in Prov, NEW r, NEW err, Delete(p, r, err)
    PROVE  zone' \in [Backends -> SUBSET Data] /\ budget' \in [Kinds -> Nat]
<1>1. budget' \in [Kinds -> Nat]
  BY BudgetType DEF Delete, TypeOK
<1>2. zone' \in [Backends -> SUBSET Data]
  BY DEF Delete, TypeOK
<1>. QED BY <1>1, <1>2

LEMMA RoutedType ==
    ASSUME TypeOK, NEW i \in Copies, NEW h \in Hosts, NEW p \in Prov
    PROVE  Routed(i, h, p) \in [Copies -> [Hosts -> SUBSET Prov]]
<1>1. [mapping[i] EXCEPT ![h] = @ \cup {p}] \in [Hosts -> SUBSET Prov]
  BY DEF TypeOK
<1>2. [mapping EXCEPT ![i][h] = @ \cup {p}] \in [Copies -> [Hosts -> SUBSET Prov]]
  BY <1>1 DEF TypeOK
<1>. QED BY <1>2 DEF Routed, TypeOK

\* The part of CourseInv about the variables that calls in the ensure loop change.
EnsureCourse(i) ==
    /\ pc' \in [Copies -> Places]
    /\ job' \in [Copies -> Job \cup {NoJob}]
    /\ mapping' \in [Copies -> [Hosts -> SUBSET Prov]]
    /\ \A k \in Copies \ {i} : pc'[k] = pc[k] /\ job'[k] = job[k]
    /\ pc'[i] \in {"ensure"} \cup EnsurePlaces
    /\ pc'[i] \in EnsurePlaces => /\ job'[i] # NoJob
                                 /\ job'[i].host \in Discovered(i)
                                 /\ job'[i].rec.host = job'[i].host
    /\ pc'[i] = "ensure" => job'[i] = NoJob

LEMMA JobType ==
    ASSUME CourseInv, NEW i \in Copies, pc[i] \in EnsurePlaces
    PROVE  /\ job[i] \in Job
           /\ job[i].host \in Discovered(i)
           /\ job[i].host \in Hosts
           /\ job[i].prov \in Prov
           /\ job[i].rec \in Data
           /\ job[i].rec.host = job[i].host
           /\ job[i].meta \in Metas
           /\ job[i].stale \in SUBSET Data
           /\ job[i].next \in {"own", "ensure", "update", "create"}
<1>1. job[i] \in Job /\ job[i].host \in Discovered(i) /\ job[i].rec.host = job[i].host
  BY DEF CourseInv, TypeOK, LoopInv, OnCourse
<1>. QED BY <1>1 DEF Job

LEMMA ReturnCourse ==
    ASSUME CourseInv, NEW i \in Copies, pc[i] \in EnsurePlaces, NEW acted, Return(i, acted)
    PROVE  EnsureCourse(i)
<1>1. mapping' \in [Copies -> [Hosts -> SUBSET Prov]]
  BY JobType, RoutedType DEF Return, CourseInv, TypeOK
<1>. QED BY <1>1 DEF CourseInv, TypeOK, Return, EnsureCourse, EnsurePlaces, Places

LEMMA ReturnMarkingCourse ==
    ASSUME CourseInv, NEW i \in Copies, pc[i] \in EnsurePlaces, NEW acted,
           ReturnMarking(i, acted)
    PROVE  EnsureCourse(i)
<1>1. CASE Return(i, acted)
  BY <1>1, ReturnCourse
<1>2. CASE /\ mapping' = IF acted THEN Routed(i, job[i].host, job[i].prov) ELSE mapping
           /\ pc' = [pc EXCEPT ![i] = "own"]
           /\ UNCHANGED job
  <2>1. mapping' \in [Copies -> [Hosts -> SUBSET Prov]]
    BY <1>2, JobType, RoutedType DEF CourseInv, TypeOK
  <2>2. job[i] # NoJob /\ job[i].host \in Discovered(i) /\ job[i].rec.host = job[i].host
    BY DEF CourseInv, TypeOK, LoopInv, OnCourse
  <2>. QED BY <1>2, <2>1, <2>2 DEF CourseInv, TypeOK, EnsureCourse, EnsurePlaces, Places
<1>. QED BY <1>1, <1>2 DEF ReturnMarking

LEMMA DecideCourse ==
    ASSUME CourseInv, NEW i \in Copies, NEW p \in Prov, NEW rec \in Data,
           rec.host \in Discovered(i), NEW meta \in Metas, NEW E \in SUBSET Data,
           Decide(i, p, rec, meta, E), UNCHANGED mapping
    PROVE  EnsureCourse(i)
<1>. DEFINE next == NextStep(i, p, rec, E)
            stale == Stale(rec, E)
<1>1. CASE /\ pc' = [pc EXCEPT ![i] = "ensure"]
           /\ job' = [job EXCEPT ![i] = NoJob]
  BY <1>1 DEF CourseInv, TypeOK, EnsureCourse, EnsurePlaces, Places
<1>2. CASE /\ ~(next = "ensure" /\ stale = {})
           /\ \E old \in IF next = "update" THEN Same(rec, E) ELSE {rec} :
                /\ job' = [job EXCEPT ![i] =
                             [host |-> rec.host, prov |-> p, rec |-> rec, meta |-> meta,
                              old |-> old, stale |-> stale, next |-> next]]
                /\ pc' = [pc EXCEPT ![i] = IF stale # {} THEN "stale" ELSE next]
  <2>. PICK old \in IF next = "update" THEN Same(rec, E) ELSE {rec} :
                /\ job' = [job EXCEPT ![i] =
                             [host |-> rec.host, prov |-> p, rec |-> rec, meta |-> meta,
                              old |-> old, stale |-> stale, next |-> next]]
                /\ pc' = [pc EXCEPT ![i] = IF stale # {} THEN "stale" ELSE next]
    BY <1>2
  <2>. DEFINE j == [host |-> rec.host, prov |-> p, rec |-> rec, meta |-> meta,
                    old |-> old, stale |-> stale, next |-> next]
  <2>1. next \in {"own", "ensure", "update", "create"}
    BY NextStepType
  <2>2. old \in Data /\ stale \in SUBSET Data /\ rec.host \in Hosts
    BY DEF Same, Stale, Data
  <2>. HIDE DEF next, stale
  <2>3. j \in Job /\ j.host = rec.host /\ j.rec.host = j.host
    BY <2>1, <2>2 DEF Job
  <2>4. j # NoJob
    BY <2>3, NoJobAssumption
  <2>5. job' = [job EXCEPT ![i] = j]
    OBVIOUS
  <2>. HIDE DEF j
  <2>6. job' \in [Copies -> Job \cup {NoJob}] /\ job'[i] = j
        /\ \A k \in Copies \ {i} : job'[k] = job[k]
    BY <2>3, <2>5 DEF CourseInv, TypeOK
  <2>7. (IF stale # {} THEN "stale" ELSE next) \in EnsurePlaces
    BY <1>2, <2>1 DEF EnsurePlaces
  <2>8. pc' \in [Copies -> Places] /\ pc'[i] \in EnsurePlaces
        /\ \A k \in Copies \ {i} : pc'[k] = pc[k]
    BY <2>7 DEF CourseInv, TypeOK, EnsurePlaces, Places
  <2>9. mapping' \in [Copies -> [Hosts -> SUBSET Prov]]
    BY DEF CourseInv, TypeOK
  <2>10. "ensure" \notin EnsurePlaces
    BY DEF EnsurePlaces
  <2>. QED BY <2>3, <2>4, <2>6, <2>8, <2>9, <2>10 DEF EnsureCourse
<1>. QED BY <1>1, <1>2 DEF Decide

\* EnsureCourse is all that a step of the ensure loop has to show.
LEMMA EnsureStepCourse ==
    ASSUME CourseInv, NEW i \in Copies,
           pc[i] \in {"ensure"} \cup EnsurePlaces,
           EnsureCourse(i),
           zone' \in [Backends -> SUBSET Data],
           txt' \in [Backends -> SUBSET Marker],
           recovered' \in [Copies -> [Hosts -> Metas]],
           budget' \in [Kinds -> Nat],
           marked' \in [Backends -> SUBSET (Hosts \X Ids)],
           queue' \in [Copies -> SUBSET Prov],
           \A k \in Copies : queue'[k] \subseteq queue[k],
           UNCHANGED <<want, aim, enabled, dryRun, known, route, found, cache, todo, host,
                       purge, seen, purged>>
    PROVE  CourseInv'
<1>1. \A k \in Copies : pc'[k] \in EnsurePlaces <=> job'[k] # NoJob
  BY DEF CourseInv, TypeOK, EnsureCourse, EnsurePlaces
<1>2. \A k \in Copies : pc'[k] \in PurgePlaces <=> purge'[k] # NoJob
  BY DEF CourseInv, TypeOK, EnsureCourse, EnsurePlaces, PurgePlaces
<1>3. TypeOK'
  BY <1>1, <1>2 DEF CourseInv, TypeOK, EnsureCourse
<1>4. \A k \in Copies : Discovered(k)' = Discovered(k)
  BY DEF Discovered
<1>5. ASSUME NEW k \in Copies PROVE OnCourse(k)'
  <2>1. OnCourse(k)
    BY DEF CourseInv, LoopInv
  <2>2. /\ queue'[k] \subseteq queue[k] /\ Discovered(k)' = Discovered(k)
        /\ UNCHANGED <<todo[k], host[k], known[k], purge[k]>>
    BY <1>4
  <2>3. CASE k # i
    <3>1. pc'[k] = pc[k] /\ job'[k] = job[k]
      BY <2>3 DEF EnsureCourse
    <3>. QED BY <2>1, <2>2, <3>1 DEF OnCourse
  <2>4. CASE k = i
    BY <2>1, <2>2, <2>4 DEF OnCourse, EnsureCourse, EnsurePlaces, PurgePlaces, CleanupPlaces
  <2>. QED BY <2>3, <2>4
<1>. QED BY <1>3, <1>5 DEF CourseInv, LoopInv

LEMMA RecoverOwnershipCourse ==
    ASSUME CourseInv, NEW i \in Copies, NEW p \in Prov, RecoverOwnership(i, p) PROVE CourseInv'
<1>. DEFINE names == {m.host : m \in OwnMarkers(i, p)}
<1>1. names \in SUBSET Hosts
  BY CfgType DEF CourseInv, TypeOK, OwnMarkers, Marker
<1>. HIDE DEF names
<1>2. known' \in [Copies -> SUBSET Hosts]
  <2>1. known' = known \/ known' = [known EXCEPT ![i] = @ \cup names]
    BY DEF RecoverOwnership, names
  <2>2. known \in [Copies -> SUBSET Hosts]
    BY DEF CourseInv, TypeOK
  <2>. QED BY ONLY <1>1, <2>1, <2>2, i \in Copies
<1>3. route' \in [Copies -> [Hosts -> SUBSET Prov]]
  <2>1. \/ route' = route
        \/ route' = [route EXCEPT ![i] =
             [h \in Hosts |-> IF h \in names THEN route[i][h] \cup {p} ELSE route[i][h]]]
    BY DEF RecoverOwnership, names
  <2>2. route \in [Copies -> [Hosts -> SUBSET Prov]]
    BY DEF CourseInv, TypeOK
  <2>3. [h \in Hosts |-> IF h \in names THEN route[i][h] \cup {p} ELSE route[i][h]]
          \in [Hosts -> SUBSET Prov]
    BY <2>2
  <2>. QED BY ONLY <2>1, <2>2, <2>3, i \in Copies
<1>4. recovered' \in [Copies -> [Hosts -> Metas]]
  <2>1. recovered' = recovered \/ \E last \in [Hosts -> Metas] :
                                    recovered' = [recovered EXCEPT ![i] = last]
    BY DEF RecoverOwnership
  <2>2. recovered \in [Copies -> [Hosts -> Metas]]
    BY DEF CourseInv, TypeOK
  <2>. QED BY ONLY <2>1, <2>2, i \in Copies
<1>5. budget' \in [Kinds -> Nat]
  BY FaultType DEF RecoverOwnership, CourseInv, TypeOK
<1>6. queue' \in [Copies -> SUBSET Prov] /\ pc' \in [Copies -> Places]
      /\ pc[i] = "recover" /\ pc'[i] \in {"recover", "idle"}
      /\ \A k \in Copies \ {i} : pc'[k] = pc[k] /\ queue'[k] = queue[k]
  BY DEF RecoverOwnership, CourseInv, TypeOK, Places
<1>7. TypeOK'
  <2>1. \A k \in Copies : /\ pc'[k] \in EnsurePlaces <=> job'[k] # NoJob
                          /\ pc'[k] \in PurgePlaces <=> purge'[k] # NoJob
    BY <1>6 DEF RecoverOwnership, CourseInv, TypeOK, EnsurePlaces, PurgePlaces
  <2>. QED BY <1>2, <1>3, <1>4, <1>5, <1>6, <2>1 DEF RecoverOwnership, CourseInv, TypeOK
<1>8. LoopInv'
  <2>1. \A k \in Copies \ {i} : known'[k] = known[k]
    BY DEF RecoverOwnership, CourseInv, TypeOK
  <2>2. \A k \in Copies : /\ Discovered(k)' = Discovered(k)
                          /\ todo'[k] = todo[k] /\ host'[k] = host[k]
                          /\ job'[k] = job[k] /\ purge'[k] = purge[k]
    BY DEF RecoverOwnership, Discovered
  <2>. QED BY <1>6, <2>1, <2>2 DEF CourseInv, LoopInv, OnCourse, EnsurePlaces, PurgePlaces, CleanupPlaces
<1>. QED BY <1>7, <1>8 DEF CourseInv

LEMMA EnsureActionCourse ==
    ASSUME CourseInv, NEW i \in Copies, NEW p \in Prov, Ensure(i, p) PROVE CourseInv'
<1>. DEFINE h == host[i]
            s == found[i][h]
            rec == Desired(p, h, s)
            meta == IF s.meta # NoMeta THEN s.meta ELSE recovered[i][h]
<1>1. pc[i] = "ensure" /\ p \in queue[i]
  BY DEF Ensure, First
<1>2. h \in Discovered(i) /\ h \in Hosts /\ s \in Specs
  BY <1>1 DEF CourseInv, TypeOK, LoopInv, OnCourse, Discovered
<1>3. rec \in Data /\ rec.host = h
  BY <1>2, DesiredType DEF CourseInv
<1>4. meta \in Metas
  <2>1. s.meta \in Metas
    BY <1>2, SpecType
  <2>2. recovered[i][h] \in Metas
    BY <1>2 DEF CourseInv, TypeOK
  <2>. QED BY <2>1, <2>2
<1>5. RecordsOf(cache[i][p].data, h) \in SUBSET Data
  BY RecordsOfType DEF CourseInv, TypeOK, CacheEntry
<1>6. EnsureCourse(i)
  <2>1. CASE mapping' = Routed(i, h, p) /\ UNCHANGED <<pc, job>>
    BY <1>1, <1>2, <2>1, RoutedType DEF CourseInv, TypeOK, EnsureCourse, EnsurePlaces
  <2>2. CASE Decide(i, p, rec, meta, RecordsOf(cache[i][p].data, h)) /\ UNCHANGED mapping
    <3>. HIDE DEF h, rec, meta
    <3>. QED BY <1>2, <1>3, <1>4, <1>5, <2>2, DecideCourse
  <2>3. CASE /\ pc' = [pc EXCEPT ![i] = "query"]
             /\ job' = [job EXCEPT ![i] =
                          [host |-> h, prov |-> p, rec |-> rec, meta |-> meta,
                           old |-> rec, stale |-> {}, next |-> "ensure"]]
             /\ UNCHANGED mapping
    <3>. DEFINE j == [host |-> h, prov |-> p, rec |-> rec, meta |-> meta,
                      old |-> rec, stale |-> {}, next |-> "ensure"]
    <3>. HIDE DEF h, rec, meta
    <3>1. j \in Job /\ j.host = h /\ j.rec.host = j.host
      BY <1>2, <1>3, <1>4 DEF Job
    <3>2. j # NoJob
      BY <3>1, NoJobAssumption
    <3>3. job' = [job EXCEPT ![i] = j]
      BY <2>3
    <3>. HIDE DEF j
    <3>4. job' \in [Copies -> Job \cup {NoJob}] /\ job'[i] = j
          /\ \A k \in Copies \ {i} : job'[k] = job[k]
      BY <3>1, <3>3 DEF CourseInv, TypeOK
    <3>5. pc' \in [Copies -> Places] /\ pc'[i] = "query"
          /\ \A k \in Copies \ {i} : pc'[k] = pc[k]
      BY <2>3 DEF CourseInv, TypeOK, Places
    <3>6. mapping' \in [Copies -> [Hosts -> SUBSET Prov]]
      BY <2>3 DEF CourseInv, TypeOK
    <3>. QED BY <1>2, <3>1, <3>2, <3>4, <3>5, <3>6 DEF EnsureCourse, EnsurePlaces
  <2>. QED BY <2>1, <2>2, <2>3 DEF Ensure
<1>7. recovered' \in [Copies -> [Hosts -> Metas]]
  <2>1. [recovered[i] EXCEPT ![h] = NoMeta] \in [Hosts -> Metas]
    BY NullAssumption DEF CourseInv, TypeOK
  <2>2. \/ recovered' = recovered
        \/ recovered' = [recovered EXCEPT ![i] = [recovered[i] EXCEPT ![h] = NoMeta]]
    BY DEF Ensure
  <2>. QED BY <2>1, <2>2 DEF CourseInv, TypeOK
<1>8. queue' \in [Copies -> SUBSET Prov] /\ \A k \in Copies : queue'[k] \subseteq queue[k]
  BY DEF Ensure, CourseInv, TypeOK
<1>9. /\ zone' \in [Backends -> SUBSET Data]
      /\ txt' \in [Backends -> SUBSET Marker]
      /\ budget' \in [Kinds -> Nat]
      /\ marked' \in [Backends -> SUBSET (Hosts \X Ids)]
  BY DEF Ensure, CourseInv, TypeOK
<1>10. UNCHANGED <<want, aim, enabled, dryRun, known, route, found, cache, todo, host,
                   purge, seen, purged>>
  BY DEF Ensure
<1>. QED BY <1>1, <1>6, <1>7, <1>8, <1>9, <1>10, EnsureStepCourse

LEMMA QueryCourse ==
    ASSUME CourseInv, NEW i \in Copies, Query(i) PROVE CourseInv'
<1>1. pc[i] \in EnsurePlaces
  BY DEF Query, EnsurePlaces
<1>2. job[i].rec.host \in Discovered(i)
  BY <1>1, JobType
<1>3. RecordsOf(zone[Cfg[job[i].prov].backend], job[i].host) \in SUBSET Data
  BY <1>1, JobType, CfgType, RecordsOfType DEF CourseInv, TypeOK
<1>4. EnsureCourse(i)
  BY <1>1, <1>2, <1>3, JobType, DecideCourse DEF Query
<1>5. zone' \in [Backends -> SUBSET Data] /\ budget' \in [Kinds -> Nat]
  BY FaultType DEF Query, CourseInv, TypeOK
<1>6. /\ txt' \in [Backends -> SUBSET Marker]
      /\ recovered' \in [Copies -> [Hosts -> Metas]]
      /\ marked' \in [Backends -> SUBSET (Hosts \X Ids)]
      /\ queue' \in [Copies -> SUBSET Prov]
      /\ \A k \in Copies : queue'[k] \subseteq queue[k]
      /\ UNCHANGED <<want, aim, enabled, dryRun, known, route, found, cache, todo, host,
                     purge, seen, purged>>
  BY DEF Query, CourseInv, TypeOK
<1>. QED BY <1>1, <1>4, <1>5, <1>6, EnsureStepCourse

LEMMA DeleteStaleCourse ==
    ASSUME CourseInv, NEW i \in Copies, DeleteStale(i) PROVE CourseInv'
<1>1. pc[i] = "stale" /\ pc[i] \in EnsurePlaces
  BY DEF DeleteStale, EnsurePlaces
<1>2. PICK r \in job[i].stale, err \in Faults :
          /\ Delete(job[i].prov, r, err)
          /\ IF job[i].stale = {r} /\ job[i].next = "ensure"
             THEN Return(i, FALSE)
             ELSE /\ job' = [job EXCEPT ![i].stale = @ \ {r}]
                  /\ pc' = [pc EXCEPT ![i] = IF job[i].stale = {r} THEN job[i].next ELSE @]
                  /\ UNCHANGED mapping
  BY DEF DeleteStale
<1>3. EnsureCourse(i)
  <2>1. CASE Return(i, FALSE)
    BY <1>1, <2>1, ReturnCourse
  <2>2. CASE /\ ~(job[i].stale = {r} /\ job[i].next = "ensure")
             /\ job' = [job EXCEPT ![i].stale = @ \ {r}]
             /\ pc' = [pc EXCEPT ![i] = IF job[i].stale = {r} THEN job[i].next ELSE @]
             /\ UNCHANGED mapping
    <3>. DEFINE j == [job[i] EXCEPT !.stale = job[i].stale \ {r}]
    <3>1. j \in Job /\ j.host = job[i].host /\ j.rec = job[i].rec
      BY <1>1, JobType DEF Job
    <3>2. j # NoJob
      BY <3>1, NoJobAssumption
    <3>3. job' = [job EXCEPT ![i] = j]
      BY <2>2
    <3>. HIDE DEF j
    <3>4. job' \in [Copies -> Job \cup {NoJob}] /\ job'[i] = j
          /\ \A k \in Copies \ {i} : job'[k] = job[k]
      BY <3>1, <3>3 DEF CourseInv, TypeOK
    <3>5. (IF job[i].stale = {r} THEN job[i].next ELSE pc[i]) \in EnsurePlaces
      BY <1>1, <2>2, JobType DEF EnsurePlaces
    <3>6. pc' \in [Copies -> Places] /\ pc'[i] \in EnsurePlaces
          /\ \A k \in Copies \ {i} : pc'[k] = pc[k]
      BY <2>2, <3>5 DEF CourseInv, TypeOK, EnsurePlaces, Places
    <3>7. mapping' \in [Copies -> [Hosts -> SUBSET Prov]] /\ "ensure" \notin EnsurePlaces
      BY <2>2 DEF CourseInv, TypeOK, EnsurePlaces
    <3>. QED BY <1>1, JobType, <3>1, <3>2, <3>4, <3>6, <3>7 DEF EnsureCourse
  <2>. QED BY <1>2, <2>1, <2>2
<1>4. zone' \in [Backends -> SUBSET Data] /\ budget' \in [Kinds -> Nat]
  BY <1>1, <1>2, JobType, DeleteType DEF CourseInv
<1>5. /\ txt' \in [Backends -> SUBSET Marker]
      /\ recovered' \in [Copies -> [Hosts -> Metas]]
      /\ marked' \in [Backends -> SUBSET (Hosts \X Ids)]
      /\ queue' \in [Copies -> SUBSET Prov]
      /\ \A k \in Copies : queue'[k] \subseteq queue[k]
      /\ UNCHANGED <<want, aim, enabled, dryRun, known, route, found, cache, todo, host,
                     purge, seen, purged>>
  BY DEF DeleteStale, CourseInv, TypeOK
<1>. QED BY <1>1, <1>3, <1>4, <1>5, EnsureStepCourse

LEMMA UpdateCourse ==
    ASSUME CourseInv, NEW i \in Copies, Update(i) PROVE CourseInv'
<1>. DEFINE b == Cfg[job[i].prov].backend
<1>1. pc[i] \in EnsurePlaces
  BY DEF Update, EnsurePlaces
<1>2. b \in Backends /\ job[i].rec \in Data
  BY <1>1, JobType, CfgType
<1>3. EnsureCourse(i)
  BY <1>1, ReturnCourse, ReturnMarkingCourse DEF Update
<1>4. budget' \in [Kinds -> Nat]
  BY BudgetType DEF Update, CourseInv, TypeOK
<1>5. zone' \in [Backends -> SUBSET Data]
  <2>1. zone' = zone \/ \E x : zone' = [zone EXCEPT ![b] = (@ \ {x}) \cup {job[i].rec}]
    BY DEF Update
  <2>2. zone \in [Backends -> SUBSET Data]
    BY DEF CourseInv, TypeOK
  <2>. HIDE DEF b
  <2>3. ASSUME NEW x PROVE (zone[b] \ {x}) \cup {job[i].rec} \in SUBSET Data
    BY <1>2, <2>2
  <2>. QED BY <1>2, <2>1, <2>2, <2>3
<1>6. /\ txt' \in [Backends -> SUBSET Marker]
      /\ recovered' \in [Copies -> [Hosts -> Metas]]
      /\ marked' \in [Backends -> SUBSET (Hosts \X Ids)]
      /\ queue' \in [Copies -> SUBSET Prov]
      /\ \A k \in Copies : queue'[k] \subseteq queue[k]
      /\ UNCHANGED <<want, aim, enabled, dryRun, known, route, found, cache, todo, host,
                     purge, seen, purged>>
  BY DEF Update, CourseInv, TypeOK
<1>. QED BY <1>1, <1>3, <1>4, <1>5, <1>6, EnsureStepCourse

LEMMA DeleteForUpdateCourse ==
    ASSUME CourseInv, NEW i \in Copies, DeleteForUpdate(i) PROVE CourseInv'
<1>1. pc[i] \in EnsurePlaces
  BY DEF DeleteForUpdate, EnsurePlaces
<1>2. EnsureCourse(i)
  <2>1. CASE pc' = [pc EXCEPT ![i] = "recreate"] /\ UNCHANGED <<job, mapping>>
    <3>1. job[i] # NoJob /\ job[i].host \in Discovered(i) /\ job[i].rec.host = job[i].host
      BY <1>1 DEF CourseInv, TypeOK, LoopInv, OnCourse
    <3>. QED BY <2>1, <3>1 DEF CourseInv, TypeOK, EnsureCourse, EnsurePlaces, Places
  <2>2. CASE Return(i, TRUE)
    BY <1>1, <2>2, ReturnCourse
  <2>. QED BY <2>1, <2>2 DEF DeleteForUpdate
<1>3. zone' \in [Backends -> SUBSET Data] /\ budget' \in [Kinds -> Nat]
  BY <1>1, JobType, DeleteType DEF DeleteForUpdate, CourseInv
<1>4. /\ txt' \in [Backends -> SUBSET Marker]
      /\ recovered' \in [Copies -> [Hosts -> Metas]]
      /\ marked' \in [Backends -> SUBSET (Hosts \X Ids)]
      /\ queue' \in [Copies -> SUBSET Prov]
      /\ \A k \in Copies : queue'[k] \subseteq queue[k]
      /\ UNCHANGED <<want, aim, enabled, dryRun, known, route, found, cache, todo, host,
                     purge, seen, purged>>
  BY DEF DeleteForUpdate, CourseInv, TypeOK
<1>. QED BY <1>1, <1>2, <1>3, <1>4, EnsureStepCourse

LEMMA CreateCourse ==
    ASSUME CourseInv, NEW i \in Copies, Create(i) PROVE CourseInv'
<1>. DEFINE b == Cfg[job[i].prov].backend
<1>1. pc[i] \in EnsurePlaces
  BY DEF Create, EnsurePlaces
<1>2. b \in Backends /\ job[i].rec \in Data
  BY <1>1, JobType, CfgType
<1>3. EnsureCourse(i)
  BY <1>1, ReturnCourse, ReturnMarkingCourse DEF Create
<1>4. budget' \in [Kinds -> Nat]
  BY BudgetType DEF Create, CourseInv, TypeOK
<1>5. zone' \in [Backends -> SUBSET Data]
  <2>1. zone' = zone \/ zone' = [zone EXCEPT ![b] = @ \cup {job[i].rec}]
    BY DEF Create
  <2>2. zone \in [Backends -> SUBSET Data]
    BY DEF CourseInv, TypeOK
  <2>. HIDE DEF b
  <2>3. zone[b] \cup {job[i].rec} \in SUBSET Data
    BY <1>2, <2>2
  <2>. QED BY <1>2, <2>1, <2>2, <2>3
<1>6. /\ txt' \in [Backends -> SUBSET Marker]
      /\ recovered' \in [Copies -> [Hosts -> Metas]]
      /\ marked' \in [Backends -> SUBSET (Hosts \X Ids)]
      /\ queue' \in [Copies -> SUBSET Prov]
      /\ \A k \in Copies : queue'[k] \subseteq queue[k]
      /\ UNCHANGED <<want, aim, enabled, dryRun, known, route, found, cache, todo, host,
                     purge, seen, purged>>
  BY DEF Create, CourseInv, TypeOK
<1>. QED BY <1>1, <1>3, <1>4, <1>5, <1>6, EnsureStepCourse

LEMMA CreateOwnershipCourse ==
    ASSUME CourseInv, NEW i \in Copies, CreateOwnership(i) PROVE CourseInv'
<1>. DEFINE b == Cfg[job[i].prov].backend
            m == [host |-> job[i].host, id |-> Opt[i].id, meta |-> job[i].meta]
<1>1. pc[i] \in EnsurePlaces
  BY DEF CreateOwnership, EnsurePlaces
<1>2. b \in Backends /\ m \in Marker /\ <<job[i].host, Opt[i].id>> \in Hosts \X Ids
  BY <1>1, JobType, CfgType, OptType DEF Marker
<1>3. EnsureCourse(i)
  BY <1>1, ReturnCourse DEF CreateOwnership
<1>4. zone' \in [Backends -> SUBSET Data] /\ budget' \in [Kinds -> Nat]
  BY BudgetType DEF CreateOwnership, CourseInv, TypeOK
<1>5. /\ txt' \in [Backends -> SUBSET Marker]
      /\ marked' \in [Backends -> SUBSET (Hosts \X Ids)]
  <2>1. /\ txt' = txt \/ txt' = [txt EXCEPT ![b] = @ \cup {m}]
        /\ marked' = marked \/ marked' = [marked EXCEPT ![b] = @ \cup {<<job[i].host, Opt[i].id>>}]
    BY DEF CreateOwnership
  <2>2. txt \in [Backends -> SUBSET Marker] /\ marked \in [Backends -> SUBSET (Hosts \X Ids)]
    BY DEF CourseInv, TypeOK
  <2>. HIDE DEF b, m
  <2>3. txt[b] \cup {m} \in SUBSET Marker
    BY <1>2, <2>2
  <2>4. marked[b] \cup {<<job[i].host, Opt[i].id>>} \in SUBSET (Hosts \X Ids)
    BY <1>2, <2>2
  <2>. QED BY <1>2, <2>1, <2>2, <2>3, <2>4
<1>6. /\ recovered' \in [Copies -> [Hosts -> Metas]]
      /\ queue' \in [Copies -> SUBSET Prov]
      /\ \A k \in Copies : queue'[k] \subseteq queue[k]
      /\ UNCHANGED <<want, aim, enabled, dryRun, known, route, found, cache, todo, host,
                     purge, seen, purged>>
  BY DEF CreateOwnership, CourseInv, TypeOK
<1>. QED BY <1>1, <1>3, <1>4, <1>5, <1>6, EnsureStepCourse

-----------------------------------------------------------------------------
(* The cleanup loop. *)

Paths == {"managed", "authoritative", "target", "cache"}

LEMMA DeletePathType ==
    ASSUME NEW i \in Copies, NEW p \in Prov PROVE DeletePath(i, p) \in Paths \cup {"none"}
  BY CfgType, OptType DEF DeletePath, Modes, Paths

LEMMA DeleteNextType ==
    ASSUME NEW i, NEW path \in Paths, NEW R
    PROVE  DeleteNext(i, path, R) \in {"delete", "disown", "orphan"}
  BY DEF DeleteNext, Disowns, Paths

\* The part of CourseInv about the variables that calls in the cleanup loop change, and
\* which provider instance and delete function a deletion under way belongs to.
PurgeCourse(i, p, path) ==
    /\ pc' \in [Copies -> Places]
    /\ purge' \in [Copies -> Purge \cup {NoJob}]
    /\ \A k \in Copies \ {i} : pc'[k] = pc[k] /\ purge'[k] = purge[k]
    /\ pc'[i] \in CleanupPlaces
    /\ pc'[i] \in PurgePlaces => /\ purge'[i] # NoJob
                                /\ purge'[i].host = host[i] /\ host[i] # NoHost
                                /\ purge'[i].prov = p /\ purge'[i].path = path
    /\ pc'[i] = "orphan" => purge'[i] = NoJob

LEMMA PurgeType ==
    ASSUME CourseInv, NEW i \in Copies, pc[i] \in PurgePlaces
    PROVE  /\ purge[i] \in Purge
           /\ purge[i].host = host[i]
           /\ host[i] \in Hosts
           /\ purge[i].prov \in Prov
           /\ purge[i].target \in Targets
           /\ purge[i].dry \in BOOLEAN
           /\ purge[i].path \in Paths
           /\ purge[i].left \in SUBSET Data
<1>1. purge[i] \in Purge /\ purge[i].host = host[i] /\ host[i] \in Hosts
  BY DEF CourseInv, TypeOK, LoopInv, OnCourse
<1>. QED BY <1>1 DEF Purge, Paths

\* Entering a deletion q leaves every copy on course.
LEMMA PutPurgeCourse ==
    ASSUME CourseInv, NEW i \in Copies, host[i] \in Hosts, NEW q \in Purge, q.host = host[i],
           NEW place \in PurgePlaces,
           pc' = [pc EXCEPT ![i] = place], purge' = [purge EXCEPT ![i] = q]
    PROVE  PurgeCourse(i, q.prov, q.path)
<1>1. q # NoJob
  BY NoJobAssumption
<1>2. place \in Places /\ place \in CleanupPlaces /\ "orphan" \notin PurgePlaces
  BY DEF PurgePlaces, CleanupPlaces, Places
<1>3. pc \in [Copies -> Places] /\ purge \in [Copies -> Purge \cup {NoJob}]
  BY DEF CourseInv, TypeOK
<1>4. host[i] # NoHost
  BY NullAssumption
<1>5. /\ pc' \in [Copies -> Places] /\ pc'[i] = place
      /\ purge' \in [Copies -> Purge \cup {NoJob}] /\ purge'[i] = q
      /\ \A k \in Copies \ {i} : pc'[k] = pc[k] /\ purge'[k] = purge[k]
  BY <1>2, <1>3
<1>. QED BY <1>1, <1>2, <1>4, <1>5 DEF PurgeCourse

\* Leaving a deletion does too.
LEMMA DropPurgeCourse ==
    ASSUME CourseInv, NEW i \in Copies, NEW p, NEW path,
           pc' = [pc EXCEPT ![i] = "orphan"], purge' = [purge EXCEPT ![i] = NoJob]
    PROVE  PurgeCourse(i, p, path)
  BY DEF CourseInv, TypeOK, PurgeCourse, PurgePlaces, CleanupPlaces, Places

LEMMA SetPurgeCourse ==
    ASSUME CourseInv, NEW i \in Copies, host[i] \in Hosts, NEW path \in Paths,
           NEW p \in Prov, NEW target \in Targets, NEW dry \in BOOLEAN,
           NEW R \in SUBSET Data, SetPurge(i, path, p, target, dry, R)
    PROVE  PurgeCourse(i, p, path)
<1>. DEFINE next == DeleteNext(i, path, R)
            q == [host |-> host[i], prov |-> p, path |-> path,
                  target |-> target, dry |-> dry, left |-> R]
<1>1. next \in {"delete", "disown", "orphan"}
  BY DeleteNextType
<1>2. pc' = [pc EXCEPT ![i] = next]
      /\ purge' = [purge EXCEPT ![i] = IF next = "orphan" THEN NoJob ELSE q]
  BY DEF SetPurge
<1>. HIDE DEF next
<1>3. CASE next = "orphan"
  BY <1>2, <1>3, DropPurgeCourse
<1>4. CASE next # "orphan"
  <2>1. q \in Purge /\ q.host = host[i] /\ q.prov = p /\ q.path = path
    BY DEF Purge, Paths
  <2>2. next \in PurgePlaces
    BY <1>1, <1>4 DEF PurgePlaces
  <2>3. purge' = [purge EXCEPT ![i] = q]
    BY <1>2, <1>4
  <2>. HIDE DEF q
  <2>4. PurgeCourse(i, q.prov, q.path)
    BY <1>2, <2>1, <2>2, <2>3, PutPurgeCourse
  <2>. QED BY <2>1, <2>4
<1>. QED BY <1>3, <1>4

\* PurgeCourse is all that a step of the cleanup loop has to show.
LEMMA PurgeStepCourse ==
    ASSUME CourseInv, NEW i \in Copies, NEW p, NEW path,
           pc[i] \in CleanupPlaces,
           PurgeCourse(i, p, path),
           zone' \in [Backends -> SUBSET Data],
           txt' \in [Backends -> SUBSET Marker],
           budget' \in [Kinds -> Nat],
           purged' \subseteq Copies \X Prov \X Hosts,
           queue' \in [Copies -> SUBSET Prov],
           \A k \in Copies : queue'[k] \subseteq queue[k],
           UNCHANGED <<want, aim, enabled, dryRun, known, route, recovered, found, cache,
                       mapping, todo, host, job, marked, seen>>
    PROVE  CourseInv'
<1>1. \A k \in Copies : pc'[k] \in PurgePlaces <=> purge'[k] # NoJob
  BY DEF CourseInv, TypeOK, PurgeCourse, PurgePlaces, CleanupPlaces
<1>2. \A k \in Copies : pc'[k] \in EnsurePlaces <=> job'[k] # NoJob
  BY DEF CourseInv, TypeOK, PurgeCourse, EnsurePlaces, PurgePlaces, CleanupPlaces
<1>3. TypeOK'
  BY <1>1, <1>2 DEF CourseInv, TypeOK, PurgeCourse
<1>4. ASSUME NEW k \in Copies PROVE OnCourse(k)'
  <2>1. OnCourse(k)
    BY DEF CourseInv, LoopInv
  <2>2. /\ queue'[k] \subseteq queue[k] /\ Discovered(k)' = Discovered(k)
        /\ UNCHANGED <<todo[k], host[k], known[k], job[k]>>
    BY DEF Discovered
  <2>3. CASE k # i
    <3>1. pc'[k] = pc[k] /\ purge'[k] = purge[k]
      BY <2>3 DEF PurgeCourse
    <3>. QED BY <2>1, <2>2, <3>1 DEF OnCourse
  <2>4. CASE k = i
    BY <2>1, <2>2, <2>4 DEF OnCourse, PurgeCourse, EnsurePlaces, PurgePlaces, CleanupPlaces
  <2>. QED BY <2>3, <2>4
<1>. QED BY <1>3, <1>4 DEF CourseInv, LoopInv

LEMMA OrphanPurge ==
    ASSUME CourseInv, NEW i \in Copies, NEW p \in Prov, Orphan(i, p)
    PROVE  /\ host[i] \in Hosts
           /\ PurgeCourse(i, p, DeletePath(i, p))
           /\ pc'[i] \in PurgePlaces => 
                 ~ (DeletePath(i, p) = "managed" /\ ~HasOwnership(i, p, host[i]))
<1>. DEFINE path == DeletePath(i, p)
            R == RecordsOf(cache[i][p].data, host[i])
            skips == path = "none" \/ (path = "managed" /\ ~HasOwnership(i, p, host[i]))
<1>1. pc[i] = "orphan" /\ queue[i] # {}
  BY DEF Orphan, First
<1>2. host[i] \in Hosts /\ aim[p] \in Targets /\ dryRun[i] \in BOOLEAN
  BY <1>1 DEF CourseInv, TypeOK, LoopInv, OnCourse, CleanupPlaces
<1>3. R \in SUBSET Data
  BY RecordsOfType DEF CourseInv, TypeOK, CacheEntry
<1>4. path \in Paths \cup {"none"}
  BY DeletePathType
<1>5. CASE skips /\ UNCHANGED <<pc, purge>>
  <2>1. PurgeCourse(i, p, path)
    BY <1>1, <1>5 DEF CourseInv, TypeOK, PurgeCourse, PurgePlaces, CleanupPlaces
  <2>. QED BY <1>1, <1>2, <1>5, <2>1 DEF PurgePlaces
<1>6. CASE ~skips /\ SetPurge(i, path, p, aim[p], dryRun[i], Doomed(path, p, aim[p], R))
  <2>1. path \in Paths
    BY <1>4, <1>6
  <2>. HIDE DEF path, R
  <2>2. Doomed(path, p, aim[p], R) \in SUBSET Data
    BY <1>3, <2>1, DoomedType DEF Paths
  <2>3. PurgeCourse(i, p, path)
    BY <1>2, <1>6, <2>1, <2>2, SetPurgeCourse
  <2>. QED BY <1>2, <1>6, <2>3 DEF path
<1>7. CASE /\ ~skips
           /\ pc' = [pc EXCEPT ![i] = "list"]
           /\ purge' = [purge EXCEPT ![i] =
                          [host |-> host[i], prov |-> p, path |-> path,
                           target |-> aim[p], dry |-> FALSE, left |-> {}]]
  <2>. DEFINE q == [host |-> host[i], prov |-> p, path |-> path,
                    target |-> aim[p], dry |-> FALSE, left |-> {}]
  <2>1. path \in Paths
    BY <1>4, <1>7
  <2>2. purge' = [purge EXCEPT ![i] = q]
    BY <1>7
  <2>. HIDE DEF path
  <2>3. q \in Purge /\ q.host = host[i] /\ q.prov = p /\ q.path = path
    BY <1>2, <2>1 DEF Purge, Paths
  <2>. HIDE DEF q
  <2>4. PurgeCourse(i, q.prov, q.path)
    BY <1>2, <1>7, <2>2, <2>3, PutPurgeCourse DEF PurgePlaces
  <2>. QED BY <1>2, <1>7, <2>3, <2>4 DEF path
<1>. QED BY <1>5, <1>6, <1>7 DEF Orphan

LEMMA OrphanCourse ==
    ASSUME CourseInv, NEW i \in Copies, NEW p \in Prov, Orphan(i, p) PROVE CourseInv'
<1>1. pc[i] \in CleanupPlaces
  BY DEF Orphan, CleanupPlaces
<1>2. /\ zone' \in [Backends -> SUBSET Data]
      /\ txt' \in [Backends -> SUBSET Marker]
      /\ budget' \in [Kinds -> Nat]
      /\ purged' \subseteq Copies \X Prov \X Hosts
      /\ queue' \in [Copies -> SUBSET Prov]
      /\ \A k \in Copies : queue'[k] \subseteq queue[k]
      /\ UNCHANGED <<want, aim, enabled, dryRun, known, route, recovered, found, cache,
                     mapping, todo, host, job, marked, seen>>
  BY DEF Orphan, CourseInv, TypeOK
<1>. QED BY <1>1, <1>2, OrphanPurge, PurgeStepCourse

LEMMA ListOrphanPurge ==
    ASSUME CourseInv, NEW i \in Copies, ListOrphan(i)
    PROVE  PurgeCourse(i, purge[i].prov, purge[i].path)
<1>. DEFINE u == purge[i]
            R == RecordsOf(zone[Cfg[u.prov].backend], u.host)
<1>1. pc[i] \in PurgePlaces
  BY DEF ListOrphan, PurgePlaces
<1>2. R \in SUBSET Data
  BY <1>1, PurgeType, CfgType, RecordsOfType DEF CourseInv, TypeOK
<1>3. Doomed(u.path, u.prov, u.target, R) \in SUBSET Data
  <2>. HIDE DEF u, R
  <2>1. u.path \in Paths
    BY <1>1, PurgeType DEF u
  <2>. QED BY <1>2, <2>1, DoomedType DEF Paths
<1>4. dryRun[i] \in BOOLEAN
  BY DEF CourseInv, TypeOK
<1>5. CASE SetPurge(i, u.path, u.prov, u.target, dryRun[i],
                    Doomed(u.path, u.prov, u.target, R))
  BY <1>1, <1>3, <1>4, <1>5, PurgeType, SetPurgeCourse
<1>6. CASE /\ pc' = [pc EXCEPT ![i] = "orphan"]
           /\ purge' = [purge EXCEPT ![i] = NoJob]
  BY <1>6, DropPurgeCourse
<1>. QED BY <1>5, <1>6 DEF ListOrphan

LEMMA ListOrphanCourse ==
    ASSUME CourseInv, NEW i \in Copies, ListOrphan(i) PROVE CourseInv'
<1>1. pc[i] \in CleanupPlaces
  BY DEF ListOrphan, PurgePlaces, CleanupPlaces
<1>2. budget' \in [Kinds -> Nat]
  BY FaultType DEF ListOrphan, CourseInv, TypeOK
<1>3. /\ zone' \in [Backends -> SUBSET Data]
      /\ txt' \in [Backends -> SUBSET Marker]
      /\ purged' \subseteq Copies \X Prov \X Hosts
      /\ queue' \in [Copies -> SUBSET Prov]
      /\ \A k \in Copies : queue'[k] \subseteq queue[k]
      /\ UNCHANGED <<want, aim, enabled, dryRun, known, route, recovered, found, cache,
                     mapping, todo, host, job, marked, seen>>
  BY DEF ListOrphan, CourseInv, TypeOK
<1>. QED BY <1>1, <1>2, <1>3, ListOrphanPurge, PurgeStepCourse

LEMMA DeleteOrphanPurge ==
    ASSUME CourseInv, NEW i \in Copies, DeleteOrphan(i)
    PROVE  PurgeCourse(i, purge[i].prov, purge[i].path)
<1>. DEFINE u == purge[i]
<1>1. pc[i] \in PurgePlaces
  BY DEF DeleteOrphan, PurgePlaces
<1>2. PICK r \in u.left : SetPurge(i, u.path, u.prov, u.target, u.dry, u.left \ {r})
  BY DEF DeleteOrphan
<1>3. u.left \ {r} \in SUBSET Data
  BY <1>1, PurgeType
<1>. QED BY <1>1, <1>2, <1>3, PurgeType, SetPurgeCourse

LEMMA DeleteOrphanCourse ==
    ASSUME CourseInv, NEW i \in Copies, DeleteOrphan(i) PROVE CourseInv'
<1>1. pc[i] \in PurgePlaces /\ pc[i] \in CleanupPlaces
  BY DEF DeleteOrphan, PurgePlaces, CleanupPlaces
<1>2. zone' \in [Backends -> SUBSET Data] /\ budget' \in [Kinds -> Nat]
  <2>1. UNCHANGED <<zone, budget>> \/ \E r, err : Delete(purge[i].prov, r, err)
    BY DEF DeleteOrphan
  <2>2. CASE UNCHANGED <<zone, budget>>
    BY <2>2 DEF CourseInv, TypeOK
  <2>. QED BY <1>1, <2>1, <2>2, PurgeType, DeleteType DEF CourseInv
<1>3. purged' \subseteq Copies \X Prov \X Hosts
  <2>1. <<i, purge[i].prov, purge[i].host>> \in Copies \X Prov \X Hosts
    BY <1>1, PurgeType
  <2>2. purged' = purged \/ purged' = purged \cup {<<i, purge[i].prov, purge[i].host>>}
    BY DEF DeleteOrphan
  <2>3. purged \subseteq Copies \X Prov \X Hosts
    BY DEF CourseInv, TypeOK
  <2>. QED BY <2>1, <2>2, <2>3
<1>4. /\ txt' \in [Backends -> SUBSET Marker]
      /\ queue' \in [Copies -> SUBSET Prov]
      /\ \A k \in Copies : queue'[k] \subseteq queue[k]
      /\ UNCHANGED <<want, aim, enabled, dryRun, known, route, recovered, found, cache,
                     mapping, todo, host, job, marked, seen>>
  BY DEF DeleteOrphan, CourseInv, TypeOK
<1>. QED BY <1>1, <1>2, <1>3, <1>4, DeleteOrphanPurge, PurgeStepCourse

LEMMA DeleteOwnershipPurge ==
    ASSUME CourseInv, NEW i \in Copies, DeleteOwnership(i)
    PROVE  PurgeCourse(i, purge[i].prov, purge[i].path)
  BY DropPurgeCourse DEF DeleteOwnership

LEMMA DeleteOwnershipCourse ==
    ASSUME CourseInv, NEW i \in Copies, DeleteOwnership(i) PROVE CourseInv'
<1>. DEFINE b == Cfg[purge[i].prov].backend
<1>1. pc[i] \in PurgePlaces /\ pc[i] \in CleanupPlaces
  BY DEF DeleteOwnership, PurgePlaces, CleanupPlaces
<1>2. budget' \in [Kinds -> Nat]
  BY BudgetType DEF DeleteOwnership, CourseInv, TypeOK
<1>3. txt' \in [Backends -> SUBSET Marker]
  <2>1. txt' = txt \/ \E m : txt' = [txt EXCEPT ![b] = @ \ {m}]
    BY DEF DeleteOwnership
  <2>2. b \in Backends /\ txt \in [Backends -> SUBSET Marker]
    BY <1>1, PurgeType, CfgType DEF CourseInv, TypeOK
  <2>. HIDE DEF b
  <2>3. ASSUME NEW m PROVE txt[b] \ {m} \in SUBSET Marker
    BY <2>2
  <2>. QED BY <2>1, <2>2, <2>3
<1>4. /\ zone' \in [Backends -> SUBSET Data]
      /\ purged' \subseteq Copies \X Prov \X Hosts
      /\ queue' \in [Copies -> SUBSET Prov]
      /\ \A k \in Copies : queue'[k] \subseteq queue[k]
      /\ UNCHANGED <<want, aim, enabled, dryRun, known, route, recovered, found, cache,
                     mapping, todo, host, job, marked, seen>>
  BY DEF DeleteOwnership, CourseInv, TypeOK
<1>. QED BY <1>1, <1>2, <1>3, <1>4, DeleteOwnershipPurge, PurgeStepCourse

-----------------------------------------------------------------------------
(* Type correctness and the course of the loops. *)

LEMMA StepCourse ==
    ASSUME CourseInv, NEW i \in Copies, Step(i) PROVE CourseInv'
  BY StartCourse, RecoverOwnershipCourse, FillCacheCourse, EnsureActionCourse, OrphanCourse,
     BeginCourse, CacheFilledCourse, NextHostCourse, QueryCourse, DeleteStaleCourse,
     UpdateCourse, DeleteForUpdateCourse, CreateCourse, CreateOwnershipCourse,
     BeginCleanupCourse, NextOrphanCourse, ListOrphanCourse, DeleteOrphanCourse,
     DeleteOwnershipCourse, CommitCourse DEF Step

LEMMA EnvironmentCourse ==
    ASSUME CourseInv, Environment PROVE CourseInv'
  BY CrashCourse, SetDryRunCourse, SetEnabledCourse, ChangeWorkloadCourse,
     SetDynamicTargetCourse, EditZoneCourse DEF Environment

LEMMA NextCourse ==
    ASSUME CourseInv, [Next]_vars PROVE CourseInv'
<1>1. CASE UNCHANGED vars
  <2>1. TypeOK'
    BY <1>1 DEF vars, CourseInv, TypeOK
  <2>2. LoopInv'
    BY <1>1 DEF vars, CourseInv, LoopInv, OnCourse, Discovered
  <2>. QED BY <2>1, <2>2 DEF CourseInv
<1>. QED BY <1>1, StepCourse, EnvironmentCourse DEF Next

\* In every reachable state every variable has its type, and the locals of
\* ensureRecordForProvider and of the delete functions exist exactly while a copy is
\* inside them, whatever fails, crashes or is changed between the calls of a cycle.
THEOREM TypeCorrect == Spec => []TypeOK
<1>1. Init => CourseInv
  BY InitCourse
<1>2. CourseInv /\ [Next]_vars => CourseInv'
  BY NextCourse
<1>3. CourseInv => TypeOK
  BY DEF CourseInv
<1>. QED BY <1>1, <1>2, <1>3, PTL DEF Spec

\* Across every call of a cycle the ensure loop works on host names this cycle
\* discovered, and the cleanup loop on known host names it did not discover, so the two
\* loops of Reconcile never work against each other on a host name.
THEOREM LoopsOnCourse == Spec => []LoopInv
<1>1. Init => CourseInv
  BY InitCourse
<1>2. CourseInv /\ [Next]_vars => CourseInv'
  BY NextCourse
<1>3. CourseInv => LoopInv
  BY DEF CourseInv
<1>. QED BY <1>1, <1>2, <1>3, PTL DEF Spec

-----------------------------------------------------------------------------
(* Ownership. *)

\* What a step may do to the markers and to the record caches.
MarkersGenuine ==
    \A b \in Backends : /\ marked[b] \subseteq marked'[b]
                        /\ \A m \in txt'[b] : m \in txt[b] \/ <<m.host, m.id>> \in marked'[b]
CachesGenuine ==
    \A i \in Copies, p \in Prov :
        cache'[i][p].txt \in {cache[i][p].txt, {}, txt[Cfg[p].backend]}

\* What a step may add to the removals of cleanup.
Owned(e) ==
    e[2] \in Prov /\ (DeletePath(e[1], e[2]) = "managed" => OnceMarked(e[1], e[2], e[3]))
PurgesGenuine == \A e \in purged' : e \in purged \/ Owned(e)

LEMMA InitOwnership == Init => OwnershipInv
<1>. SUFFICES ASSUME Init PROVE OwnershipInv OBVIOUS
<1>1. \A b \in Backends : \A m \in txt[b] : <<m.host, m.id>> \in marked[b]
  BY DEF Init
<1>2. \A i \in Copies, p \in Prov : cache[i][p].txt = {}
  BY DEF Init, EmptyCache, NotCached
<1>3. \A i \in Copies : pc[i] \notin PurgePlaces
  BY DEF Init, PurgePlaces
<1>4. ManagedPurgesOnlyMarked
  BY DEF Init, ManagedPurgesOnlyMarked
<1>. QED BY <1>1, <1>2, <1>3, <1>4 DEF OwnershipInv

\* What a step has to show; DeletePath depends on the configuration alone.
LEMMA OwnershipStep ==
    ASSUME CourseInv, OwnershipInv, MarkersGenuine, CachesGenuine, PurgesGenuine,
           \A i \in Copies : pc'[i] \in PurgePlaces => PurgeIsOwned(i)'
    PROVE  OwnershipInv'
<1>1. \A b \in Backends : \A m \in txt'[b] : <<m.host, m.id>> \in marked'[b]
  BY DEF OwnershipInv, MarkersGenuine
<1>2. ASSUME NEW i \in Copies, NEW p \in Prov, NEW m \in cache'[i][p].txt
      PROVE  <<m.host, m.id>> \in marked'[Cfg[p].backend]
  BY CfgType DEF OwnershipInv, MarkersGenuine, CachesGenuine
<1>3. ManagedPurgesOnlyMarked'
  <2>. SUFFICES ASSUME NEW e \in purged', DeletePath(e[1], e[2]) = "managed"
                PROVE  OnceMarked(e[1], e[2], e[3])'
    BY DEF ManagedPurgesOnlyMarked, DeletePath
  <2>1. Owned(e)
    <3>1. CASE e \in purged
      <4>1. purged \subseteq Copies \X Prov \X Hosts
        BY DEF CourseInv, TypeOK
      <4>2. e[2] \in Prov
        BY <3>1, <4>1
      <4>. QED BY <3>1, <4>2 DEF Owned, OwnershipInv, ManagedPurgesOnlyMarked
    <3>. QED BY <3>1 DEF PurgesGenuine
  <2>. QED BY <2>1, CfgType DEF Owned, OnceMarked, MarkersGenuine
<1>. QED BY <1>1, <1>2, <1>3 DEF OwnershipInv

\* A step that starts no deletion.
LEMMA OwnershipFrame ==
    ASSUME CourseInv, CourseInv', OwnershipInv, MarkersGenuine, CachesGenuine,
           \A k \in Copies : purge'[k] \in {purge[k], NoJob}, UNCHANGED purged
    PROVE  OwnershipInv'
<1>1. ASSUME NEW k \in Copies, pc'[k] \in PurgePlaces PROVE PurgeIsOwned(k)'
  <2>1. purge'[k] # NoJob
    BY <1>1 DEF CourseInv, TypeOK
  <2>2. purge'[k] = purge[k] /\ pc[k] \in PurgePlaces
    BY <2>1 DEF CourseInv, TypeOK
  <2>3. PurgeIsOwned(k) /\ purge[k].prov \in Prov
    BY <2>2, PurgeType DEF OwnershipInv
  <2>. QED BY <2>2, <2>3, CfgType DEF PurgeIsOwned, OnceMarked, MarkersGenuine, DeletePath
<1>. QED BY <1>1, OwnershipStep DEF PurgesGenuine

\* A step that starts or continues a deletion.
LEMMA OwnershipPurge ==
    ASSUME CourseInv, OwnershipInv, NEW i \in Copies, NEW p \in Prov, NEW path,
           PurgeCourse(i, p, path), path = DeletePath(i, p), PurgesGenuine,
           pc'[i] \in PurgePlaces /\ path = "managed" => OnceMarked(i, p, host[i]),
           UNCHANGED <<txt, marked, cache>>
    PROVE  OwnershipInv'
<1>1. MarkersGenuine /\ CachesGenuine
  BY DEF MarkersGenuine, CachesGenuine
<1>2. ASSUME NEW k \in Copies, pc'[k] \in PurgePlaces PROVE PurgeIsOwned(k)'
  <2>1. CASE k = i
    BY <1>2, <2>1 DEF PurgeCourse, PurgeIsOwned, OnceMarked, DeletePath
  <2>2. CASE k # i
    BY <1>2, <2>2 DEF PurgeCourse, OwnershipInv, PurgeIsOwned, OnceMarked, DeletePath
  <2>. QED BY <2>1, <2>2
<1>. QED BY <1>1, <1>2, OwnershipStep

LEMMA StepOwnership ==
    ASSUME CourseInv, CourseInv', OwnershipInv, NEW i \in Copies, Step(i) PROVE OwnershipInv'
<1>1. CASE CreateOwnership(i)
  <2>. DEFINE b == Cfg[job[i].prov].backend
              m == [host |-> job[i].host, id |-> Opt[i].id, meta |-> job[i].meta]
  <2>1. /\ UNCHANGED <<cache, purge, purged>>
        /\ \/ UNCHANGED <<txt, marked>>
           \/ /\ txt' = [txt EXCEPT ![b] = @ \cup {m}]
              /\ marked' = [marked EXCEPT ![b] = @ \cup {<<job[i].host, Opt[i].id>>}]
    BY <1>1 DEF CreateOwnership
  <2>2. m.host = job[i].host /\ m.id = Opt[i].id
    OBVIOUS
  <2>. HIDE DEF b, m
  <2>3. txt \in [Backends -> SUBSET Marker] /\ marked \in [Backends -> SUBSET (Hosts \X Ids)]
    BY DEF CourseInv, TypeOK
  <2>4. MarkersGenuine
    BY <2>1, <2>2, <2>3 DEF MarkersGenuine
  <2>5. CachesGenuine
    BY <2>1 DEF CachesGenuine
  <2>. QED BY <2>1, <2>4, <2>5, OwnershipFrame
<1>2. CASE \E p \in Prov : Orphan(i, p)
  <2>. PICK p \in Prov : Orphan(i, p)
    BY <1>2
  <2>. DEFINE path == DeletePath(i, p)
  <2>1. HasOwnership(i, p, host[i]) => OnceMarked(i, p, host[i])
    BY DEF HasOwnership, OnceMarked, OwnershipInv
  <2>2. UNCHANGED <<txt, marked, cache>> /\ PurgesGenuine
    BY DEF Orphan, PurgesGenuine
  <2>3. PurgeCourse(i, p, path)
    BY OrphanPurge
  <2>4. pc'[i] \in PurgePlaces /\ path = "managed" => OnceMarked(i, p, host[i])
    BY <2>1, OrphanPurge
  <2>5. path = DeletePath(i, p)
    OBVIOUS
  <2>. HIDE DEF path
  <2>. QED BY <2>2, <2>3, <2>4, <2>5, OwnershipPurge
<1>3. CASE ListOrphan(i)
  <2>1. pc[i] \in PurgePlaces /\ UNCHANGED <<txt, marked, cache>> /\ PurgesGenuine
    BY <1>3 DEF ListOrphan, PurgePlaces, PurgesGenuine
  <2>2. PurgeIsOwned(i) /\ purge[i].prov \in Prov /\ purge[i].host = host[i]
    BY <2>1, PurgeType DEF OwnershipInv
  <2>3. PurgeCourse(i, purge[i].prov, purge[i].path)
    BY <1>3, ListOrphanPurge
  <2>. QED BY <2>1, <2>2, <2>3, OwnershipPurge DEF PurgeIsOwned
<1>4. CASE DeleteOrphan(i)
  <2>1. pc[i] \in PurgePlaces /\ UNCHANGED <<txt, marked, cache>>
    BY <1>4 DEF DeleteOrphan, PurgePlaces
  <2>2. PurgeIsOwned(i) /\ purge[i].prov \in Prov /\ purge[i].host = host[i]
    BY <2>1, PurgeType DEF OwnershipInv
  <2>3. PurgeCourse(i, purge[i].prov, purge[i].path)
    BY <1>4, DeleteOrphanPurge
  <2>4. Owned(<<i, purge[i].prov, purge[i].host>>)
    BY <2>2 DEF Owned, PurgeIsOwned
  <2>5. purged' = purged \/ purged' = purged \cup {<<i, purge[i].prov, purge[i].host>>}
    BY <1>4 DEF DeleteOrphan
  <2>6. PurgesGenuine
    BY <2>4, <2>5 DEF PurgesGenuine
  <2>. QED BY <2>1, <2>2, <2>3, <2>6, OwnershipPurge DEF PurgeIsOwned
<1>5. CASE DeleteOwnership(i)
  <2>1. /\ UNCHANGED <<cache, marked, purged>>
        /\ purge' = [purge EXCEPT ![i] = NoJob]
        /\ txt' = txt \/ \E m : txt' = [txt EXCEPT ![Cfg[purge[i].prov].backend] = @ \ {m}]
    BY <1>5 DEF DeleteOwnership
  <2>2. txt \in [Backends -> SUBSET Marker]
    BY DEF CourseInv, TypeOK
  <2>3. \A b \in Backends : txt'[b] \subseteq txt[b]
    BY <2>1, <2>2
  <2>4. MarkersGenuine /\ CachesGenuine
    BY <2>1, <2>3 DEF MarkersGenuine, CachesGenuine
  <2>5. \A k \in Copies : purge'[k] \in {purge[k], NoJob}
    BY <2>1 DEF CourseInv, TypeOK
  <2>. QED BY <2>1, <2>4, <2>5, OwnershipFrame
<1>6. CASE \E p \in Prov : FillCache(i, p)
  <2>. PICK p \in Prov : FillCache(i, p)
    BY <1>6
  <2>. DEFINE entry == [ok |-> TRUE, data |-> zone[Cfg[p].backend],
                        txt |-> txt[Cfg[p].backend]]
  <2>1. UNCHANGED <<txt, marked, purge, purged>>
    BY DEF FillCache
  <2>2. cache' = cache \/ cache' = [cache EXCEPT ![i] = [cache[i] EXCEPT ![p] = entry]]
    BY DEF FillCache
  <2>3. CachesGenuine
    <3>1. entry.txt = txt[Cfg[p].backend]
      OBVIOUS
    <3>. HIDE DEF entry
    <3>2. cache \in [Copies -> [Prov -> CacheEntry]]
      BY DEF CourseInv, TypeOK
    <3>3. \A k \in Copies, q \in Prov :
             cache'[k][q] = cache[k][q] \/ (q = p /\ cache'[k][q] = entry)
      BY <2>2, <3>2
    <3>. QED BY <3>1, <3>3 DEF CachesGenuine
  <2>4. MarkersGenuine
    BY <2>1 DEF MarkersGenuine
  <2>. QED BY <2>1, <2>3, <2>4, OwnershipFrame
<1>7. CASE Commit(i)
  <2>1. UNCHANGED <<txt, marked, purge, purged>> /\ cache' = [cache EXCEPT ![i] = EmptyCache]
    BY <1>7 DEF Commit
  <2>2. MarkersGenuine /\ CachesGenuine
    BY <2>1 DEF MarkersGenuine, CachesGenuine, EmptyCache, NotCached, CourseInv, TypeOK
  <2>. QED BY <2>1, <2>2, OwnershipFrame
<1>8. CASE UNCHANGED <<txt, marked, purge, purged, cache>>
  BY <1>8, OwnershipFrame DEF MarkersGenuine, CachesGenuine
<1>9. ASSUME NEW p \in Prov, RecoverOwnership(i, p) \/ Ensure(i, p)
      PROVE  UNCHANGED <<txt, marked, purge, purged, cache>>
  BY <1>9, SMTT(30) DEF RecoverOwnership, Ensure
<1>10. ASSUME \/ Start(i) \/ Begin(i) \/ CacheFilled(i) \/ NextHost(i) \/ Query(i)
              \/ DeleteStale(i) \/ Update(i) \/ DeleteForUpdate(i) \/ Create(i)
              \/ BeginCleanup(i) \/ NextOrphan(i)
       PROVE  UNCHANGED <<txt, marked, purge, purged, cache>>
  BY <1>10 DEF Start, Begin, CacheFilled, NextHost, Query, DeleteStale, Update,
               DeleteForUpdate, Create, BeginCleanup, NextOrphan
<1>. QED BY <1>1, <1>2, <1>3, <1>4, <1>5, <1>6, <1>7, <1>8, <1>9, <1>10 DEF Step

LEMMA EnvironmentOwnership ==
    ASSUME CourseInv, CourseInv', OwnershipInv, Environment PROVE OwnershipInv'
<1>1. ASSUME NEW i \in Copies, Crash(i) PROVE OwnershipInv'
  <2>1. /\ UNCHANGED <<txt, marked, purged>>
        /\ cache' = [cache EXCEPT ![i] = EmptyCache]
        /\ purge' = [purge EXCEPT ![i] = NoJob]
    BY <1>1 DEF Crash
  <2>2. MarkersGenuine /\ CachesGenuine
    BY <2>1 DEF MarkersGenuine, CachesGenuine, EmptyCache, NotCached, CourseInv, TypeOK
  <2>3. \A k \in Copies : purge'[k] \in {purge[k], NoJob}
    BY <2>1 DEF CourseInv, TypeOK
  <2>. QED BY <2>1, <2>2, <2>3, OwnershipFrame
<1>2. CASE UNCHANGED <<txt, marked, purge, purged, cache>>
  BY <1>2, OwnershipFrame DEF MarkersGenuine, CachesGenuine
<1>3. ASSUME NEW i \in Copies, NEW on, SetDryRun(i, on) \/ SetEnabled(i, on)
      PROVE  UNCHANGED <<txt, marked, purge, purged, cache>>
  BY <1>3 DEF SetDryRun, SetEnabled
<1>4. ASSUME NEW i \in Copies, NEW h, NEW s, ChangeWorkload(i, h, s)
      PROVE  UNCHANGED <<txt, marked, purge, purged, cache>>
  BY <1>4 DEF ChangeWorkload
<1>5. ASSUME NEW p, NEW t, SetDynamicTarget(p, t) \/ EditZone(p, t)
      PROVE  UNCHANGED <<txt, marked, purge, purged, cache>>
  BY <1>5 DEF SetDynamicTarget, EditZone
<1>. QED BY <1>1, <1>2, <1>3, <1>4, <1>5 DEF Environment

LEMMA NextOwnership ==
    ASSUME CourseInv, OwnershipInv, [Next]_vars PROVE OwnershipInv'
<1>1. CourseInv'
  BY NextCourse
<1>2. CASE UNCHANGED vars
  BY <1>1, <1>2, OwnershipFrame DEF vars, MarkersGenuine, CachesGenuine
<1>. QED BY <1>1, <1>2, StepOwnership, EnvironmentOwnership DEF Next

\* In managed mode with ownership tracking, orphan cleanup never removes data of a host
\* name unless a marker with the copy's own instance id was once put on that backend for
\* it, however many copies share the backend and whatever fails, crashes or is edited
\* between reading the record cache and deleting.
THEOREM OwnershipSafety == Spec => []ManagedPurgesOnlyMarked
<1>1. Init => CourseInv /\ OwnershipInv
  BY InitCourse, InitOwnership
<1>2. CourseInv /\ OwnershipInv /\ [Next]_vars => (CourseInv /\ OwnershipInv)'
  BY NextCourse, NextOwnership
<1>3. OwnershipInv => ManagedPurgesOnlyMarked
  BY DEF OwnershipInv
<1>. QED BY <1>1, <1>2, <1>3, PTL DEF Spec

\* Every marker on a backend, every marker in a record cache and every managed deletion
\* under way stems from a marker that was once put there.
THEOREM MarkersAreGenuine == Spec => []OwnershipInv
<1>1. Init => CourseInv /\ OwnershipInv
  BY InitCourse, InitOwnership
<1>2. CourseInv /\ OwnershipInv /\ [Next]_vars => (CourseInv /\ OwnershipInv)'
  BY NextCourse, NextOwnership
<1>. QED BY <1>1, <1>2, PTL DEF Spec

-----------------------------------------------------------------------------
(* What cleanup removes was once discovered. *)

\* The instance ids of the copies differ.
DistinctIds == \A i, j \in Copies : Opt[i].id = Opt[j].id => i = j

\* A copy's markers, its known host names and those of its running cycle were all
\* discovered by it.
SeenInv ==
    /\ \A i \in Copies, b \in Backends : \A m \in txt[b] :
          m.id = Opt[i].id => m.host \in seen[i]
    /\ \A i \in Copies : known[i] \subseteq seen[i] /\ Discovered(i) \subseteq seen[i]
    /\ PurgesOnlyDiscovered

LEMMA InitSeen == Init => SeenInv
<1>. SUFFICES ASSUME Init PROVE SeenInv OBVIOUS
<1>1. \A b \in Backends : \A m \in txt[b] : m.host \in Hosts
  BY ConfigAssumption DEF Init, Marker
<1>2. \A i \in Copies, b \in Backends : \A m \in txt[b] :
        m.id = Opt[i].id => m.host \in seen[i]
  BY <1>1 DEF Init
<1>3. \A i \in Copies : known[i] = {} /\ Discovered(i) = {}
  BY DEF Init, Discovered, NoneFound
<1>. QED BY <1>2, <1>3 DEF SeenInv, PurgesOnlyDiscovered, Init

\* A step that adds no marker, no host name and no removal.
LEMMA SeenFrame ==
    ASSUME SeenInv, UNCHANGED <<seen, purged>>,
           \A b \in Backends : txt'[b] \subseteq txt[b],
           \A k \in Copies : /\ known'[k] \subseteq known[k] \cup Discovered(k)
                             /\ Discovered(k)' \subseteq Discovered(k)
    PROVE  SeenInv'
  BY DEF SeenInv, PurgesOnlyDiscovered

LEMMA StepSeen ==
    ASSUME DistinctIds, CourseInv, SeenInv, NEW i \in Copies, Step(i) PROVE SeenInv'
<1>1. CASE CreateOwnership(i)
  <2>. DEFINE b == Cfg[job[i].prov].backend
              m == [host |-> job[i].host, id |-> Opt[i].id, meta |-> job[i].meta]
  <2>1. /\ UNCHANGED <<known, found, seen, purged>>
        /\ txt' = txt \/ txt' = [txt EXCEPT ![b] = @ \cup {m}]
    BY <1>1 DEF CreateOwnership
  <2>2. m.host = job[i].host /\ m.id = Opt[i].id
    OBVIOUS
  <2>3. job[i].host \in seen[i]
    BY <1>1, JobType DEF CreateOwnership, EnsurePlaces, SeenInv
  <2>. HIDE DEF b, m
  <2>. txt \in [Backends -> SUBSET Marker]
    BY DEF CourseInv, TypeOK
  <2>4. \A c \in Backends : \A x \in txt'[c] : x \in txt[c] \/ x = m
    BY <2>1
  <2>5. \A k \in Copies, c \in Backends : \A x \in txt'[c] :
          x.id = Opt[k].id => x.host \in seen[k]
    BY <2>2, <2>3, <2>4 DEF SeenInv, DistinctIds
  <2>. QED BY <2>1, <2>5 DEF SeenInv, PurgesOnlyDiscovered, Discovered
<1>2. CASE \E p \in Prov : RecoverOwnership(i, p)
  <2>. PICK p \in Prov : RecoverOwnership(i, p)
    BY <1>2
  <2>. DEFINE names == {m.host : m \in OwnMarkers(i, p)}
  <2>1. UNCHANGED <<txt, found, seen, purged>>
    BY DEF RecoverOwnership
  <2>2. known' = known \/ known' = [known EXCEPT ![i] = @ \cup names]
    BY DEF RecoverOwnership
  <2>3. \A m \in OwnMarkers(i, p) : m.host \in seen[i]
    BY CfgType DEF OwnMarkers, SeenInv
  <2>. known \in [Copies -> SUBSET Hosts]
    BY DEF CourseInv, TypeOK
  <2>5. names \subseteq seen[i]
    BY <2>3
  <2>. HIDE DEF names
  <2>4. \A k \in Copies : known'[k] \subseteq seen[k]
    BY <2>2, <2>5 DEF SeenInv
  <2>. QED BY <2>1, <2>4 DEF SeenInv, PurgesOnlyDiscovered, Discovered
<1>3. CASE Begin(i)
  <2>1. UNCHANGED <<txt, known, purged>>
    BY <1>3 DEF Begin
  <2>2. PICK f : /\ found' = [found EXCEPT ![i] = f]
                 /\ seen' = [seen EXCEPT ![i] = @ \cup {h \in Hosts : f[h] # NoSpec}]
    BY <1>3 DEF Begin
  <2>3. \A k \in Copies : seen[k] \subseteq seen'[k] /\ Discovered(k)' \subseteq seen'[k]
    BY <2>2 DEF SeenInv, Discovered, CourseInv, TypeOK
  <2>4. \A e \in purged : e[1] \in Copies
    BY DEF CourseInv, TypeOK
  <2>. QED BY <2>1, <2>3, <2>4 DEF SeenInv, PurgesOnlyDiscovered
<1>4. CASE DeleteOrphan(i)
  <2>1. UNCHANGED <<txt, known, found, seen>>
    BY <1>4 DEF DeleteOrphan
  <2>2. purged' = purged \/ purged' = purged \cup {<<i, purge[i].prov, purge[i].host>>}
    BY <1>4 DEF DeleteOrphan
  <2>3. pc[i] \in PurgePlaces
    BY <1>4 DEF DeleteOrphan, PurgePlaces
  <2>4. purge[i].host \in known[i]
    BY <2>3, PurgeType, NullAssumption DEF CourseInv, LoopInv, OnCourse, CleanupPlaces
  <2>5. PurgesOnlyDiscovered'
    BY <2>1, <2>2, <2>4 DEF SeenInv, PurgesOnlyDiscovered
  <2>. QED BY <2>1, <2>5 DEF SeenInv, Discovered
<1>5. CASE DeleteOwnership(i)
  <2>1. /\ UNCHANGED <<known, found, seen, purged>>
        /\ txt' = txt \/ \E m : txt' = [txt EXCEPT ![Cfg[purge[i].prov].backend] = @ \ {m}]
    BY <1>5 DEF DeleteOwnership
  <2>. txt \in [Backends -> SUBSET Marker]
    BY DEF CourseInv, TypeOK
  <2>2. \A b \in Backends : txt'[b] \subseteq txt[b]
    BY <2>1
  <2>. QED BY <2>1, <2>2, SeenFrame DEF Discovered
<1>6. CASE Commit(i)
  <2>1. /\ UNCHANGED <<txt, seen, purged>>
        /\ known' = [known EXCEPT ![i] = Discovered(i)]
        /\ found' = [found EXCEPT ![i] = NoneFound]
    BY <1>6 DEF Commit
  <2>2. \A k \in Copies : /\ known'[k] \subseteq known[k] \cup Discovered(k)
                           /\ Discovered(k)' \subseteq Discovered(k)
    BY <2>1 DEF Discovered, NoneFound, CourseInv, TypeOK
  <2>. QED BY <2>1, <2>2, SeenFrame
<1>7. CASE UNCHANGED <<txt, known, found, seen, purged>>
  BY <1>7, SeenFrame DEF Discovered
<1>8. ASSUME NEW p \in Prov, FillCache(i, p) \/ Ensure(i, p) \/ Orphan(i, p)
      PROVE  UNCHANGED <<txt, known, found, seen, purged>>
  BY <1>8 DEF FillCache, Ensure, Orphan
<1>9. ASSUME Start(i) \/ CacheFilled(i) \/ NextHost(i) \/ Query(i) \/ BeginCleanup(i) \/ NextOrphan(i)
      PROVE  UNCHANGED <<txt, known, found, seen, purged>>
  BY <1>9, SMTT(30) DEF Start, CacheFilled, NextHost, Query, BeginCleanup, NextOrphan
<1>10. ASSUME DeleteStale(i) \/ Update(i) \/ DeleteForUpdate(i) \/ Create(i) \/ ListOrphan(i)
       PROVE  UNCHANGED <<txt, known, found, seen, purged>>
  BY <1>10 DEF DeleteStale, Update, DeleteForUpdate, Create, ListOrphan
<1>. QED BY <1>1, <1>2, <1>3, <1>4, <1>5, <1>6, <1>7, <1>8, <1>9, <1>10 DEF Step

LEMMA NextSeen ==
    ASSUME DistinctIds, CourseInv, SeenInv, [Next]_vars PROVE SeenInv'
<1>1. ASSUME NEW i \in Copies, Crash(i) PROVE SeenInv'
  <2>1. /\ UNCHANGED <<txt, seen, purged>>
        /\ known' = [known EXCEPT ![i] = {}]
        /\ found' = [found EXCEPT ![i] = NoneFound]
    BY <1>1 DEF Crash
  <2>2. \A k \in Copies : /\ known'[k] \subseteq known[k] \cup Discovered(k)
                           /\ Discovered(k)' \subseteq Discovered(k)
    BY <2>1 DEF Discovered, NoneFound, CourseInv, TypeOK
  <2>. QED BY <2>1, <2>2, SeenFrame
<1>2. CASE UNCHANGED <<txt, known, found, seen, purged>>
  BY <1>2, SeenFrame DEF Discovered
<1>3. ASSUME NEW i \in Copies, NEW on, SetDryRun(i, on) \/ SetEnabled(i, on)
      PROVE  UNCHANGED <<txt, known, found, seen, purged>>
  BY <1>3 DEF SetDryRun, SetEnabled
<1>4. ASSUME NEW i \in Copies, NEW h, NEW s, ChangeWorkload(i, h, s)
      PROVE  UNCHANGED <<txt, known, found, seen, purged>>
  BY <1>4 DEF ChangeWorkload
<1>5. ASSUME NEW p, NEW t, SetDynamicTarget(p, t) \/ EditZone(p, t)
      PROVE  UNCHANGED <<txt, known, found, seen, purged>>
  BY <1>5 DEF SetDynamicTarget, EditZone
<1>6. ASSUME UNCHANGED vars PROVE UNCHANGED <<txt, known, found, seen, purged>>
  BY <1>6 DEF vars
<1>7. CASE Environment
  BY <1>1, <1>2, <1>3, <1>4, <1>5, <1>7 DEF Environment
<1>. QED BY <1>2, <1>6, <1>7, StepSeen DEF Next

\* When the copies have instance ids of their own, the cleanup of a copy removes data only
\* of host names that this copy has itself discovered, in this or an earlier life of its
\* process, in every mode and whatever fails, crashes or is edited in between.
THEOREM OnlyDiscoveredPurged ==
    ASSUME DistinctIds PROVE Spec => []PurgesOnlyDiscovered
<1>1. Init => CourseInv /\ SeenInv
  BY InitCourse, InitSeen
<1>2. CourseInv /\ SeenInv /\ [Next]_vars => (CourseInv /\ SeenInv)'
  BY NextCourse, NextSeen
<1>3. SeenInv => PurgesOnlyDiscovered
  BY DEF SeenInv
<1>. QED BY <1>1, <1>2, <1>3, PTL DEF Spec

-----------------------------------------------------------------------------
(* The circuit breaker. *)

\* What a copy that cleans up still works on.
At(i) == todo[i] \cup ({host[i]} \ {NoHost})
WithinHalf(n, i) == n > 1 => 2 * n <= Cardinality(known[i])

LEMMA AtMostOne ==
    ASSUME NEW h, NEW n PROVE Cardinality({h} \ {n}) \in {0, 1}
<1>1. CASE h = n
  BY <1>1, FS_EmptySet
<1>2. CASE h # n
  <2>1. {h} \ {n} = {h}
    BY <1>2
  <2>. QED BY <2>1, FS_Singleton
<1>. QED BY <1>1, <1>2

LEMMA SmallerSet ==
    ASSUME NEW S, NEW T, IsFiniteSet(T), S \subseteq T, NEW m \in Nat,
           Cardinality(T) > 1 => 2 * Cardinality(T) <= m
    PROVE  Cardinality(S) > 1 => 2 * Cardinality(S) <= m
<1>1. Cardinality(T) \in Nat /\ Cardinality(S) \in Nat /\ Cardinality(S) <= Cardinality(T)
  BY FS_Subset, FS_CardinalityType
<1>. QED BY <1>1

\* What a step may do to the loop of copy k: leave it or stay out, have nothing but the
\* current host name left, go on with what was left, or start with few enough.
Recedes(k) == pc[k] \in CleanupPlaces /\ known'[k] = known[k] /\ At(k)' \subseteq At(k)
StartsBounded(k) == At(k)' = todo'[k] /\ WithinHalf(Cardinality(todo[k]), k)'
StaysBounded(k) ==
    pc'[k] \in CleanupPlaces => todo'[k] = {} \/ Recedes(k) \/ StartsBounded(k)

LEMMA BoundedStep ==
    ASSUME IsFiniteSet(Hosts), CourseInv, CourseInv', CleanupIsBounded,
           \A k \in Copies : StaysBounded(k)
    PROVE  CleanupIsBounded'
<1>. SUFFICES ASSUME NEW k \in Copies, pc'[k] \in CleanupPlaces
              PROVE  /\ At(k)' \cap Discovered(k)' = {}
                     /\ WithinHalf(Cardinality(At(k)), k)'
  BY DEF CleanupIsBounded, At, WithinHalf
<1>1. OnCourse(k)'
  BY DEF CourseInv, LoopInv
<1>2. At(k)' \cap Discovered(k)' = {}
  BY <1>1 DEF OnCourse, At
<1>3. CASE todo'[k] = {}
  <2>1. At(k)' = {host'[k]} \ {NoHost}
    BY <1>3 DEF At
  <2>2. Cardinality(At(k)') \in {0, 1}
    BY <2>1, AtMostOne
  <2>. QED BY <1>2, <2>2 DEF WithinHalf
<1>4. CASE Recedes(k)
  <2>1. At(k) \subseteq known[k] /\ known[k] \subseteq Hosts
    BY <1>4 DEF Recedes, At, CourseInv, LoopInv, OnCourse, TypeOK
  <2>2. IsFiniteSet(At(k)) /\ Cardinality(known[k]) \in Nat
    BY <2>1, FS_Subset, FS_CardinalityType
  <2>3. Cardinality(At(k)) > 1 => 2 * Cardinality(At(k)) <= Cardinality(known[k])
    BY <1>4 DEF Recedes, CleanupIsBounded, At
  <2>4. At(k)' \subseteq At(k) /\ known'[k] = known[k]
    BY <1>4 DEF Recedes
  <2>5. Cardinality(At(k)') > 1 => 2 * Cardinality(At(k)') <= Cardinality(known[k])
    BY <2>2, <2>3, <2>4, SmallerSet
  <2>. QED BY <1>2, <2>4, <2>5 DEF WithinHalf
<1>5. CASE StartsBounded(k)
  BY <1>2, <1>5 DEF StartsBounded, WithinHalf
<1>. QED BY <1>3, <1>4, <1>5 DEF StaysBounded

\* A step that leaves the loops alone.
LEMMA BoundedFrame ==
    ASSUME CourseInv, CourseInv', NEW k \in Copies, UNCHANGED <<todo[k], host[k], known[k], found[k]>>,
           pc'[k] \in CleanupPlaces =>
               pc[k] \in CleanupPlaces \cup {"cache", "ensure"} \cup EnsurePlaces
    PROVE  StaysBounded(k)
<1>1. OnCourse(k) /\ OnCourse(k)' /\ Discovered(k)' = Discovered(k)
  BY DEF CourseInv, LoopInv, Discovered
<1>2. ASSUME pc'[k] \in CleanupPlaces, pc[k] \notin CleanupPlaces PROVE todo'[k] = {}
  BY <1>1, <1>2 DEF OnCourse
<1>. QED BY <1>2 DEF StaysBounded, Recedes, At

LEMMA StepBounded ==
    ASSUME IsFiniteSet(Hosts), CourseInv, CourseInv', CleanupIsBounded,
           NEW i \in Copies, Step(i)
    PROVE  CleanupIsBounded'
<1>. USE DEF CleanupPlaces, PurgePlaces
<1>1. CASE BeginCleanup(i)
  <2>1. UNCHANGED <<known, found>>
    BY <1>1 DEF BeginCleanup
  <2>2. \A k \in Copies \ {i} : pc'[k] = pc[k] /\ todo'[k] = todo[k] /\ host'[k] = host[k]
    BY <1>1 DEF BeginCleanup, CourseInv, TypeOK
  <2>3. /\ host'[i] = NoHost
        /\ todo'[i] = {} \/ (todo'[i] = Orphans(i) /\ ~MassDeletion(i))
    BY <1>1 DEF BeginCleanup, CourseInv, TypeOK
  <2>4. Orphans(i) \subseteq Hosts /\ known[i] \subseteq Hosts
    BY DEF Orphans, CourseInv, TypeOK
  <2>5. Cardinality(Orphans(i)) \in Nat /\ Cardinality(known[i]) \in Nat
    BY <2>4, FS_Subset, FS_CardinalityType
  <2>6. ~MassDeletion(i) => WithinHalf(Cardinality(Orphans(i)), i)
    BY <2>5 DEF MassDeletion, WithinHalf
  <2>7. StaysBounded(i)
    <3>1. At(i)' = todo'[i]
      BY <2>3 DEF At
    <3>2. CASE todo'[i] = Orphans(i) /\ ~MassDeletion(i)
      <4>1. WithinHalf(Cardinality(todo[i]), i)'
        BY <2>1, <2>6, <3>2 DEF WithinHalf
      <4>. QED BY <3>1, <4>1 DEF StaysBounded, StartsBounded
    <3>. QED BY <2>3, <3>2 DEF StaysBounded
  <2>8. \A k \in Copies \ {i} : StaysBounded(k)
    BY <2>1, <2>2 DEF StaysBounded, Recedes, At
  <2>. QED BY <2>7, <2>8, BoundedStep
<1>2. CASE NextOrphan(i)
  <2>1. UNCHANGED <<known, found, pc>> /\ pc[i] = "orphan"
    BY <1>2 DEF NextOrphan
  <2>2. \A k \in Copies \ {i} : todo'[k] = todo[k] /\ host'[k] = host[k]
    BY <1>2 DEF NextOrphan, CourseInv, TypeOK
  <2>3. At(i)' \subseteq At(i)
    BY <1>2 DEF NextOrphan, At, CourseInv, TypeOK
  <2>4. \A k \in Copies : StaysBounded(k)
    BY <2>1, <2>2, <2>3 DEF StaysBounded, Recedes, At
  <2>. QED BY <2>4, BoundedStep
<1>3. ASSUME pc'[i] \notin CleanupPlaces,
             \A k \in Copies \ {i} : /\ pc'[k] = pc[k] /\ todo'[k] = todo[k]
                                     /\ host'[k] = host[k] /\ known'[k] = known[k]
      PROVE  CleanupIsBounded'
  <2>1. \A k \in Copies : StaysBounded(k)
    BY <1>3 DEF StaysBounded, Recedes, At
  <2>. QED BY <2>1, BoundedStep
<1>4. ASSUME UNCHANGED <<todo, host, known, found>>, pc[i] \in CleanupPlaces \cup {"cache", "ensure"} \cup EnsurePlaces,
             \A k \in Copies \ {i} : pc'[k] = pc[k]
      PROVE  CleanupIsBounded'
  <2>1. \A k \in Copies : StaysBounded(k)
    BY <1>4, BoundedFrame
  <2>. QED BY <2>1, BoundedStep
<1>5. CASE Start(i) \/ Begin(i) \/ Commit(i) \/ CacheFilled(i) \/ NextHost(i)
  <2>1. pc'[i] \notin CleanupPlaces
    BY <1>5 DEF Start, Begin, Commit, CacheFilled, NextHost, CourseInv, TypeOK
  <2>2. \A k \in Copies \ {i} : /\ pc'[k] = pc[k] /\ todo'[k] = todo[k]
                                /\ host'[k] = host[k] /\ known'[k] = known[k]
    BY <1>5 DEF Start, Begin, Commit, CacheFilled, NextHost, CourseInv, TypeOK
  <2>. QED BY <1>3, <2>1, <2>2
<1>6. CASE \E p \in Prov : RecoverOwnership(i, p)
  <2>. PICK p \in Prov : RecoverOwnership(i, p)
    BY <1>6
  <2>1. pc'[i] \notin CleanupPlaces
    BY DEF RecoverOwnership, CourseInv, TypeOK
  <2>2. \A k \in Copies \ {i} : /\ pc'[k] = pc[k] /\ todo'[k] = todo[k]
                                /\ host'[k] = host[k] /\ known'[k] = known[k]
    BY DEF RecoverOwnership, CourseInv, TypeOK
  <2>. QED BY <1>3, <2>1, <2>2
<1>7. ASSUME UNCHANGED <<todo, host, known, found>>,
             pc[i] \in {"cache", "ensure"} \cup EnsurePlaces,
             pc' = pc \/ \E place : pc' = [pc EXCEPT ![i] = place]
      PROVE  CleanupIsBounded'
  <2>1. \A k \in Copies \ {i} : pc'[k] = pc[k]
    BY <1>7 DEF CourseInv, TypeOK
  <2>. QED BY <1>4, <1>7, <2>1
<1>8. ASSUME NEW p \in Prov, FillCache(i, p) \/ Ensure(i, p) PROVE CleanupIsBounded'
  <2>1. UNCHANGED <<todo, host, known, found>> /\ pc[i] \in {"cache", "ensure"}
    BY <1>8 DEF FillCache, Ensure
  <2>2. pc' = pc \/ \E place : pc' = [pc EXCEPT ![i] = place]
    BY <1>8 DEF FillCache, Ensure, Decide
  <2>. QED BY <1>7, <2>1, <2>2
<1>9. CASE Query(i) \/ DeleteStale(i) \/ Update(i) \/ DeleteForUpdate(i) \/ Create(i) \/ CreateOwnership(i)
  <2>. DEFINE moves == pc' = pc \/ \E place : pc' = [pc EXCEPT ![i] = place]
  <2>1. ASSUME NEW acted, Return(i, acted) \/ ReturnMarking(i, acted) PROVE moves
    BY <2>1 DEF Return, ReturnMarking
  <2>2. CASE Query(i)
    <3>1. UNCHANGED <<todo, host, known, found>> /\ pc[i] \in EnsurePlaces
      BY <2>2 DEF Query, EnsurePlaces
    <3>2. moves
      <4>1. ASSUME NEW p, NEW rec, NEW meta, NEW E, Decide(i, p, rec, meta, E) PROVE moves
        BY <4>1 DEF Decide
      <4>. HIDE DEF moves
      <4>. QED BY <2>2, <4>1 DEF Query
    <3>. QED BY <1>7, <3>1, <3>2
  <2>3. CASE DeleteStale(i)
    <3>1. UNCHANGED <<todo, host, known, found>> /\ pc[i] \in EnsurePlaces
      BY <2>3 DEF DeleteStale, EnsurePlaces
    <3>2. moves
      BY <2>1, <2>3 DEF DeleteStale
    <3>. QED BY <1>7, <3>1, <3>2
  <2>4. CASE Update(i) \/ DeleteForUpdate(i) \/ Create(i)
    <3>1. UNCHANGED <<todo, host, known, found>> /\ pc[i] \in EnsurePlaces
      BY <2>4 DEF Update, DeleteForUpdate, Create, EnsurePlaces
    <3>2. moves
      BY <2>1, <2>4 DEF Update, DeleteForUpdate, Create
    <3>. QED BY <1>7, <3>1, <3>2
  <2>5. CASE CreateOwnership(i)
    <3>1. UNCHANGED <<todo, host, known, found>> /\ pc[i] \in EnsurePlaces /\ Return(i, FALSE)
      BY <2>5 DEF CreateOwnership, EnsurePlaces
    <3>. QED BY <1>7, <2>1, <3>1
  <2>. QED BY <1>9, <2>2, <2>3, <2>4, <2>5
<1>10. ASSUME NEW p, NEW path, PurgeCourse(i, p, path), pc[i] \in CleanupPlaces,
              UNCHANGED <<todo, host, known, found>>
       PROVE  CleanupIsBounded'
  BY <1>4, <1>10 DEF PurgeCourse
<1>11. ASSUME NEW p \in Prov, Orphan(i, p) PROVE CleanupIsBounded'
  <2>1. UNCHANGED <<todo, host, known, found>> /\ pc[i] \in CleanupPlaces
    BY <1>11 DEF Orphan
  <2>. QED BY <1>10, <1>11, <2>1, OrphanPurge
<1>12. CASE ListOrphan(i) \/ DeleteOrphan(i) \/ DeleteOwnership(i)
  <2>1. UNCHANGED <<todo, host, known, found>> /\ pc[i] \in CleanupPlaces
    BY <1>12 DEF ListOrphan, DeleteOrphan, DeleteOwnership
  <2>2. PurgeCourse(i, purge[i].prov, purge[i].path)
    BY <1>12, ListOrphanPurge, DeleteOrphanPurge, DeleteOwnershipPurge
  <2>. QED BY <1>10, <2>1, <2>2
<1>. QED BY <1>1, <1>2, <1>5, <1>6, <1>8, <1>9, <1>11, <1>12 DEF Step

LEMMA NextBounded ==
    ASSUME IsFiniteSet(Hosts), CourseInv, CleanupIsBounded, [Next]_vars PROVE CleanupIsBounded'
<1>. USE NextCourse
<1>1. ASSUME NEW i \in Copies, Crash(i) PROVE CleanupIsBounded'
  <2>1. \A k \in Copies : \/ pc'[k] \notin CleanupPlaces
                          \/ /\ pc'[k] = pc[k] /\ todo'[k] = todo[k]
                             /\ host'[k] = host[k] /\ known'[k] = known[k]
    BY <1>1 DEF Crash, CourseInv, TypeOK, CleanupPlaces, PurgePlaces
  <2>2. \A k \in Copies : StaysBounded(k)
    BY <2>1 DEF StaysBounded, Recedes, At
  <2>. QED BY <2>2, BoundedStep
<1>2. CASE UNCHANGED <<pc, todo, host, known>>
  <2>1. \A k \in Copies : StaysBounded(k)
    BY <1>2 DEF StaysBounded, Recedes, At
  <2>. QED BY <2>1, BoundedStep
<1>3. ASSUME NEW i \in Copies, NEW on, SetDryRun(i, on) \/ SetEnabled(i, on)
      PROVE  UNCHANGED <<pc, todo, host, known>>
  BY <1>3 DEF SetDryRun, SetEnabled
<1>4. ASSUME NEW i \in Copies, NEW h, NEW s, ChangeWorkload(i, h, s)
      PROVE  UNCHANGED <<pc, todo, host, known>>
  BY <1>4 DEF ChangeWorkload
<1>5. ASSUME NEW p, NEW t, SetDynamicTarget(p, t) \/ EditZone(p, t)
      PROVE  UNCHANGED <<pc, todo, host, known>>
  BY <1>5 DEF SetDynamicTarget, EditZone
<1>6. ASSUME UNCHANGED vars PROVE UNCHANGED <<pc, todo, host, known>>
  BY <1>6 DEF vars
<1>7. CASE Environment
  BY <1>1, <1>2, <1>3, <1>4, <1>5, <1>7 DEF Environment
<1>. QED BY <1>2, <1>6, <1>7, StepBounded DEF Next

\* With finitely many host names, the circuit breaker bounds cleanup from its first to its
\* last call, across failures and changes of what is wanted: more than one host name is
\* only worked on if that is at most half of what the copy knew, and never one of the
\* running cycle.
THEOREM BreakerHolds ==
    ASSUME IsFiniteSet(Hosts) PROVE Spec => []CleanupIsBounded
<1>1. Init => CourseInv /\ CleanupIsBounded
  <2>1. Init => CleanupIsBounded
    BY DEF Init, CleanupIsBounded, CleanupPlaces, PurgePlaces
  <2>. QED BY <2>1, InitCourse
<1>2. CourseInv /\ CleanupIsBounded /\ [Next]_vars => (CourseInv /\ CleanupIsBounded)'
  BY NextCourse, NextBounded
<1>. QED BY <1>1, <1>2, PTL DEF Spec

-----------------------------------------------------------------------------
(* Where data is written. *)

\* What a step leaves alone of a copy that does not take it.
Undisturbed(k) == UNCHANGED <<pc[k], job[k], purge[k], queue[k], host[k], found[k]>>

\* The state of a copy that these steps change is a function of the copy.
LEMMA LocalState ==
    ASSUME CourseInv
    PROVE  /\ pc \in [Copies -> Places] /\ queue \in [Copies -> SUBSET Prov]
           /\ job \in [Copies -> Job \cup {NoJob}] /\ purge \in [Copies -> Purge \cup {NoJob}]
           /\ host \in [Copies -> Hosts \cup {NoHost}]
           /\ found \in [Copies -> [Hosts -> Specs \cup {NoSpec}]]
  BY DEF CourseInv, TypeOK

\* Where a call of the ensure loop leads: on with the job of p and h, or back to the loop.
GoesOnWith(i, p, h) ==
    /\ \A k \in Copies \ {i} : UNCHANGED <<pc[k], job[k]>>
    /\ pc'[i] \in EnsurePlaces => job'[i].prov = p /\ job'[i].host = h
    /\ pc'[i] \in EnsurePlaces \cup {"ensure"}

LEMMA ReturnGoesOn ==
    ASSUME CourseInv, NEW i \in Copies, NEW p, NEW h, NEW acted, Return(i, acted)
    PROVE  GoesOnWith(i, p, h)
  BY LocalState DEF Return, GoesOnWith, EnsurePlaces

LEMMA ReturnMarkingGoesOn ==
    ASSUME CourseInv, NEW i \in Copies, NEW acted, ReturnMarking(i, acted)
    PROVE  GoesOnWith(i, job[i].prov, job[i].host)
<1>1. CASE Return(i, acted)
  BY <1>1, ReturnGoesOn
<1>2. CASE pc' = [pc EXCEPT ![i] = "own"] /\ UNCHANGED job
  BY <1>2, LocalState DEF GoesOnWith, EnsurePlaces
<1>. QED BY <1>1, <1>2 DEF ReturnMarking

LEMMA DecideGoesOn ==
    ASSUME CourseInv, NEW i \in Copies, NEW p, NEW rec, NEW meta, NEW E,
           Decide(i, p, rec, meta, E)
    PROVE  GoesOnWith(i, p, rec.host)
<1>. DEFINE next == NextStep(i, p, rec, E)
            stale == Stale(rec, E)
<1>1. CASE /\ pc' = [pc EXCEPT ![i] = "ensure"]
           /\ job' = [job EXCEPT ![i] = NoJob]
  BY <1>1, LocalState DEF GoesOnWith, EnsurePlaces
<1>2. CASE \E old :
             /\ job' = [job EXCEPT ![i] =
                          [host |-> rec.host, prov |-> p, rec |-> rec, meta |-> meta,
                           old |-> old, stale |-> stale, next |-> next]]
             /\ pc' = [pc EXCEPT ![i] = IF stale # {} THEN "stale" ELSE next]
  <2>1. PICK old :
             /\ job' = [job EXCEPT ![i] =
                          [host |-> rec.host, prov |-> p, rec |-> rec, meta |-> meta,
                           old |-> old, stale |-> stale, next |-> next]]
             /\ pc' = [pc EXCEPT ![i] = IF stale # {} THEN "stale" ELSE next]
    BY <1>2
  <2>2. next \in {"own", "ensure", "update", "create"}
    BY NextStepType
  <2>. HIDE DEF next, stale
  <2>3. pc'[i] \in EnsurePlaces \cup {"ensure"} /\ \A k \in Copies \ {i} : UNCHANGED pc[k]
    BY <2>1, <2>2, LocalState DEF EnsurePlaces
  <2>4. /\ job'[i] = [host |-> rec.host, prov |-> p, rec |-> rec, meta |-> meta,
                      old |-> old, stale |-> stale, next |-> next]
        /\ \A k \in Copies \ {i} : UNCHANGED job[k]
    BY <2>1, LocalState
  <2>. QED BY <2>3, <2>4 DEF GoesOnWith
<1>. QED BY <1>1, <1>2 DEF Decide

\* Every call of the ensure loop goes on with the job it was made for.
LEMMA CallGoesOn ==
    ASSUME CourseInv, NEW i \in Copies,
           Query(i) \/ DeleteStale(i) \/ Update(i) \/ DeleteForUpdate(i) \/ Create(i) \/ CreateOwnership(i)
    PROVE  GoesOnWith(i, job[i].prov, job[i].host)
<1>. DEFINE p == job[i].prov
            h == job[i].host
<1>1. CASE Query(i)
  <2>1. job[i].rec.host = job[i].host
    BY <1>1, JobType DEF Query, EnsurePlaces
  <2>. QED BY <1>1, <2>1, DecideGoesOn DEF Query
<1>2. CASE DeleteStale(i)
  <2>1. PICK r \in job[i].stale :
            IF job[i].stale = {r} /\ job[i].next = "ensure"
            THEN Return(i, FALSE)
            ELSE /\ job' = [job EXCEPT ![i].stale = @ \ {r}]
                 /\ pc' = [pc EXCEPT ![i] = IF job[i].stale = {r} THEN job[i].next ELSE @]
    BY <1>2 DEF DeleteStale
  <2>2. CASE Return(i, FALSE)
    BY <2>2, ReturnGoesOn
  <2>3. CASE /\ job' = [job EXCEPT ![i].stale = @ \ {r}]
             /\ pc' = [pc EXCEPT ![i] = IF job[i].stale = {r} THEN job[i].next ELSE @]
    <3>1. pc[i] = "stale" /\ job[i] \in Job /\ job[i].next \in {"own", "ensure", "update", "create"}
      BY <1>2, JobType DEF DeleteStale, EnsurePlaces
    <3>2. pc'[i] \in EnsurePlaces \cup {"ensure"} /\ \A k \in Copies \ {i} : UNCHANGED pc[k]
      BY <2>3, <3>1, LocalState DEF EnsurePlaces
    <3>3. job'[i] = [job[i] EXCEPT !.stale = @ \ {r}] /\ \A k \in Copies \ {i} : UNCHANGED job[k]
      BY <2>3, LocalState
    <3>4. job'[i].prov = job[i].prov /\ job'[i].host = job[i].host
      BY <3>1, <3>3, SMTT(30) DEF Job
    <3>. QED BY <3>2, <3>3, <3>4 DEF GoesOnWith
  <2>. QED BY <2>1, <2>2, <2>3
<1>3. CASE Update(i)
  BY <1>3, ReturnGoesOn, ReturnMarkingGoesOn DEF Update
<1>4. CASE DeleteForUpdate(i)
  <2>1. CASE pc' = [pc EXCEPT ![i] = "recreate"] /\ UNCHANGED job
    BY <2>1, LocalState DEF GoesOnWith, EnsurePlaces
  <2>. QED BY <1>4, <2>1, ReturnGoesOn DEF DeleteForUpdate
<1>5. CASE Create(i)
  BY <1>5, ReturnGoesOn, ReturnMarkingGoesOn DEF Create
<1>6. CASE CreateOwnership(i)
  BY <1>6, ReturnGoesOn DEF CreateOwnership
<1>. QED BY <1>1, <1>2, <1>3, <1>4, <1>5, <1>6

LEMMA EnsureGoesOn ==
    ASSUME CourseInv, NEW i \in Copies, NEW p \in Prov, Ensure(i, p)
    PROVE  GoesOnWith(i, p, host[i])
<1>. DEFINE h == host[i]
            s == found[i][h]
            rec == Desired(p, h, s)
            meta == IF s.meta # NoMeta THEN s.meta ELSE recovered[i][h]
<1>1. rec.host = h
  BY DEF Desired
<1>2. pc[i] = "ensure"
  BY DEF Ensure
<1>. HIDE DEF rec, meta
<1>3. CASE UNCHANGED <<pc, job>>
  BY <1>2, <1>3 DEF GoesOnWith, EnsurePlaces
<1>4. CASE Decide(i, p, rec, meta, RecordsOf(cache[i][p].data, h))
  BY <1>1, <1>4, DecideGoesOn
<1>5. CASE /\ pc' = [pc EXCEPT ![i] = "query"]
           /\ job' = [job EXCEPT ![i] =
                        [host |-> h, prov |-> p, rec |-> rec, meta |-> meta,
                         old |-> rec, stale |-> {}, next |-> "ensure"]]
  BY <1>5, LocalState DEF GoesOnWith, EnsurePlaces
<1>. QED BY <1>3, <1>4, <1>5 DEF Ensure, rec, meta

\* Every provider instance the ensure loop has before it, and the one it is at, is among
\* those that ensureRecord picks for the host name as it was discovered in this cycle.
InEnsure(k) == pc[k] \in EnsurePlaces \cup {"ensure"}
Routes(k) ==
    /\ InEnsure(k) => queue[k] \subseteq Writers(k, host[k], found[k][host[k]])
    /\ pc[k] \in EnsurePlaces => job[k].prov \in Writers(k, job[k].host, found[k][job[k].host])
RouteInv == \A k \in Copies : Routes(k)

LEMMA InitRoute == Init => RouteInv
  BY DEF Init, RouteInv, Routes, InEnsure, EnsurePlaces

LEMMA RouteKept ==
    ASSUME NEW k, Routes(k), Undisturbed(k) PROVE Routes(k)'
  BY DEF Routes, InEnsure, Undisturbed, Writers, MatchingProvidersForHostname, MatchingProviders, Mine

\* Outside the ensure loop nothing is to be shown.
LEMMA RouteOutside ==
    ASSUME RouteInv, NEW i \in Copies, \A k \in Copies \ {i} : Undisturbed(k), ~InEnsure(i)'
    PROVE  RouteInv'
<1>1. Routes(i)'
  BY DEF Routes, InEnsure
<1>. QED BY <1>1, RouteKept DEF RouteInv

\* In the ensure loop the job, once chosen, and the rest of the queue stay routed.
LEMMA RouteInside ==
    ASSUME RouteInv, NEW i \in Copies, InEnsure(i), NEW p, NEW h, GoesOnWith(i, p, h),
           p \in Writers(i, h, found[i][h]), queue'[i] \subseteq queue[i],
           \A k \in Copies \ {i} : UNCHANGED queue[k], UNCHANGED <<host, found, purge>>
    PROVE  RouteInv'
<1>1. ASSUME NEW k \in Copies \ {i} PROVE Routes(k)'
  <2>1. Undisturbed(k)
    BY DEF GoesOnWith, Undisturbed
  <2>. QED BY <2>1, RouteKept DEF RouteInv
<1>2. Routes(i)'
  <2>1. queue[i] \subseteq Writers(i, host[i], found[i][host[i]])
    BY DEF RouteInv, Routes
  <2>2. pc'[i] \in EnsurePlaces => job'[i].prov = p /\ job'[i].host = h
    BY DEF GoesOnWith
  <2>. QED BY <2>1, <2>2, ZenonT(60) DEF Routes, Writers, MatchingProvidersForHostname, MatchingProviders, Mine
<1>. QED BY <1>1, <1>2 DEF RouteInv

LEMMA StepRoute ==
    ASSUME CourseInv, RouteInv, NEW i \in Copies, Step(i) PROVE RouteInv'
<1>1. ASSUME NEW p \in Prov, Ensure(i, p) PROVE RouteInv'
  <2>1. InEnsure(i) /\ p \in queue[i]
    BY <1>1 DEF Ensure, First, InEnsure
  <2>2. p \in Writers(i, host[i], found[i][host[i]])
    BY <2>1 DEF RouteInv, Routes
  <2>3. /\ queue'[i] \subseteq queue[i] /\ \A k \in Copies \ {i} : UNCHANGED queue[k]
        /\ UNCHANGED <<host, found, purge>>
    BY <1>1, LocalState DEF Ensure
  <2>. QED BY <1>1, <2>1, <2>2, <2>3, EnsureGoesOn, RouteInside
<1>2. ASSUME Query(i) \/ DeleteStale(i) \/ Update(i) \/ DeleteForUpdate(i) \/ Create(i) \/ CreateOwnership(i)
      PROVE  RouteInv'
  <2>1. pc[i] \in EnsurePlaces
    BY <1>2 DEF Query, DeleteStale, Update, DeleteForUpdate, Create, CreateOwnership, EnsurePlaces
  <2>2. InEnsure(i) /\ job[i].prov \in Writers(i, job[i].host, found[i][job[i].host])
    BY <2>1, SMTT(30) DEF RouteInv, Routes, InEnsure
  <2>3. UNCHANGED <<queue, host, found, purge>>
    BY <1>2 DEF Query, DeleteStale, Update, DeleteForUpdate, Create, CreateOwnership
  <2>. QED BY <1>2, <2>2, <2>3, CallGoesOn, RouteInside
<1>3. CASE CacheFilled(i)
  <2>1. /\ pc'[i] = "ensure" /\ queue'[i] = {}
        /\ \A k \in Copies \ {i} : Undisturbed(k)
    BY <1>3, LocalState DEF CacheFilled, Undisturbed
  <2>2. Routes(i)'
    BY <2>1 DEF Routes, InEnsure, EnsurePlaces
  <2>. QED BY <2>1, <2>2, RouteKept DEF RouteInv
<1>4. CASE NextHost(i)
  <2>1. PICK h : /\ host' = [host EXCEPT ![i] = h]
                 /\ queue' = [queue EXCEPT ![i] = Writers(i, h, found[i][h])]
    BY <1>4 DEF NextHost
  <2>2. pc[i] = "ensure" /\ UNCHANGED <<pc, job, purge, found>>
    BY <1>4 DEF NextHost
  <2>3. \A k \in Copies \ {i} : Undisturbed(k)
    BY <2>1, <2>2, LocalState DEF Undisturbed
  <2>4. pc'[i] = "ensure" /\ queue'[i] = Writers(i, host'[i], found'[i][host'[i]])
    BY <2>1, <2>2, LocalState
  <2>5. Routes(i)'
    BY <2>4 DEF Routes, InEnsure, EnsurePlaces, Writers, MatchingProvidersForHostname, MatchingProviders, Mine
  <2>. QED BY <2>3, <2>5, RouteKept DEF RouteInv
<1>5. ASSUME Start(i) \/ Begin(i) \/ BeginCleanup(i) \/ NextOrphan(i) \/ Commit(i)
      PROVE  RouteInv'
  <2>1. \A k \in Copies \ {i} : Undisturbed(k)
    BY <1>5, LocalState DEF Start, Begin, BeginCleanup, NextOrphan, Commit, Undisturbed
  <2>2. ~InEnsure(i)'
    BY <1>5, LocalState DEF Start, Begin, BeginCleanup, NextOrphan, Commit, InEnsure, EnsurePlaces
  <2>. QED BY <2>1, <2>2, RouteOutside
<1>6. ASSUME NEW p \in Prov, RecoverOwnership(i, p) \/ FillCache(i, p)
      PROVE  RouteInv'
  <2>1. \A k \in Copies \ {i} : Undisturbed(k)
    BY <1>6, LocalState DEF RecoverOwnership, FillCache, Undisturbed
  <2>2. ~InEnsure(i)'
    BY <1>6, LocalState DEF RecoverOwnership, FillCache, InEnsure, EnsurePlaces
  <2>. QED BY <2>1, <2>2, RouteOutside
<1>7. ASSUME (\E p \in Prov : Orphan(i, p)) \/ ListOrphan(i) \/ DeleteOrphan(i) \/ DeleteOwnership(i)
      PROVE  RouteInv'
  <2>1. \E p, path : PurgeCourse(i, p, path)
    BY <1>7, OrphanPurge, ListOrphanPurge, DeleteOrphanPurge, DeleteOwnershipPurge
  <2>2. UNCHANGED <<job, host, found>> /\ \A k \in Copies \ {i} : UNCHANGED queue[k]
    BY <1>7, LocalState DEF Orphan, ListOrphan, DeleteOrphan, DeleteOwnership
  <2>3. \A k \in Copies \ {i} : Undisturbed(k)
    BY <2>1, <2>2 DEF PurgeCourse, Undisturbed
  <2>4. ~InEnsure(i)'
    BY <2>1 DEF PurgeCourse, InEnsure, EnsurePlaces, CleanupPlaces, PurgePlaces
  <2>. QED BY <2>3, <2>4, RouteOutside
<1>. QED BY <1>1, <1>2, <1>3, <1>4, <1>5, <1>6, <1>7 DEF Step

LEMMA NextRoute ==
    ASSUME CourseInv, RouteInv, [Next]_vars PROVE RouteInv'
<1>1. ASSUME NEW i \in Copies, Crash(i) PROVE RouteInv'
  <2>1. (\A k \in Copies \ {i} : Undisturbed(k)) /\ pc'[i] = "down"
    BY <1>1, LocalState DEF Crash, Undisturbed
  <2>. QED BY <2>1, RouteOutside DEF InEnsure, EnsurePlaces
<1>2. CASE UNCHANGED <<pc, job, purge, queue, host, found>>
  BY <1>2, RouteKept DEF RouteInv, Undisturbed
<1>3. ASSUME NEW i \in Copies, NEW on, SetDryRun(i, on) \/ SetEnabled(i, on)
      PROVE  UNCHANGED <<pc, job, purge, queue, host, found>>
  BY <1>3 DEF SetDryRun, SetEnabled
<1>4. ASSUME NEW i \in Copies, NEW h, NEW s, ChangeWorkload(i, h, s)
      PROVE  UNCHANGED <<pc, job, purge, queue, host, found>>
  BY <1>4 DEF ChangeWorkload
<1>5. ASSUME NEW p, NEW t, SetDynamicTarget(p, t) \/ EditZone(p, t)
      PROVE  UNCHANGED <<pc, job, purge, queue, host, found>>
  BY <1>5 DEF SetDynamicTarget, EditZone
<1>6. ASSUME UNCHANGED vars PROVE UNCHANGED <<pc, job, purge, queue, host, found>>
  BY <1>6 DEF vars
<1>7. CASE Environment
  BY <1>1, <1>2, <1>3, <1>4, <1>5, <1>7 DEF Environment
<1>. QED BY <1>2, <1>6, <1>7, StepRoute DEF Next

\* A delete adds nothing, on any backend.
LEMMA DeleteAddsNothing ==
    ASSUME CourseInv, NEW p \in Prov, NEW r, NEW err, Delete(p, r, err), NEW b \in Backends
    PROVE  zone'[b] \subseteq zone[b]
<1>1. zone' = zone \/ \E x : zone' = [zone EXCEPT ![Cfg[p].backend] = @ \ {x}]
  BY DEF Delete
<1>2. zone \in [Backends -> SUBSET Data]
  BY DEF CourseInv, TypeOK
<1>. QED BY <1>1, <1>2

\* The only record a step of a copy adds is that of its job, on the backend of its job.
LEMMA StepAdds ==
    ASSUME CourseInv, NEW i \in Copies, Step(i), NEW b \in Backends, NEW r \in zone'[b] \ zone[b]
    PROVE  pc[i] \in EnsurePlaces /\ b = Cfg[job[i].prov].backend /\ r = job[i].rec
<1>. DEFINE c == Cfg[job[i].prov].backend
<1>1. zone \in [Backends -> SUBSET Data]
  BY DEF CourseInv, TypeOK
<1>2. CASE Update(i)
  <2>1. pc[i] \in EnsurePlaces
    BY <1>2 DEF Update, EnsurePlaces
  <2>2. zone' = zone \/ \E x : zone' = [zone EXCEPT ![c] = (@ \ {x}) \cup {job[i].rec}]
    BY <1>2 DEF Update
  <2>. HIDE DEF c
  <2>3. b = c /\ r = job[i].rec
    BY <1>1, <2>2
  <2>. QED BY <2>1, <2>3 DEF c
<1>3. CASE Create(i)
  <2>1. pc[i] \in EnsurePlaces
    BY <1>3 DEF Create, EnsurePlaces
  <2>2. zone' = zone \/ zone' = [zone EXCEPT ![c] = @ \cup {job[i].rec}]
    BY <1>3 DEF Create
  <2>. HIDE DEF c
  <2>3. b = c /\ r = job[i].rec
    BY <1>1, <2>2
  <2>. QED BY <2>1, <2>3 DEF c
<1>4. CASE DeleteStale(i) \/ DeleteForUpdate(i)
  <2>1. pc[i] \in EnsurePlaces
    BY <1>4 DEF DeleteStale, DeleteForUpdate, EnsurePlaces
  <2>2. job[i].prov \in Prov
    BY <2>1, JobType
  <2>3. PICK x, err : Delete(job[i].prov, x, err)
    BY <1>4 DEF DeleteStale, DeleteForUpdate
  <2>. QED BY <2>2, <2>3, DeleteAddsNothing
<1>5. CASE DeleteOrphan(i)
  <2>1. pc[i] \in PurgePlaces
    BY <1>5 DEF DeleteOrphan, PurgePlaces
  <2>2. purge[i].prov \in Prov
    BY <2>1, PurgeType
  <2>3. zone' = zone \/ \E x, err : Delete(purge[i].prov, x, err)
    BY <1>5 DEF DeleteOrphan
  <2>. QED BY <2>2, <2>3, DeleteAddsNothing
<1>6. ASSUME NEW p \in Prov, RecoverOwnership(i, p) \/ FillCache(i, p) \/ Ensure(i, p) \/ Orphan(i, p)
      PROVE  zone' = zone
  BY <1>6, SMTT(30) DEF RecoverOwnership, FillCache, Ensure, Orphan
<1>7. ASSUME Start(i) \/ Begin(i) \/ CacheFilled(i) \/ NextHost(i) \/ Query(i) \/ CreateOwnership(i)
      PROVE  zone' = zone
  BY <1>7 DEF Start, Begin, CacheFilled, NextHost, Query, CreateOwnership
<1>8. ASSUME BeginCleanup(i) \/ NextOrphan(i) \/ ListOrphan(i) \/ DeleteOwnership(i) \/ Commit(i)
      PROVE  zone' = zone
  BY <1>8 DEF BeginCleanup, NextOrphan, ListOrphan, DeleteOwnership, Commit
<1>. QED BY <1>2, <1>3, <1>4, <1>5, <1>6, <1>7, <1>8 DEF Step

\* A copy adds data only on the backend of a provider instance of its own that the host
\* name's hint names or whose domain and metadata filter take the host name, in any
\* configuration and whatever changes between the routing and the write: the routing
\* belongs to the host name as the running cycle discovered it (ensureRecord).
THEOREM RoutedWrites == Spec => WritesAreRouted
<1>. DEFINE Placed(i) ==
              \A b \in Backends : \A r \in zone'[b] \ zone[b] :
                 \E p \in Mine(i) :
                    /\ Cfg[p].backend = b
                    /\ LET s == found[i][r.host]
                       IN  IF s.provider = "" THEN r.host \in Cfg[p].domain /\ s.label \in Cfg[p].filter
                                              ELSE s.provider = p
<1>1. ASSUME CourseInv, RouteInv, NEW i \in Copies, Step(i) PROVE Placed(i)
  <2>1. SUFFICES ASSUME NEW b \in Backends, NEW r \in zone'[b] \ zone[b]
                 PROVE  \E p \in Mine(i) :
                          /\ Cfg[p].backend = b
                          /\ LET s == found[i][r.host]
                             IN  IF s.provider = "" THEN r.host \in Cfg[p].domain /\ s.label \in Cfg[p].filter
                                                    ELSE s.provider = p
    OBVIOUS
  <2>2. pc[i] \in EnsurePlaces /\ b = Cfg[job[i].prov].backend /\ r = job[i].rec
    BY <1>1, <2>1, StepAdds
  <2>3. r.host = job[i].host
    BY <1>1, <2>2, JobType
  <2>4. job[i].prov \in Writers(i, r.host, found[i][r.host])
    BY <1>1, <2>2, <2>3 DEF RouteInv, Routes
  <2>5. /\ job[i].prov \in Mine(i)
        /\ LET s == found[i][r.host]
           IN  IF s.provider = "" THEN r.host \in Cfg[job[i].prov].domain /\ s.label \in Cfg[job[i].prov].filter
                                  ELSE s.provider = job[i].prov
    BY <2>4 DEF Writers, MatchingProvidersForHostname, MatchingProviders
  <2>. QED BY <2>2, <2>5
<1>2. CourseInv /\ RouteInv => [\A i \in Copies : Step(i) => Placed(i)]_vars
  <2>. HIDE DEF Placed
  <2>. QED BY <1>1
<1>3. Init => CourseInv /\ RouteInv
  BY InitCourse, InitRoute
<1>4. CourseInv /\ RouteInv /\ [Next]_vars => (CourseInv /\ RouteInv)'
  BY NextCourse, NextRoute
<1>. QED BY <1>2, <1>3, <1>4, PTL DEF Spec, WritesAreRouted

-----------------------------------------------------------------------------
(* Markers of other copies. *)

\* Which steps of a copy change markers at all.
LEMMA StepMarkers ==
    ASSUME NEW i \in Copies, Step(i), txt' # txt PROVE CreateOwnership(i) \/ DeleteOwnership(i)
<1>1. ASSUME NEW p \in Prov, RecoverOwnership(i, p) \/ FillCache(i, p) \/ Ensure(i, p) \/ Orphan(i, p)
      PROVE  FALSE
  BY <1>1 DEF RecoverOwnership, FillCache, Ensure, Orphan
<1>2. ASSUME Start(i) \/ Begin(i) \/ CacheFilled(i) \/ NextHost(i) \/ Query(i) \/ Commit(i)
      PROVE  FALSE
  BY <1>2, SMTT(30) DEF Start, Begin, CacheFilled, NextHost, Query, Commit
<1>3. ASSUME DeleteStale(i) \/ Update(i) \/ DeleteForUpdate(i) \/ Create(i)
      PROVE  FALSE
  BY <1>3 DEF DeleteStale, Update, DeleteForUpdate, Create
<1>4. ASSUME BeginCleanup(i) \/ NextOrphan(i) \/ ListOrphan(i) \/ DeleteOrphan(i)
      PROVE  FALSE
  BY <1>4 DEF BeginCleanup, NextOrphan, ListOrphan, DeleteOrphan
<1>. QED BY <1>1, <1>2, <1>3, <1>4 DEF Step

\* When every provider that can store markers compares values, no step of a copy, through
\* whatever crashes, failures and edits, removes a marker that carries another instance
\* id (DeleteOwnershipRecord asks for the value with its own id).
THEOREM OthersMarkersKept ==
    ASSUME \A p \in Prov : Cfg[p].txt => Cfg[p].exact
    PROVE  Spec => ForeignMarkersKept
<1>. DEFINE Kept(i) == \A b \in Backends : {m \in txt[b] : m.id # Opt[i].id} \subseteq txt'[b]
<1>1. ASSUME CourseInv, NEW i \in Copies, Step(i) PROVE Kept(i)
  <2>1. txt \in [Backends -> SUBSET Marker]
    BY <1>1 DEF CourseInv, TypeOK
  <2>2. CASE txt' = txt
    BY <2>2
  <2>3. CASE CreateOwnership(i)
    <3>1. txt' = txt \/ \E c, m : txt' = [txt EXCEPT ![c] = @ \cup {m}]
      BY <2>3 DEF CreateOwnership
    <3>. QED BY <2>1, <3>1
  <2>4. CASE DeleteOwnership(i)
    <3>. DEFINE u == purge[i]
                c == Cfg[u.prov].backend
    <3>1. u.prov \in Prov
      BY <1>1, <2>4, PurgeType DEF DeleteOwnership, PurgePlaces
    <3>2. \/ txt' = txt
          \/ Cfg[u.prov].txt /\ \E m \in DeletableMarkers(i, u) : txt' = [txt EXCEPT ![c] = @ \ {m}]
      BY <2>4 DEF DeleteOwnership
    <3>3. Cfg[u.prov].txt => \A m \in DeletableMarkers(i, u) : m.id = Opt[i].id
      <4>1. Cfg[u.prov].txt => Cfg[u.prov].exact
        BY <3>1
      <4>. QED BY <4>1 DEF DeletableMarkers
    <3>. HIDE DEF u, c
    <3>. QED BY <2>1, <3>2, <3>3
  <2>. QED BY <1>1, <2>2, <2>3, <2>4, StepMarkers
<1>2. CourseInv => [\A i \in Copies : Step(i) => Kept(i)]_vars
  <2>. HIDE DEF Kept
  <2>. QED BY <1>1
<1>. QED BY <1>2, InitCourse, NextCourse, PTL DEF Spec, ForeignMarkersKept

-----------------------------------------------------------------------------
(* Dry run. *)

\* No switch is thrown at run time, and no provider instance of a dry copy is cleaned up
\* by deleteCacheOnlyForProvider, which looks at the flag only after the delete.
DryConfig ==
    /\ MaxToggles = 0
    /\ \A i \in Copies, p \in Prov : Opt[i].dryRun => DeletePath(i, p) # "cache"

\* A dry copy is never inside ensureRecordForProvider, and a deletion under way has seen
\* the flag.
Dry(k) ==
    /\ dryRun[k] = Opt[k].dryRun
    /\ dryRun[k] => pc[k] \notin EnsurePlaces
    /\ dryRun[k] /\ pc[k] \in PurgePlaces => purge[k].path # "cache"
    /\ dryRun[k] /\ pc[k] \in {"delete", "disown"} => (purge[k].path = "managed" => purge[k].dry)
DryInv == budget["toggle"] = 0 /\ \A k \in Copies : Dry(k)

LEMMA InitDry == ASSUME DryConfig, Init PROVE DryInv
<1>1. budget["toggle"] = 0
  BY DEF DryConfig, Init, Kinds, Bound
<1>2. \A k \in Copies : Dry(k)
  BY DEF Init, Dry, EnsurePlaces, PurgePlaces
<1>. QED BY <1>1, <1>2 DEF DryInv

LEMMA DryKept ==
    ASSUME NEW k, Dry(k), UNCHANGED <<pc[k], purge[k], dryRun[k]>> PROVE Dry(k)'
  BY DEF Dry

\* A step of copy i that leaves the flag alone is judged by what it does to i.
LEMMA DryLocal ==
    ASSUME CourseInv, DryInv, NEW i \in Copies, Dry(i)', budget'["toggle"] = 0, UNCHANGED dryRun,
           \A k \in Copies \ {i} : UNCHANGED <<pc[k], purge[k]>>
    PROVE  DryInv'
<1>1. ASSUME NEW k \in Copies \ {i} PROVE Dry(k)'
  BY DryKept DEF DryInv
<1>. QED BY <1>1 DEF DryInv

\* A failure is not paid for with a switch.
LEMMA ToggleKept ==
    ASSUME CourseInv, DryInv, NEW k \in {"fault", "crash", "edit", "workload", "retarget"},
           Spend(k) \/ UNCHANGED budget
    PROVE  budget'["toggle"] = 0
  BY DEF CourseInv, TypeOK, DryInv, Spend, Kinds

LEMMA EndsToggle ==
    ASSUME CourseInv, DryInv, NEW err, Ends(err) PROVE budget'["toggle"] = 0
  BY ToggleKept DEF Ends

\* What SetPurge makes of the flag it is handed.
LEMMA SetPurgeDry ==
    ASSUME CourseInv, DryInv, NEW i \in Copies, NEW path \in Paths, NEW p, NEW target, NEW dry, NEW R,
           SetPurge(i, path, p, target, dry, R), UNCHANGED dryRun,
           dryRun[i] => path # "cache" /\ (path = "managed" => dry)
    PROVE  Dry(i)' /\ \A k \in Copies \ {i} : UNCHANGED <<pc[k], purge[k]>>
<1>. DEFINE next == DeleteNext(i, path, R)
            q == [host |-> host[i], prov |-> p, path |-> path,
                  target |-> target, dry |-> dry, left |-> R]
<1>1. next \in {"delete", "disown", "orphan"}
  BY DeleteNextType
<1>2. q.path = path /\ q.dry = dry
  OBVIOUS
<1>3. pc' = [pc EXCEPT ![i] = next]
      /\ purge' = [purge EXCEPT ![i] = IF next = "orphan" THEN NoJob ELSE q]
  BY DEF SetPurge
<1>. HIDE DEF next, q
<1>4. /\ pc'[i] = next /\ (next # "orphan" => purge'[i] = q)
      /\ \A k \in Copies \ {i} : UNCHANGED <<pc[k], purge[k]>>
  BY <1>3, LocalState
<1>5. dryRun[i] = Opt[i].dryRun
  BY DEF DryInv, Dry
<1>. QED BY <1>1, <1>2, <1>4, <1>5 DEF Dry, EnsurePlaces, PurgePlaces

\* A copy outside the ensure function and the delete functions.
LEMMA DryAtRest ==
    ASSUME DryInv, NEW i \in Copies, UNCHANGED dryRun, pc'[i] \notin EnsurePlaces \cup PurgePlaces
    PROVE  Dry(i)'
  BY DEF DryInv, Dry, PurgePlaces

LEMMA StepDry ==
    ASSUME DryConfig, CourseInv, DryInv, NEW i \in Copies, Step(i) PROVE DryInv'
<1>. DEFINE Others == \A k \in Copies \ {i} : UNCHANGED <<pc[k], purge[k]>>
<1>1. Dry(i) /\ (dryRun[i] => \A p \in Prov : DeletePath(i, p) # "cache")
  BY DEF DryInv, Dry, DryConfig
<1>2. ASSUME NEW p \in Prov, Ensure(i, p) PROVE DryInv'
  <2>1. /\ UNCHANGED <<purge, budget, dryRun>>
        /\ pc[i] = "ensure" /\ (dryRun[i] => UNCHANGED pc)
    BY <1>2 DEF Ensure
  <2>2. Others
    BY <1>2, <2>1, EnsureGoesOn DEF GoesOnWith
  <2>3. Dry(i)'
    BY <1>1, <2>1, DryAtRest DEF Dry, EnsurePlaces, PurgePlaces
  <2>. QED BY <2>1, <2>2, <2>3, DryLocal DEF DryInv
<1>3. ASSUME Query(i) \/ DeleteStale(i) \/ Update(i) \/ DeleteForUpdate(i) \/ Create(i) \/ CreateOwnership(i)
      PROVE  DryInv'
  <2>1. UNCHANGED <<purge, dryRun>> /\ pc[i] \in EnsurePlaces
    BY <1>3 DEF Query, DeleteStale, Update, DeleteForUpdate, Create, CreateOwnership, EnsurePlaces
  <2>2. Others
    BY <1>3, <2>1, CallGoesOn DEF GoesOnWith
  <2>3. Dry(i)'
    BY <1>1, <2>1, SMTT(30) DEF Dry
  <2>4. UNCHANGED budget \/ Spend("fault") \/ \E err : Ends(err)
    BY <1>3 DEF Query, DeleteStale, Update, DeleteForUpdate, Create, CreateOwnership, Delete
  <2>. QED BY <2>1, <2>2, <2>3, <2>4, ToggleKept, EndsToggle, DryLocal, SMTT(30)
<1>4. ASSUME NEW p \in Prov, Orphan(i, p) PROVE DryInv'
  <2>. DEFINE path == DeletePath(i, p)
              R == RecordsOf(cache[i][p].data, host[i])
  <2>1. UNCHANGED <<budget, dryRun>>
    BY <1>4 DEF Orphan
  <2>2. CASE UNCHANGED <<pc, purge>>
    BY <1>1, <2>1, <2>2, DryKept, DryLocal DEF DryInv
  <2>3. CASE path # "none" /\ SetPurge(i, path, p, aim[p], dryRun[i], Doomed(path, p, aim[p], R))
    <3>1. path \in Paths
      BY <2>3, DeletePathType
    <3>2. dryRun[i] => path # "cache"
      BY <1>1
    <3>. HIDE DEF path, R
    <3>. QED BY <2>1, <2>3, <3>1, <3>2, SetPurgeDry, DryLocal DEF DryInv
  <2>4. CASE /\ pc' = [pc EXCEPT ![i] = "list"]
             /\ purge' = [purge EXCEPT ![i] =
                            [host |-> host[i], prov |-> p, path |-> path,
                             target |-> aim[p], dry |-> FALSE, left |-> {}]]
    <3>1. dryRun[i] => path # "cache"
      BY <1>1
    <3>. HIDE DEF path
    <3>2. pc'[i] = "list" /\ purge'[i].path = path /\ Others
      BY <2>4, LocalState
    <3>3. Dry(i)'
      BY <1>1, <2>1, <3>1, <3>2 DEF Dry, EnsurePlaces
    <3>. QED BY <2>1, <3>2, <3>3, DryLocal DEF DryInv
  <2>. QED BY <1>4, <2>2, <2>3, <2>4 DEF Orphan
<1>5. CASE ListOrphan(i)
  <2>. DEFINE u == purge[i]
              R == RecordsOf(zone[Cfg[u.prov].backend], u.host)
  <2>1. UNCHANGED dryRun /\ (UNCHANGED budget \/ Spend("fault")) /\ pc[i] \in PurgePlaces
    BY <1>5 DEF ListOrphan, PurgePlaces
  <2>2. budget'["toggle"] = 0
    BY <2>1, ToggleKept
  <2>3. u.path \in Paths /\ (dryRun[i] => u.path # "cache")
    BY <1>1, <2>1, PurgeType DEF Dry
  <2>4. CASE SetPurge(i, u.path, u.prov, u.target, dryRun[i], Doomed(u.path, u.prov, u.target, R))
    <3>. HIDE DEF u, R
    <3>. QED BY <2>1, <2>2, <2>3, <2>4, SetPurgeDry, DryLocal
  <2>5. CASE /\ pc' = [pc EXCEPT ![i] = "orphan"]
             /\ purge' = [purge EXCEPT ![i] = NoJob]
    <3>1. pc'[i] = "orphan" /\ Others
      BY <2>5, LocalState
    <3>. QED BY <2>1, <2>2, <3>1, DryAtRest, DryLocal DEF EnsurePlaces, PurgePlaces
  <2>. QED BY <1>5, <2>4, <2>5 DEF ListOrphan
<1>6. CASE DeleteOrphan(i)
  <2>. DEFINE u == purge[i]
  <2>1. UNCHANGED dryRun /\ pc[i] = "delete" /\ (UNCHANGED budget \/ \E err : Ends(err))
    BY <1>6 DEF DeleteOrphan, Delete
  <2>2. budget'["toggle"] = 0
    BY <2>1, EndsToggle, ToggleKept
  <2>3. u.path \in Paths /\ (dryRun[i] => u.path # "cache" /\ (u.path = "managed" => u.dry))
    BY <1>1, <2>1, PurgeType DEF Dry, PurgePlaces
  <2>4. PICK r : SetPurge(i, u.path, u.prov, u.target, u.dry, u.left \ {r})
    BY <1>6 DEF DeleteOrphan
  <2>. HIDE DEF u
  <2>. QED BY <2>1, <2>2, <2>3, <2>4, SetPurgeDry, DryLocal
<1>7. CASE DeleteOwnership(i)
  <2>1. UNCHANGED dryRun /\ (UNCHANGED budget \/ \E err : Ends(err))
    BY <1>7 DEF DeleteOwnership
  <2>2. budget'["toggle"] = 0
    BY <2>1, EndsToggle, ToggleKept
  <2>3. pc'[i] = "orphan" /\ Others
    BY <1>7, LocalState DEF DeleteOwnership
  <2>. QED BY <2>1, <2>2, <2>3, DryAtRest, DryLocal DEF EnsurePlaces, PurgePlaces
<1>8. ASSUME \/ Start(i) \/ Begin(i) \/ CacheFilled(i) \/ NextHost(i)
             \/ BeginCleanup(i) \/ NextOrphan(i) \/ Commit(i)
      PROVE  DryInv'
  <2>1. UNCHANGED dryRun /\ (UNCHANGED budget \/ Spend("fault"))
    BY <1>8 DEF Start, Begin, CacheFilled, NextHost, BeginCleanup, NextOrphan, Commit
  <2>2. budget'["toggle"] = 0
    BY <2>1, ToggleKept
  <2>3. pc'[i] \notin EnsurePlaces \cup PurgePlaces /\ Others
    BY <1>8, LocalState DEF Start, Begin, CacheFilled, NextHost, BeginCleanup, NextOrphan, Commit,
                            EnsurePlaces, PurgePlaces
  <2>. QED BY <2>1, <2>2, <2>3, DryAtRest, DryLocal
<1>9. ASSUME NEW p \in Prov, RecoverOwnership(i, p) \/ FillCache(i, p) PROVE DryInv'
  <2>1. UNCHANGED dryRun /\ (UNCHANGED budget \/ Spend("fault"))
    BY <1>9 DEF RecoverOwnership, FillCache
  <2>2. budget'["toggle"] = 0
    BY <2>1, ToggleKept
  <2>3. pc'[i] \notin EnsurePlaces \cup PurgePlaces /\ Others
    BY <1>9, LocalState DEF RecoverOwnership, FillCache, EnsurePlaces, PurgePlaces
  <2>. QED BY <2>1, <2>2, <2>3, DryAtRest, DryLocal
<1>. QED BY <1>2, <1>3, <1>4, <1>5, <1>6, <1>7, <1>8, <1>9 DEF Step

LEMMA NextDry ==
    ASSUME DryConfig, CourseInv, DryInv, [Next]_vars PROVE DryInv'
<1>1. ASSUME NEW i \in Copies, Crash(i) PROVE DryInv'
  <2>1. Spend("crash")
    BY <1>1 DEF Crash
  <2>2. budget'["toggle"] = 0
    BY <2>1, ToggleKept
  <2>3. /\ dryRun' = [dryRun EXCEPT ![i] = Opt[i].dryRun] /\ dryRun \in [Copies -> BOOLEAN]
        /\ pc' = [pc EXCEPT ![i] = "down"] /\ purge' = [purge EXCEPT ![i] = NoJob]
    BY <1>1 DEF Crash, CourseInv, TypeOK
  <2>4. ASSUME NEW k \in Copies \ {i} PROVE Dry(k)'
    <3>1. UNCHANGED <<pc[k], purge[k], dryRun[k]>>
      BY <2>3, LocalState
    <3>. QED BY <3>1, DryKept DEF DryInv
  <2>5. Dry(i)'
    <3>1. pc'[i] = "down" /\ dryRun'[i] = Opt[i].dryRun
      BY <2>3, LocalState
    <3>. QED BY <3>1 DEF Dry, EnsurePlaces, PurgePlaces
  <2>. QED BY <2>2, <2>4, <2>5 DEF DryInv
<1>2. ASSUME NEW i \in Copies, NEW on, SetDryRun(i, on) \/ SetEnabled(i, on) PROVE FALSE
  BY <1>2 DEF SetDryRun, SetEnabled, Spend, DryInv
<1>3. ASSUME UNCHANGED <<pc, purge, dryRun>>, budget'["toggle"] = 0 PROVE DryInv'
  BY <1>3, DryKept DEF DryInv
<1>4. ASSUME NEW i \in Copies, NEW h, NEW s, ChangeWorkload(i, h, s) PROVE DryInv'
  <2>1. UNCHANGED <<pc, purge, dryRun>> /\ Spend("workload")
    BY <1>4 DEF ChangeWorkload
  <2>. QED BY <1>3, <2>1, ToggleKept
<1>5. ASSUME NEW p, NEW t, SetDynamicTarget(p, t) PROVE DryInv'
  <2>1. UNCHANGED <<pc, purge, dryRun>> /\ Spend("retarget")
    BY <1>5 DEF SetDynamicTarget
  <2>. QED BY <1>3, <2>1, ToggleKept
<1>6. ASSUME NEW b, NEW r, EditZone(b, r) PROVE DryInv'
  <2>1. UNCHANGED <<pc, purge, dryRun>> /\ Spend("edit")
    BY <1>6 DEF EditZone
  <2>. QED BY <1>3, <2>1, ToggleKept
<1>7. CASE UNCHANGED vars
  BY <1>3, <1>7 DEF vars, DryInv
<1>8. CASE Environment
  BY <1>1, <1>2, <1>4, <1>5, <1>6, <1>8 DEF Environment
<1>. QED BY <1>7, <1>8, StepDry DEF Next

\* As long as nobody throws a switch, a copy configured for dry run changes neither data
\* nor markers, in every mode, when the cleanup of its managed provider instances is not
\* deleteCacheOnlyForProvider's (which deletes first and looks at the flag afterwards).
THEOREM DryRunSafety ==
    ASSUME DryConfig PROVE Spec => DryRunWritesNothing
<1>1. ASSUME CourseInv, DryInv, NEW i \in Copies, Step(i), dryRun[i] PROVE UNCHANGED store
  <2>1. Dry(i)
    BY <1>1 DEF DryInv
  <2>2. pc[i] \notin EnsurePlaces
    BY <1>1, <2>1 DEF Dry
  <2>3. ASSUME pc[i] \in {"delete", "disown"} PROVE Quiet(i)
    <3>1. pc[i] \in PurgePlaces
      BY <2>3 DEF PurgePlaces
    <3>2. purge[i].path \in Paths
      BY <1>1, <3>1, PurgeType
    <3>. QED BY <1>1, <2>1, <2>3, <3>1, <3>2 DEF Quiet, Dry, Paths
  <2>4. CASE DeleteOrphan(i)
    BY <2>3, <2>4 DEF DeleteOrphan
  <2>5. CASE DeleteOwnership(i)
    BY <2>3, <2>5, SMTT(30) DEF DeleteOwnership
  <2>6. ASSUME Query(i) \/ DeleteStale(i) \/ Update(i) \/ DeleteForUpdate(i) \/ Create(i) \/ CreateOwnership(i)
        PROVE  FALSE
    BY <2>2, <2>6 DEF Query, DeleteStale, Update, DeleteForUpdate, Create, CreateOwnership, EnsurePlaces
  <2>7. ASSUME NEW p \in Prov, RecoverOwnership(i, p) \/ FillCache(i, p) \/ Ensure(i, p) \/ Orphan(i, p)
        PROVE  UNCHANGED store
    BY <2>7 DEF RecoverOwnership, FillCache, Ensure, Orphan
  <2>8. ASSUME \/ Start(i) \/ Begin(i) \/ CacheFilled(i) \/ NextHost(i)
               \/ BeginCleanup(i) \/ NextOrphan(i) \/ ListOrphan(i) \/ Commit(i)
        PROVE  UNCHANGED store
    BY <2>8 DEF Start, Begin, CacheFilled, NextHost, BeginCleanup, NextOrphan, ListOrphan, Commit
  <2>. QED BY <1>1, <2>4, <2>5, <2>6, <2>7, <2>8 DEF Step
<1>2. CourseInv /\ DryInv => [\A i \in Copies : Step(i) /\ dryRun[i] => UNCHANGED store]_vars
  BY <1>1
<1>3. Init => CourseInv /\ DryInv
  BY InitCourse, InitDry
<1>4. CourseInv /\ DryInv /\ [Next]_vars => (CourseInv /\ DryInv)'
  BY NextCourse, NextDry
<1>. QED BY <1>2, <1>3, <1>4, PTL DEF Spec, DryRunWritesNothing
=============================================================================
