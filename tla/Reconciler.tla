----------------------------- MODULE Reconciler -----------------------------
(***************************************************************************)
(* The reconciliation cycle of dnsweaver (internal/reconciler), run by one *)
(* or more copies of the program against shared DNS backends.              *)
(*                                                                         *)
(* Every call of a provider (List, Create, Update, Delete) is one step,    *)
(* because between two calls another copy, an operator or a crash may      *)
(* intervene; everything a copy does between two calls is folded into the  *)
(* step of the call that precedes it.  The backends are external: what     *)
(* they do is the contract of pkg/provider/provider.go, with failures that *)
(* may come before or after the effect.                                    *)
(***************************************************************************)
EXTENDS Integers, FiniteSets

CONSTANTS
    Copies,     \* running copies of dnsweaver
    Prov,       \* configured provider instances, of all copies
    Backends,   \* the DNS record stores behind the provider instances
    Hosts,      \* normalized host names
    Types,      \* record types ("A", "AAAA", "CNAME", "SRV", ...)
    Targets,    \* record targets
    SRVs,       \* SRV data, NoSRV included
    Metas,      \* hint metadata, NoMeta included
    Labels,     \* the source metadata that provider filters look at
    Ids,        \* DNSWEAVER_INSTANCE_ID values
    NoSRV, NoMeta, NoSpec, NoHost, NoJob,
    Specs,      \* what sources may ask for a host name
    Cfg,        \* configuration of each provider instance
    Opt,        \* configuration of each copy
    InitialZone,\* the data records and the markers that each backend holds at the
    InitialTxt, \* start, left there by operators and by earlier lives of the copies
    ManualRecords, \* the data records operators add and remove by hand
    MaxFaults, MaxCrashes, MaxEdits, MaxWorkloadChanges, MaxRetargets, MaxToggles

Modes == {"managed", "authoritative", "additive"}

Data == [host : Hosts, type : Types, target : Targets, srv : SRVs]
Marker == [host : Hosts, id : Ids, meta : Metas]

\* A source.Hostname and its RecordHints; "" is an unset hint.
Hint == [provider : Prov \cup {""}, type : Types \cup {""},
         target : Targets \cup {""}, srv : SRVs, meta : Metas,
         label : Labels, lower : BOOLEAN, file : BOOLEAN]

ProvConfig == [owner : Copies, rank : Nat, backend : Backends, identity : Backends,
               type : Types, target : Targets, pool : SUBSET Targets,
               mode : Modes, domain : SUBSET Hosts, filter : SUBSET Labels,
               caps : SUBSET Types, txt : BOOLEAN, native : BOOLEAN, exact : BOOLEAN]

CopyConfig == [id : Ids, tracking : BOOLEAN, adopt : BOOLEAN,
               cleanup : BOOLEAN, dryRun : BOOLEAN]

ASSUME ConfigAssumption ==
    /\ Cfg \in [Prov -> ProvConfig]
    /\ Opt \in [Copies -> CopyConfig]
    /\ Specs \subseteq Hint
    /\ InitialZone \in [Backends -> SUBSET Data]
    /\ InitialTxt \in [Backends -> SUBSET Marker]
    /\ ManualRecords \subseteq Data

ASSUME BoundAssumption ==
    /\ MaxFaults \in Nat
    /\ MaxCrashes \in Nat
    /\ MaxEdits \in Nat
    /\ MaxWorkloadChanges \in Nat
    /\ MaxRetargets \in Nat
    /\ MaxToggles \in Nat

ASSUME NullAssumption ==
    /\ NoSRV \in SRVs
    /\ NoMeta \in Metas
    /\ NoSpec \notin Specs
    /\ NoHost \notin Hosts

ASSUME UnsetAssumption == "" \notin Prov \cup Types \cup Targets

VARIABLES
    zone,       \* zone[b]: data records of backend b
    txt,        \* txt[b]: ownership TXT records of backend b
    want,       \* want[i][h]: what copy i's workloads and files ask for h now
    aim,        \* aim[p]: EffectiveTarget of provider instance p
    enabled,    \* enabled[i], dryRun[i]: the atomics of Reconciler
    dryRun,
    pc,         \* pc[i]: where copy i is
    known,      \* known[i]: knownHostnames
    route,      \* route[i][h]: hostnameProviders
    recovered,  \* recovered[i][h]: recoveredMetadata
    found,      \* found[i][h]: discoveredHostnames of the running cycle
    cache,      \* cache[i][p]: recordCache of the running cycle
    mapping,    \* mapping[i][h]: currentProviderMapping of the running cycle
    todo,       \* todo[i]: host names the current loop has not reached
    host,       \* host[i]: the host name the current loop is at
    queue,      \* queue[i]: provider instances the current loop has not reached
    job,        \* job[i]: locals of ensureRecordForProvider
    purge,      \* purge[i]: locals of the delete...ForProvider functions
    budget,     \* what the environment may still do
    marked,     \* history: marked[b], the <<host, id>> that ever got a marker on b
    seen,       \* history: seen[i], the host names copy i ever discovered
    purged      \* history: <<copy, provider, host>> that cleanup removed data of

store == <<zone, txt>>
process == <<known, route, recovered>>
cycle == <<found, cache, mapping>>
loop == <<todo, host, queue>>
env == <<want, aim, enabled, dryRun>>
history == <<marked, seen, purged>>
vars == <<zone, txt, want, aim, enabled, dryRun, pc, known, route, recovered, found,
          cache, mapping, todo, host, queue, job, purge, budget, marked, seen, purged>>

-----------------------------------------------------------------------------
(* Configuration and hints. *)

Mine(i) == {p \in Prov : Cfg[p].owner = i}

\* p is the provider instance of S declared earliest.
First(p, S) == p \in S /\ \A q \in S : Cfg[p].rank <= Cfg[q].rank

\* MatchingProviders looks at the domain only ...
MatchingProviders(i, h) == {p \in Mine(i) : h \in Cfg[p].domain}

\* Fault: the metadata filters are forgotten.
MatchingUnfiltered(i, h, s) == MatchingProviders(i, h)

\* ... MatchingProvidersForHostname at the metadata filters too.
MatchingProvidersForHostname(i, h, s) ==
    {p \in MatchingProviders(i, h) : s.label \in Cfg[p].filter}

\* Fault: instances of the same backend and type are not told apart.
WritersUndeduplicated(i, h, s) ==
    IF s.provider # ""
    THEN {s.provider} \cap Mine(i) ELSE MatchingProvidersForHostname(i, h, s)

\* The provider instances ensureRecord writes h to: the explicitly hinted one, or
\* the first matching one of each (backend identity, record type).
Writers(i, h, s) ==
    IF s.provider # ""
    THEN {s.provider} \cap Mine(i)
    ELSE LET M == MatchingProvidersForHostname(i, h, s)
         IN  {p \in M : \A q \in M :
                 (Cfg[q].identity = Cfg[p].identity /\ Cfg[q].type = Cfg[p].type)
                    => Cfg[p].rank <= Cfg[q].rank}

\* The record that hints and provider defaults make of h.
Desired(p, h, s) ==
    [host   |-> h,
     type   |-> IF s.type # "" THEN s.type ELSE Cfg[p].type,
     target |-> IF s.target # "" THEN s.target ELSE aim[p],
     srv    |-> s.srv]

Discovered(i) == {h \in Hosts : found[i][h] # NoSpec}
RecordsOf(S, h) == {r \in S : r.host = h}

NotCached == [ok |-> FALSE, data |-> {}, txt |-> {}]

\* Fault: any copy's marker counts.
HasAnyOwnership(i, p, h) == cache[i][p].ok /\ \E m \in cache[i][p].txt : m.host = h

HasOwnership(i, p, h) ==
    cache[i][p].ok /\ \E m \in cache[i][p].txt : m.host = h /\ m.id = Opt[i].id

\* ensureOwnershipRecord reaches the provider only if this holds.
NeedsMarker(i, p, h) == Opt[i].tracking /\ ~HasOwnership(i, p, h)

-----------------------------------------------------------------------------
(* Backends.  err says how a call ends: "none", or an error that comes      *)
(* "before" or "after" the backend applied the call.                        *)

Faults == {"none", "before", "after"}

\* What the environment does is bounded, by kind.
Kinds == {"fault", "crash", "edit", "workload", "retarget", "toggle"}
Bound(k) == CASE k = "fault" -> MaxFaults
              [] k = "crash" -> MaxCrashes
              [] k = "edit" -> MaxEdits
              [] k = "workload" -> MaxWorkloadChanges
              [] k = "retarget" -> MaxRetargets
              [] k = "toggle" -> MaxToggles

Spend(k) == budget[k] > 0 /\ budget' = [budget EXCEPT ![k] = @ - 1]

Ends(err) == IF err = "none" THEN UNCHANGED budget ELSE Spend("fault")

\* A name that has a CNAME has nothing else.
TypeClash(b, r) ==
    \E x \in zone[b] : x.host = r.host /\ x.type # r.type
                       /\ (x.type = "CNAME" \/ r.type = "CNAME")

\* What Delete(r) may remove: the record itself, or, from the providers that look a
\* record up by name and type alone, whichever they find.
DeleteChoice(p, S, r) ==
    IF Cfg[p].exact THEN S \cap {r} ELSE {x \in S : x.host = r.host /\ x.type = r.type}

Delete(p, r, err) ==
    LET b == Cfg[p].backend
        C == DeleteChoice(p, zone[b], r)
    IN  /\ Ends(err)
        /\ IF err = "before" \/ C = {}
           THEN UNCHANGED zone
           ELSE \E x \in C : zone' = [zone EXCEPT ![b] = @ \ {x}]

-----------------------------------------------------------------------------
(* Start of the process: New, RecoverOwnership. *)

NoRoute == [h \in Hosts |-> {}]
NoneFound == [h \in Hosts |-> NoSpec]
NoneRecovered == [h \in Hosts |-> NoMeta]
EmptyCache == [p \in Prov |-> NotCached]

Start(i) ==
    /\ pc[i] = "down"
    /\ LET recovers == Opt[i].cleanup /\ Opt[i].tracking /\ Mine(i) # {}
       IN  /\ pc' = [pc EXCEPT ![i] = IF recovers THEN "recover" ELSE "idle"]
           /\ queue' = [queue EXCEPT ![i] = IF recovers THEN Mine(i) ELSE {}]
    /\ UNCHANGED <<store, env, process, cycle, todo, host, job, purge, budget, history>>

\* Fault: the markers of every copy are recovered.
AllMarkers(i, p) == txt[Cfg[p].backend]

\* The markers of p's backend that carry this copy's instance id.
OwnMarkers(i, p) == {m \in txt[Cfg[p].backend] : m.id = Opt[i].id}

\* One round of RecoverOwnership's loop: RecoverOwnedHostnames of p, or its failure.
\* When a name has several markers with metadata, the one listed last counts.
RecoverOwnership(i, p) ==
    /\ pc[i] = "recover"
    /\ First(p, queue[i])
    /\ \/ LET names == {m.host : m \in OwnMarkers(i, p)}
              metas(h) == {m.meta : m \in {x \in OwnMarkers(i, p) : x.host = h}} \ {NoMeta}
          IN  /\ known' = [known EXCEPT ![i] = @ \cup names]
              /\ route' = [route EXCEPT ![i] =
                             [h \in Hosts |-> IF h \in names THEN @[h] \cup {p} ELSE @[h]]]
              /\ \E last \in [Hosts -> Metas] :
                    /\ \A h \in Hosts : last[h] \in IF metas(h) = {} THEN {recovered[i][h]}
                                                                   ELSE metas(h)
                    /\ recovered' = [recovered EXCEPT ![i] = last]
              /\ UNCHANGED budget
       \/ Spend("fault") /\ UNCHANGED process
    /\ queue' = [queue EXCEPT ![i] = @ \ {p}]
    /\ pc' = [pc EXCEPT ![i] = IF queue[i] = {p} THEN "idle" ELSE @]
    /\ UNCHANGED <<store, env, cycle, todo, host, job, purge, history>>

-----------------------------------------------------------------------------
(* Reconcile, steps 1 to 3: discovery and record cache. *)

\* Listing the workloads and extracting their host names.  A lister error returns
\* before anything changed and is not a step; an error of the file sources is logged
\* and swallowed by DiscoverAll, and their host names are missing from the result.
Begin(i) ==
    /\ pc[i] = "idle"
    /\ enabled[i]
    /\ \E filesFail \in BOOLEAN :
          LET lost(h) == filesFail /\ want[i][h] # NoSpec /\ want[i][h].file
              f == [h \in Hosts |-> IF lost(h) THEN NoSpec ELSE want[i][h]]
          IN  /\ IF filesFail THEN Spend("fault") ELSE UNCHANGED budget
              /\ found' = [found EXCEPT ![i] = f]
              /\ seen' = [seen EXCEPT ![i] = @ \cup {h \in Hosts : f[h] # NoSpec}]
              /\ todo' = [todo EXCEPT ![i] = {h \in Hosts : f[h] # NoSpec}]
    /\ queue' = [queue EXCEPT ![i] = Mine(i)]
    /\ pc' = [pc EXCEPT ![i] = "cache"]
    /\ UNCHANGED <<store, env, process, cache, mapping, host, job, purge, marked, purged>>

\* newRecordCache, one provider: List, or a failed List that leaves a nil entry.
FillCache(i, p) ==
    /\ pc[i] = "cache"
    /\ First(p, queue[i])
    /\ LET b == Cfg[p].backend
       IN  \/ /\ cache' = [cache EXCEPT ![i][p] =
                              [ok |-> TRUE, data |-> zone[b], txt |-> txt[b]]]
              /\ UNCHANGED budget
           \/ Spend("fault") /\ UNCHANGED cache
    /\ queue' = [queue EXCEPT ![i] = @ \ {p}]
    /\ UNCHANGED <<store, env, pc, process, found, mapping, todo, host, job, purge, history>>

CacheFilled(i) ==
    /\ pc[i] = "cache"
    /\ queue[i] = {}
    /\ pc' = [pc EXCEPT ![i] = "ensure"]
    /\ UNCHANGED <<store, env, process, cycle, loop, job, purge, budget, history>>

-----------------------------------------------------------------------------
(* Reconcile, step 4: ensureRecord for every discovered host name. *)

\* Maps iterate in any order.
NextHost(i) ==
    /\ pc[i] = "ensure"
    /\ queue[i] = {}
    /\ \E h \in todo[i] :
          /\ host' = [host EXCEPT ![i] = h]
          /\ todo' = [todo EXCEPT ![i] = @ \ {h}]
          /\ queue' = [queue EXCEPT ![i] = Writers(i, h, found[i][h])]
    /\ UNCHANGED <<store, env, pc, process, cycle, job, purge, budget, history>>

\* What Reconcile does with an action that is not a skip: remember the provider, under
\* the name as the source spelt it, which only a lower-case name finds again.
Routed(i, h, p) ==
    IF found[i][h].lower THEN [mapping EXCEPT ![i][h] = @ \cup {p}] ELSE mapping

\* Fault: the locals survive the return.
ReturnKeepingJob(i, acted) ==
    /\ mapping' = IF acted THEN Routed(i, job[i].host, job[i].prov) ELSE mapping
    /\ pc' = [pc EXCEPT ![i] = "ensure"]
    /\ UNCHANGED job

\* The end of ensureRecordForProvider; acted: its action is not a skip.
Return(i, acted) ==
    /\ mapping' = IF acted THEN Routed(i, job[i].host, job[i].prov) ELSE mapping
    /\ job' = [job EXCEPT ![i] = NoJob]
    /\ pc' = [pc EXCEPT ![i] = "ensure"]

\* ... with the call of ensureOwnershipRecord before it.
ReturnMarking(i, acted) ==
    IF NeedsMarker(i, job[i].prov, job[i].host)
    THEN /\ mapping' = IF acted THEN Routed(i, job[i].host, job[i].prov) ELSE mapping
         /\ pc' = [pc EXCEPT ![i] = "own"]
         /\ UNCHANGED job
    ELSE Return(i, acted)

Same(rec, E) == {r \in E : r.type = rec.type}

\* An existing record that needs no change; SRV records are compared with their data.
Matches(rec, r) == r.target = rec.target /\ (rec.type = "SRV" => r.srv = rec.srv)
Stale(rec, E) == {r \in Same(rec, E) : r.target = rec.target /\ ~Matches(rec, r)}

\* Fault: a record with another target is taken for good.
NextStepWithoutUpdate(i, p, rec, E) == IF Same(rec, E) # {} THEN "ensure" ELSE "create"

\* What follows the deletion of stale SRV records: adopt a matching record or leave it
\* alone, update one with another target, or create.
NextStep(i, p, rec, E) ==
    LET exact == \E r \in Same(rec, E) : Matches(rec, r)
        adopts == Opt[i].adopt /\ NeedsMarker(i, p, rec.host)
    IN  CASE exact /\ adopts -> "own"
          [] exact /\ ~adopts -> "ensure"
          [] ~exact /\ Same(rec, E) # {} -> "update"
          [] ~exact /\ Same(rec, E) = {} -> "create"

\* Steps 2 to 4 of ensureRecordForProvider: what to do about the existing records E.  A
\* record of any other type makes it skip.  old is the record an update starts from, the
\* first of the same type that was listed.
Decide(i, p, rec, meta, E) ==
    LET next == NextStep(i, p, rec, E)
        stale == Stale(rec, E)
    IN  IF E # Same(rec, E) \/ (next = "ensure" /\ stale = {})
        THEN /\ pc' = [pc EXCEPT ![i] = "ensure"]
             /\ job' = [job EXCEPT ![i] = NoJob]
        ELSE \E old \in IF next = "update" THEN Same(rec, E) ELSE {rec} :
                /\ job' = [job EXCEPT ![i] =
                             [host |-> rec.host, prov |-> p, rec |-> rec, meta |-> meta,
                              old |-> old, stale |-> stale, next |-> next]]
                /\ pc' = [pc EXCEPT ![i] = IF stale # {} THEN "stale" ELSE next]

\* ensureRecordForProvider up to its first call.  Recovered metadata is consumed even
\* by a dry run; a dry run reports a create and ends there.
Ensure(i, p) ==
    /\ pc[i] = "ensure"
    /\ First(p, queue[i])
    /\ queue' = [queue EXCEPT ![i] = @ \ {p}]
    /\ LET h == host[i]
           s == found[i][h]
           rec == Desired(p, h, s)
           meta == IF s.meta # NoMeta THEN s.meta ELSE recovered[i][h]
       IN  /\ recovered' = IF s.meta = NoMeta
                           THEN [recovered EXCEPT ![i][h] = NoMeta] ELSE recovered
           /\ \/ /\ dryRun[i]
                 /\ mapping' = Routed(i, h, p)
                 /\ UNCHANGED <<pc, job>>
              \/ /\ ~dryRun[i]
                 /\ cache[i][p].ok
                 /\ Decide(i, p, rec, meta, RecordsOf(cache[i][p].data, h))
                 /\ UNCHANGED mapping
              \/ /\ ~dryRun[i]
                 /\ ~cache[i][p].ok
                 /\ pc' = [pc EXCEPT ![i] = "query"]
                 /\ job' = [job EXCEPT ![i] =
                              [host |-> h, prov |-> p, rec |-> rec, meta |-> meta,
                               old |-> rec, stale |-> {}, next |-> "ensure"]]
                 /\ UNCHANGED mapping
    /\ UNCHANGED <<store, env, known, route, found, cache, todo, host, purge, budget, history>>

\* GetExistingRecords on a cache miss; its failure counts as "no records".
Query(i) ==
    /\ pc[i] = "query"
    /\ LET j == job[i]
       IN  \/ /\ UNCHANGED budget
              /\ Decide(i, j.prov, j.rec, j.meta,
                        RecordsOf(zone[Cfg[j.prov].backend], j.host))
           \/ /\ Spend("fault")
              /\ Decide(i, j.prov, j.rec, j.meta, {})
    /\ UNCHANGED <<store, env, process, cycle, loop, purge, history>>

\* DeleteSRVRecord of one stale SRV record; errors are logged.
DeleteStale(i) ==
    /\ pc[i] = "stale"
    /\ \E r \in job[i].stale, err \in Faults :
          /\ Delete(job[i].prov, r, err)
          /\ IF job[i].stale = {r} /\ job[i].next = "ensure"
             THEN Return(i, FALSE)
             ELSE /\ job' = [job EXCEPT ![i].stale = @ \ {r}]
                  /\ pc' = [pc EXCEPT ![i] = IF job[i].stale = {r} THEN job[i].next ELSE @]
                  /\ UNCHANGED mapping
    /\ UNCHANGED <<txt, env, process, found, cache, loop, purge, history>>

\* ProviderInstance.UpdateRecord of a provider with a native Update.  The record the
\* cache showed may be gone by now, which Update reports as an error.
Update(i) ==
    /\ pc[i] = "update"
    /\ LET j == job[i]
           b == Cfg[j.prov].backend
           C == DeleteChoice(j.prov, zone[b], j.old)
       IN  /\ Cfg[j.prov].native
           /\ \/ /\ C = {}
                 /\ Return(i, TRUE)
                 /\ UNCHANGED <<zone, budget>>
              \/ \E x \in C, err \in Faults :
                    /\ Ends(err)
                    /\ zone' = IF err = "before" THEN zone
                               ELSE [zone EXCEPT ![b] = (@ \ {x}) \cup {j.rec}]
                    /\ IF err = "none" THEN ReturnMarking(i, TRUE) ELSE Return(i, TRUE)
    /\ UNCHANGED <<txt, env, process, found, cache, loop, purge, history>>

\* The fallback of UpdateRecord, first half: delete the old record.  A record that is
\* already gone is no error.
DeleteForUpdate(i) ==
    /\ pc[i] = "update"
    /\ ~Cfg[job[i].prov].native
    /\ \E err \in Faults :
          /\ Delete(job[i].prov, job[i].old, err)
          /\ IF err = "none"
             THEN pc' = [pc EXCEPT ![i] = "recreate"] /\ UNCHANGED <<job, mapping>>
             ELSE Return(i, TRUE)
    /\ UNCHANGED <<txt, env, process, found, cache, loop, purge, history>>

\* CreateRecordWithValues, and the second half of the fallback of UpdateRecord
\* ("recreate"), for which a conflict is just a failure.  A backend that already has
\* the record answers with a conflict or, if it is idempotent, with success.
Create(i) ==
    /\ pc[i] \in {"create", "recreate"}
    /\ LET j == job[i]
           b == Cfg[j.prov].backend
           fresh == pc[i] = "create"
       IN  \/ /\ j.rec \in zone[b]
              /\ IF fresh THEN ReturnMarking(i, FALSE) ELSE Return(i, TRUE)
              /\ UNCHANGED <<zone, budget>>
           \/ /\ j.rec \in zone[b]
              /\ ReturnMarking(i, TRUE)
              /\ UNCHANGED <<zone, budget>>
           \/ /\ TypeClash(b, j.rec)
              /\ Return(i, ~fresh)
              /\ UNCHANGED <<zone, budget>>
           \/ /\ ~TypeClash(b, j.rec)
              /\ \E err \in Faults :
                    /\ Ends(err)
                    /\ zone' = IF err = "before" THEN zone
                               ELSE [zone EXCEPT ![b] = @ \cup {j.rec}]
                    /\ IF err = "none"
                       THEN j.rec \notin zone[b] /\ ReturnMarking(i, TRUE)
                       ELSE Return(i, TRUE)
    /\ UNCHANGED <<txt, env, process, found, cache, loop, purge, history>>

\* CreateOwnershipRecord: a marker with this copy's id and the job's metadata.  Errors
\* are logged; a provider that cannot store TXT records always fails.
CreateOwnership(i) ==
    /\ pc[i] = "own"
    /\ LET j == job[i]
           b == Cfg[j.prov].backend
           m == [host |-> j.host, id |-> Opt[i].id, meta |-> j.meta]
       IN  \E err \in Faults :
             /\ Ends(err)
             /\ IF Cfg[j.prov].txt /\ err # "before"
                THEN /\ txt' = [txt EXCEPT ![b] = @ \cup {m}]
                     /\ marked' = [marked EXCEPT ![b] = @ \cup {<<j.host, Opt[i].id>>}]
                ELSE UNCHANGED <<txt, marked>>
    /\ Return(i, FALSE)
    /\ UNCHANGED <<zone, env, process, found, cache, loop, purge, seen, purged>>

-----------------------------------------------------------------------------
(* Reconcile, step 5: cleanupOrphans. *)

\* Fault: host names that still exist are cleaned up too.
AllKnown(i) == known[i]

Orphans(i) == known[i] \ Discovered(i)

\* Fault: the breaker trips only if everything disappears.
TotalDeletion(i) ==
    LET n == Cardinality(Orphans(i))
    IN  n > 1 /\ n = Cardinality(known[i])

\* The circuit breaker: more than half of the known host names, and more than one.
MassDeletion(i) ==
    LET n == Cardinality(Orphans(i))
    IN  n > 1 /\ 2 * n > Cardinality(known[i])

BeginCleanup(i) ==
    /\ pc[i] = "ensure"
    /\ queue[i] = {}
    /\ todo[i] = {}
    /\ todo' = [todo EXCEPT ![i] = IF Opt[i].cleanup /\ ~MassDeletion(i)
                                  THEN Orphans(i) ELSE {}]
    /\ host' = [host EXCEPT ![i] = NoHost]
    /\ pc' = [pc EXCEPT ![i] = "orphan"]
    /\ UNCHANGED <<store, env, process, cycle, queue, job, purge, budget, history>>

\* Fault: there is no domain matching without a stored mapping.
StoredProviders(i, h) == route[i][h] \cap Mine(i)

\* getOrphanProviders: the stored mapping, else domain matching.
OrphanProviders(i, h) ==
    IF route[i][h] # {} THEN route[i][h] \cap Mine(i) ELSE MatchingProviders(i, h)

NextOrphan(i) ==
    /\ pc[i] = "orphan"
    /\ queue[i] = {}
    /\ \E h \in todo[i] :
          /\ host' = [host EXCEPT ![i] = h]
          /\ todo' = [todo EXCEPT ![i] = @ \ {h}]
          /\ queue' = [queue EXCEPT ![i] = OrphanProviders(i, h)]
    /\ UNCHANGED <<store, env, pc, process, cycle, job, purge, budget, history>>

\* deleteOrphanForProvider: which of the delete functions handles provider p.
DeletePath(i, p) ==
    CASE Cfg[p].mode = "additive" -> "none"
      [] Cfg[p].mode = "authoritative" -> "authoritative"
      [] Cfg[p].mode = "managed" /\ Opt[i].tracking /\ Cfg[p].txt -> "managed"
      [] Cfg[p].mode = "managed" /\ Opt[i].tracking /\ ~Cfg[p].txt -> "target"
      [] Cfg[p].mode = "managed" /\ ~Opt[i].tracking -> "cache"

\* The records of R that a delete function goes on to delete.
Doomed(path, p, target, R) ==
    CASE path = "authoritative" -> {r \in R : r.type \in Cfg[p].caps}
      [] path = "target" -> {r \in R : r.type = Cfg[p].type /\ r.target = target}
      [] path \in {"managed", "cache"} -> R

\* Fault: managed mode leaves the ownership record behind.
DisownsAuthoritative(i, path) == path = "authoritative" /\ Opt[i].tracking

\* The ownership record is deleted after the data records.
Disowns(i, path) == path = "managed" \/ (path = "authoritative" /\ Opt[i].tracking)

\* Where a delete function is when it has the records R left to delete.
DeleteNext(i, path, R) ==
    CASE R # {} -> "delete"
      [] R = {} /\ Disowns(i, path) -> "disown"
      [] R = {} /\ ~Disowns(i, path) -> "orphan"

SetPurge(i, path, p, target, dry, R) ==
    LET next == DeleteNext(i, path, R)
    IN  /\ pc' = [pc EXCEPT ![i] = next]
        /\ purge' = [purge EXCEPT ![i] =
                       IF next = "orphan" THEN NoJob
                       ELSE [host |-> host[i], prov |-> p, path |-> path,
                             target |-> target, dry |-> dry, left |-> R]]

\* deleteOrphanForProvider up to its first call: the records come from the cache, or,
\* if the cache has none, from a List.
Orphan(i, p) ==
    /\ pc[i] = "orphan"
    /\ First(p, queue[i])
    /\ queue' = [queue EXCEPT ![i] = @ \ {p}]
    /\ LET path == DeletePath(i, p)
           R == RecordsOf(cache[i][p].data, host[i])
           skips == path = "none" \/ (path = "managed" /\ ~HasOwnership(i, p, host[i]))
       IN  \/ skips /\ UNCHANGED <<pc, purge>>
           \/ /\ ~skips
              /\ R # {}
              /\ SetPurge(i, path, p, aim[p], dryRun[i], Doomed(path, p, aim[p], R))
           \/ /\ ~skips
              /\ R = {}
              /\ pc' = [pc EXCEPT ![i] = "list"]
              /\ purge' = [purge EXCEPT ![i] =
                             [host |-> host[i], prov |-> p, path |-> path,
                              target |-> aim[p], dry |-> FALSE, left |-> {}]]
    /\ UNCHANGED <<store, env, process, cycle, todo, host, job, budget, history>>

\* The List of a delete function; if it fails the function returns.
ListOrphan(i) ==
    /\ pc[i] = "list"
    /\ LET u == purge[i]
           R == RecordsOf(zone[Cfg[u.prov].backend], u.host)
       IN  \/ /\ SetPurge(i, u.path, u.prov, u.target, dryRun[i],
                          Doomed(u.path, u.prov, u.target, R))
              /\ UNCHANGED budget
           \/ /\ Spend("fault")
              /\ pc' = [pc EXCEPT ![i] = "orphan"]
              /\ purge' = [purge EXCEPT ![i] = NoJob]
    /\ UNCHANGED <<store, env, process, cycle, loop, job, history>>

\* Fault: authoritative mode forgets the dry-run flag.
QuietIfOwned(i) ==
    CASE purge[i].path = "managed" -> purge[i].dry
      [] purge[i].path = "target" -> dryRun[i]
      [] purge[i].path \in {"authoritative", "cache"} -> FALSE

\* deleteManagedForProvider reads the dry-run flag once, the others for every record,
\* and deleteCacheOnlyForProvider only after the delete.
Quiet(i) ==
    CASE purge[i].path = "managed" -> purge[i].dry
      [] purge[i].path \in {"authoritative", "target"} -> dryRun[i]
      [] purge[i].path = "cache" -> FALSE

\* The delete of one data record.  Its outcome is reported and changes nothing else.
DeleteOrphan(i) ==
    /\ pc[i] = "delete"
    /\ LET u == purge[i]
       IN  \E r \in u.left :
             /\ \/ Quiet(i) /\ UNCHANGED <<zone, budget, purged>>
                \/ /\ ~Quiet(i)
                   /\ \E err \in Faults : Delete(u.prov, r, err)
                   /\ purged' = IF zone' # zone THEN purged \cup {<<i, u.prov, u.host>>}
                                                ELSE purged
             /\ SetPurge(i, u.path, u.prov, u.target, u.dry, u.left \ {r})
    /\ UNCHANGED <<txt, env, process, cycle, loop, job, marked, seen>>

\* Fault: the instance id is not part of what is deleted.
DeletableMarkersOfAll(i, u) == {m \in txt[Cfg[u.prov].backend] : m.host = u.host}

\* The markers DeleteOwnershipRecord may hit: the value it asks to delete carries this
\* copy's id and no metadata, but not every provider compares values.
DeletableMarkers(i, u) ==
    IF Cfg[u.prov].exact
    THEN txt[Cfg[u.prov].backend]
            \cap {[host |-> u.host, id |-> Opt[i].id, meta |-> NoMeta]}
    ELSE {m \in txt[Cfg[u.prov].backend] : m.host = u.host}

\* DeleteOwnershipRecord; errors are logged.
DeleteOwnership(i) ==
    /\ pc[i] = "disown"
    /\ LET u == purge[i]
           b == Cfg[u.prov].backend
           C == DeletableMarkers(i, u)
       IN  \/ Quiet(i) /\ UNCHANGED <<txt, budget>>
           \/ /\ ~Quiet(i)
              /\ \E err \in Faults :
                    /\ Ends(err)
                    /\ IF err = "before" \/ C = {} \/ ~Cfg[u.prov].txt
                       THEN UNCHANGED txt
                       ELSE \E m \in C : txt' = [txt EXCEPT ![b] = @ \ {m}]
    /\ pc' = [pc EXCEPT ![i] = "orphan"]
    /\ purge' = [purge EXCEPT ![i] = NoJob]
    /\ UNCHANGED <<zone, env, process, cycle, loop, job, history>>

\* The end of Reconcile: the host names and the mapping of this cycle replace those of
\* the previous one, whatever became of the deletions.
Commit(i) ==
    /\ pc[i] = "orphan"
    /\ queue[i] = {}
    /\ todo[i] = {}
    /\ known' = [known EXCEPT ![i] = Discovered(i)]
    /\ route' = [route EXCEPT ![i] = mapping[i]]
    /\ found' = [found EXCEPT ![i] = NoneFound]
    /\ cache' = [cache EXCEPT ![i] = EmptyCache]
    /\ mapping' = [mapping EXCEPT ![i] = NoRoute]
    /\ host' = [host EXCEPT ![i] = NoHost]
    /\ pc' = [pc EXCEPT ![i] = "idle"]
    /\ UNCHANGED <<store, env, recovered, todo, queue, job, purge, budget, history>>

-----------------------------------------------------------------------------
(* The runtime switches. *)

SetDryRun(i, on) ==
    /\ Spend("toggle")
    /\ dryRun' = [dryRun EXCEPT ![i] = on]
    /\ UNCHANGED <<store, want, aim, enabled, pc, process, cycle, loop, job, purge, history>>

SetEnabled(i, on) ==
    /\ Spend("toggle")
    /\ enabled' = [enabled EXCEPT ![i] = on]
    /\ UNCHANGED <<store, want, aim, dryRun, pc, process, cycle, loop, job, purge, history>>

\* SetDynamicTarget of the target refresh loop, at any time.
SetDynamicTarget(p, t) ==
    /\ Spend("retarget")
    /\ aim[p] # t
    /\ aim' = [aim EXCEPT ![p] = t]
    /\ UNCHANGED <<store, want, enabled, dryRun, pc, process, cycle, loop, job, purge, history>>

(* The environment: the process dies between two calls, workloads come, go and change,
   operators edit records by hand.                                                     *)

\* Nothing in memory survives. The resolved dynamic target is lost too: the new process
\* resolves it before its first cycle, and an instance of which that fails (literal)
\* is left with the configured target.
Crash(i) ==
    /\ pc[i] # "down"
    /\ Spend("crash")
    /\ pc' = [pc EXCEPT ![i] = "down"]
    /\ known' = [known EXCEPT ![i] = {}]
    /\ route' = [route EXCEPT ![i] = NoRoute]
    /\ recovered' = [recovered EXCEPT ![i] = NoneRecovered]
    /\ found' = [found EXCEPT ![i] = NoneFound]
    /\ cache' = [cache EXCEPT ![i] = EmptyCache]
    /\ mapping' = [mapping EXCEPT ![i] = NoRoute]
    /\ todo' = [todo EXCEPT ![i] = {}]
    /\ host' = [host EXCEPT ![i] = NoHost]
    /\ queue' = [queue EXCEPT ![i] = {}]
    /\ job' = [job EXCEPT ![i] = NoJob]
    /\ purge' = [purge EXCEPT ![i] = NoJob]
    /\ dryRun' = [dryRun EXCEPT ![i] = Opt[i].dryRun]
    /\ enabled' = [enabled EXCEPT ![i] = TRUE]
    /\ \E literal \in SUBSET Mine(i) :
          aim' = [p \in Prov |-> IF p \in literal THEN Cfg[p].target ELSE aim[p]]
    /\ UNCHANGED <<store, want, history>>

ChangeWorkload(i, h, s) ==
    /\ Spend("workload")
    /\ want[i][h] # s
    /\ want' = [want EXCEPT ![i][h] = s]
    /\ UNCHANGED <<store, aim, enabled, dryRun, pc, process, cycle, loop, job, purge, history>>

EditZone(b, r) ==
    /\ Spend("edit")
    /\ \/ r \in zone[b] /\ zone' = [zone EXCEPT ![b] = @ \ {r}]
       \/ /\ r \notin zone[b]
          /\ ~TypeClash(b, r)
          /\ zone' = [zone EXCEPT ![b] = @ \cup {r}]
    /\ UNCHANGED <<txt, env, pc, process, cycle, loop, job, purge, history>>

-----------------------------------------------------------------------------
Init ==
    /\ zone = InitialZone
    /\ txt = InitialTxt
    /\ want = [i \in Copies |-> NoneFound]
    /\ aim = [p \in Prov |-> Cfg[p].target]
    /\ enabled = [i \in Copies |-> TRUE]
    /\ dryRun = [i \in Copies |-> Opt[i].dryRun]
    /\ pc = [i \in Copies |-> "down"]
    /\ known = [i \in Copies |-> {}]
    /\ route = [i \in Copies |-> NoRoute]
    /\ recovered = [i \in Copies |-> NoneRecovered]
    /\ found = [i \in Copies |-> NoneFound]
    /\ cache = [i \in Copies |-> EmptyCache]
    /\ mapping = [i \in Copies |-> NoRoute]
    /\ todo = [i \in Copies |-> {}]
    /\ host = [i \in Copies |-> NoHost]
    /\ queue = [i \in Copies |-> {}]
    /\ job = [i \in Copies |-> NoJob]
    /\ purge = [i \in Copies |-> NoJob]
    /\ budget = [k \in Kinds |-> Bound(k)]
    /\ marked = [b \in Backends |-> {<<m.host, m.id>> : m \in InitialTxt[b]}]
    /\ seen = [i \in Copies |-> {h \in Hosts : \E b \in Backends : \E m \in InitialTxt[b] :
                                       m.host = h /\ m.id = Opt[i].id}]
    /\ purged = {}

\* The steps of one copy.
Step(i) ==
    \/ Start(i)
    \/ \E p \in Prov : RecoverOwnership(i, p) \/ FillCache(i, p) \/ Ensure(i, p) \/ Orphan(i, p)
    \/ Begin(i)
    \/ CacheFilled(i)
    \/ NextHost(i)
    \/ Query(i)
    \/ DeleteStale(i)
    \/ Update(i)
    \/ DeleteForUpdate(i)
    \/ Create(i)
    \/ CreateOwnership(i)
    \/ BeginCleanup(i)
    \/ NextOrphan(i)
    \/ ListOrphan(i)
    \/ DeleteOrphan(i)
    \/ DeleteOwnership(i)
    \/ Commit(i)

Environment ==
    \/ \E i \in Copies :
          \/ Crash(i)
          \/ \E on \in BOOLEAN : SetDryRun(i, on) \/ SetEnabled(i, on)
          \/ \E h \in Hosts, s \in Specs \cup {NoSpec} : ChangeWorkload(i, h, s)
    \/ \E p \in Prov : \E t \in Cfg[p].pool : SetDynamicTarget(p, t)
    \/ \E b \in Backends, r \in ManualRecords : EditZone(b, r)

Next == (\E i \in Copies : Step(i)) \/ Environment

Spec == Init /\ [][Next]_vars

\* The process keeps going, and the periodic timer keeps starting cycles.
FairSpec == Spec /\ \A i \in Copies : WF_vars(Step(i))

-----------------------------------------------------------------------------
(* Correctness. *)

Places == {"down", "recover", "idle", "cache", "ensure", "query", "stale", "update",
           "create", "recreate", "own", "orphan", "list", "delete", "disown"}
EnsurePlaces == {"query", "stale", "update", "create", "recreate", "own"}
PurgePlaces == {"list", "delete", "disown"}
CleanupPlaces == PurgePlaces \cup {"orphan"}

Job == [host : Hosts, prov : Prov, rec : Data, meta : Metas, old : Data,
        stale : SUBSET Data, next : {"own", "ensure", "update", "create"}]
Purge == [host : Hosts, prov : Prov, target : Targets, dry : BOOLEAN,
          path : {"managed", "authoritative", "target", "cache"}, left : SUBSET Data]

ASSUME NoJobAssumption == NoJob \notin Job \cup Purge

CacheEntry == [ok : BOOLEAN, data : SUBSET Data, txt : SUBSET Marker]

\* Every variable has its type, and the locals of a function exist exactly while a copy
\* is inside that function.
TypeOK ==
    /\ zone \in [Backends -> SUBSET Data]
    /\ txt \in [Backends -> SUBSET Marker]
    /\ want \in [Copies -> [Hosts -> Specs \cup {NoSpec}]]
    /\ aim \in [Prov -> Targets]
    /\ enabled \in [Copies -> BOOLEAN]
    /\ dryRun \in [Copies -> BOOLEAN]
    /\ pc \in [Copies -> Places]
    /\ known \in [Copies -> SUBSET Hosts]
    /\ route \in [Copies -> [Hosts -> SUBSET Prov]]
    /\ recovered \in [Copies -> [Hosts -> Metas]]
    /\ found \in [Copies -> [Hosts -> Specs \cup {NoSpec}]]
    /\ cache \in [Copies -> [Prov -> CacheEntry]]
    /\ mapping \in [Copies -> [Hosts -> SUBSET Prov]]
    /\ todo \in [Copies -> SUBSET Hosts]
    /\ host \in [Copies -> Hosts \cup {NoHost}]
    /\ queue \in [Copies -> SUBSET Prov]
    /\ job \in [Copies -> Job \cup {NoJob}]
    /\ purge \in [Copies -> Purge \cup {NoJob}]
    /\ budget \in [Kinds -> Nat]
    /\ marked \in [Backends -> SUBSET (Hosts \X Ids)]
    /\ seen \in [Copies -> SUBSET Hosts]
    /\ purged \subseteq Copies \X Prov \X Hosts
    /\ \A i \in Copies : pc[i] \in EnsurePlaces <=> job[i] # NoJob
    /\ \A i \in Copies : pc[i] \in PurgePlaces <=> purge[i] # NoJob

OnCourse(i) ==
    /\ pc[i] \in {"cache", "ensure"} \cup EnsurePlaces => todo[i] \subseteq Discovered(i)
    /\ pc[i] \in {"ensure"} \cup EnsurePlaces /\ queue[i] # {} => host[i] \in Discovered(i)
    /\ pc[i] \in EnsurePlaces => job[i].host \in Discovered(i) /\ job[i].rec.host = job[i].host
    /\ pc[i] \in CleanupPlaces => todo[i] \subseteq known[i] \ Discovered(i)
    /\ pc[i] \in CleanupPlaces => host[i] \in (known[i] \ Discovered(i)) \cup {NoHost}
    /\ pc[i] \in CleanupPlaces /\ queue[i] # {} => host[i] # NoHost
    /\ pc[i] \in PurgePlaces => purge[i].host = host[i] /\ host[i] # NoHost

\* The loops of a cycle stay on course across every call in between: the first one works
\* on host names of this cycle, the second one on known host names that are not.
LoopInv == \A i \in Copies : OnCourse(i)

\* A host name on which copy i's marker was once put on p's backend.
OnceMarked(i, p, h) == <<h, Opt[i].id>> \in marked[Cfg[p].backend]

\* In managed mode with ownership tracking, cleanup removes data only of host names on
\* which a marker with this copy's own instance id was once put on that backend: names
\* that only an operator or another copy ever managed are safe from it, whatever
\* failed, crashed or was edited in between (deleteManagedForProvider).
ManagedPurgesOnlyMarked ==
    \A e \in purged :
        LET i == e[1]  p == e[2]  h == e[3]
        IN  DeletePath(i, p) = "managed" => OnceMarked(i, p, h)

\* A deletion goes the way its provider instance is configured for, and if that is the
\* managed way it is about a host name that was once marked.
PurgeIsOwned(i) ==
    LET u == purge[i]
    IN  /\ u.path = DeletePath(i, u.prov)
        /\ u.path = "managed" => OnceMarked(i, u.prov, u.host)

\* Why that is so: every marker on a backend, every marker in a record cache, and every
\* managed deletion under way stems from a marker that was once put there.
OwnershipInv ==
    /\ \A b \in Backends : \A m \in txt[b] : <<m.host, m.id>> \in marked[b]
    /\ \A i \in Copies, p \in Prov : \A m \in cache[i][p].txt :
          <<m.host, m.id>> \in marked[Cfg[p].backend]
    /\ \A i \in Copies : pc[i] \in PurgePlaces => PurgeIsOwned(i)
    /\ ManagedPurgesOnlyMarked

\* In every mode, cleanup removes data only of host names this copy has itself
\* discovered, in this or an earlier life of its process (cleanupOrphans starts from
\* knownHostnames, RecoverOwnership fills those from markers with its id only).
PurgesOnlyDiscovered == \A e \in purged : e[3] \in seen[e[1]]

\* While a copy cleans up, what it works on is at most one host name, or at most half
\* of the host names it knew (the circuit breaker of cleanupOrphans), and never a host
\* name discovered in the same cycle.
CleanupIsBounded ==
    \A i \in Copies : pc[i] \in CleanupPlaces =>
        LET at == todo[i] \cup ({host[i]} \ {NoHost})
        IN  /\ at \cap Discovered(i) = {}
            /\ Cardinality(at) > 1 => 2 * Cardinality(at) <= Cardinality(known[i])

\* A step of a copy never removes a marker of another instance id, so a copy can always
\* recover what it owns (MatchesOwnership, DeleteOwnershipRecord).
ForeignMarkersKept ==
    [][\A i \in Copies : Step(i) =>
          \A b \in Backends : {m \in txt[b] : m.id # Opt[i].id} \subseteq txt'[b]]_vars

\* A copy in dry-run mode writes nothing (Config.DryRun, isDryRun).
DryRunWritesNothing ==
    [][\A i \in Copies : Step(i) /\ dryRun[i] => UNCHANGED store]_vars

\* Every host name a copy's sources ask for ends up, and stays, with the record that
\* hints and provider defaults make of it, at every provider instance it is routed to:
\* failures, crashes, edits and target changes are made up for by later cycles
\* (ensureRecordForProvider against a fresh record cache).
Converges ==
    <>[](\A i \in Copies, h \in Hosts : want[i][h] # NoSpec =>
            \A p \in Writers(i, h, want[i][h]) :
                Desired(p, h, want[i][h]) \in zone[Cfg[p].backend])

\* When nothing changes any more, cycles stop writing: no two provider instances, and
\* no two phases of a cycle, undo each other's work (the write-key rule of ensureRecord,
\* the short cuts of ensureOwnershipRecord).
Quiesces == <>[][UNCHANGED store]_vars

\* Data of host names that nobody asks for any more is eventually gone (cleanupOrphans).
OrphansGone ==
    <>[](\A b \in Backends : \A r \in zone[b] : \E i \in Copies : want[i][r.host] # NoSpec)

\* Markers of host names that nobody asks for any more are eventually gone: what is left
\* would be taken for ownership after the next restart (DeleteOwnershipRecord).
MarkersReleased ==
    <>[](\A b \in Backends : \A m \in txt[b] :
            \E i \in Copies : Opt[i].id = m.id /\ want[i][m.host] # NoSpec)

\* A copy adds data only where it belongs: on the backend of the provider instance the
\* hint names, or of one whose domain and metadata filter take the host name.
WritesAreRouted ==
    [][\A i \in Copies : Step(i) =>
          \A b \in Backends : \A r \in zone'[b] \ zone[b] :
              \E p \in Mine(i) :
                 /\ Cfg[p].backend = b
                 /\ LET s == found[i][r.host]
                    IN  IF s.provider = "" THEN r.host \in Cfg[p].domain /\ s.label \in Cfg[p].filter
                                           ELSE s.provider = p]_vars

\* With AdoptExisting off, a managed copy leaves alone a record of a host name that
\* carries no marker of its own.
UnmanagedRecordsStay ==
    [][\A i \in Copies : Step(i) /\ ~Opt[i].adopt =>
          \A b \in Backends : \A r \in zone[b] \ zone'[b] : <<r.host, Opt[i].id>> \in marked[b]]_vars

\* Orphan cleanup of one copy never removes data of a host name that another copy has
\* marked and still asks for.
CleanupSparesOtherCopies ==
    [][\A i, j \in Copies : DeleteOrphan(i) /\ i # j =>
          \A b \in Backends : \A r \in zone[b] \ zone'[b] :
              ~ (want[j][r.host] # NoSpec
                 /\ \E m \in txt[b] : m.host = r.host /\ m.id = Opt[j].id)]_vars

\* Additive provider instances never make a host name disappear from their backend.
AdditiveKeepsNames ==
    [][\A i \in Copies : Step(i) /\ (\A p \in Mine(i) : Cfg[p].mode = "additive") =>
          \A b \in Backends : \A r \in zone[b] : RecordsOf(zone'[b], r.host) # {}]_vars

=============================================================================
