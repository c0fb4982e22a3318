------------------------------ MODULE Discovery ------------------------------
(***************************************************************************)
(* From the platforms to the host names of a reconciliation: connecting to *)
(* Docker, starting the Kubernetes informers, and then, cycle after cycle, *)
(* listing the workloads platform by platform, extracting their names and  *)
(* reading the Traefik files (Reconcile and extractHostnames), while the   *)
(* objects change and calls fail.                                          *)
(***************************************************************************)
EXTENDS Platforms, FiniteSets

CONSTANTS
    Items,           \* the objects of all platforms and the files
    PlatformOf,      \* [Items -> platform or "file"]
    Variants,        \* [Items -> set of object records and Absent]
    Worlds,          \* the worlds a run may start in, a set of [Items -> object]
    Absent,          \* the object does not exist
    FileOrder,       \* the Traefik files in the order of the walk
    Daemons,         \* what the Docker daemon may be: [active, manager]
    ConnectTimeout,  \* DNSWEAVER_DOCKER_CONNECT_TIMEOUT, in half seconds
    MaxBackoff,      \* five seconds, in half seconds
    Instances,       \* [provider instance -> [matcher, entryPoints]]
    MaxChanges,      \* bound on the changes of objects
    MaxAttempts,     \* bound on the failed attempts to reach the Docker daemon
    MaxFaults        \* bound on the other calls that fail

ASSUME DiscoveryAssumption ==
    /\ ConnectTimeout \in Nat /\ MaxBackoff \in Nat \ {0} /\ MaxChanges \in Nat
    /\ MaxAttempts \in Nat /\ MaxFaults \in Nat /\ IsFiniteSet(Items)
    /\ IsSeq(FileOrder) /\ ToSet(FileOrder) = {i \in Items : PlatformOf[i] = "file"}
    /\ DOMAIN PlatformOf = Items /\ DOMAIN Variants = Items
    /\ \A w \in Worlds : w = [i \in Items |-> w[i]] /\ \A i \in Items : w[i] \in Variants[i]

\* A parsed Traefik file: its routers, each with a rule and entrypoints.
IsFileObject(obj) ==
    /\ IsFiniteSet(DOMAIN obj.routers)
    /\ \A r \in DOMAIN obj.routers : IsSeq(obj.routers[r].rule) /\ IsSeq(obj.routers[r].entryPoints)

ASSUME ObjectsAssumption ==
    \A i \in Items : \A obj \in Variants[i] \ {Absent} :
        \/ PlatformOf[i] = "docker" /\ IsDockerObject(obj)
        \/ PlatformOf[i] = "kubernetes" /\ IsKubernetesObject(obj)
        \/ PlatformOf[i] = "proxmox" /\ IsProxmoxObject(obj)
        \/ PlatformOf[i] = "incus" /\ IsIncusObject(obj)
        \/ PlatformOf[i] = "file" /\ IsFileObject(obj)

VARIABLES
    world,       \* world[i]: object i as its API would show it, or Absent
    informer,    \* informer[i]: the informer cache's copy of a Kubernetes object
    docker,      \* the Docker client: [daemon, mode, backoff, waited]
    crds,        \* the custom resources found at start
    pc,          \* where the process is
    at,          \* the lister whose turn it is
    left,        \* guests to resolve or files to parse
    workloads,   \* the workloads listed so far in this cycle
    found,       \* discoveredHostnames of this cycle: a function on names
    known,       \* the result of the last complete cycle
    during,      \* history: <<item, object>> for all objects seen at a moment of this cycle
    throughout,  \* history: <<item, name, entrypoint>> declared all through this cycle
    hit,         \* history: items that a failed call of this cycle hid
    budget       \* [changes, attempts, faults] left

client == <<docker, crds>>
cycle == <<at, left, workloads, found>>
history == <<during, throughout, hit>>
vars == <<world, informer, client, pc, cycle, known, history, budget>>

Of(platform) == {i \in Items : PlatformOf[i] = platform}
Platforms == {PlatformOf[i] : i \in Items}

Registered == RegisterSources(Platforms)
Listers == <<<<"docker">>, <<"kubernetes">>, <<"proxmox">>>> \o IncusListers

Fault == budget.faults > 0 /\ budget' = [budget EXCEPT !.faults = @ - 1]

-----------------------------------------------------------------------------
(* What an item declares at this moment; the informer speaks for the cluster. *)

WorkloadOf(i, obj) ==
    CASE PlatformOf[i] = "docker" -> DockerWorkload(i, obj)
      [] PlatformOf[i] = "kubernetes" -> KubernetesWorkload(i, obj)
      [] PlatformOf[i] = "proxmox" -> ProxmoxWorkload(i, obj, ResolveIP(obj, obj.tags))
      [] PlatformOf[i] = "incus" -> IncusWorkload(i, obj)

Lists(mode, i, obj) ==
    CASE PlatformOf[i] = "docker" -> DockerLists(mode, obj)
      [] PlatformOf[i] = "kubernetes" -> KubernetesLists(obj)
      [] PlatformOf[i] = "proxmox" -> ProxmoxLists(obj) /\ ResolvesIP(obj)
      [] PlatformOf[i] = "incus" -> \E j \in DOMAIN IncusListers : IncusLists(obj, IncusListers[j][2])

Reports(mode, i, obj) ==
    IF obj = Absent THEN {}
    ELSE IF PlatformOf[i] = "file"
         THEN {MapSeq(TraefikHostname, es) : es \in IF obj.torn THEN {} ELSE ExtractFromConfig(obj.routers)}
    ELSE IF Lists(mode, i, obj) THEN ExtractAll(WorkloadOf(i, obj), Registered)
    ELSE {}

\* <<item, name, entrypoint>> for all valid names of every object, in each mode of Docker.
Declared ==
    [mode \in {"none", "error", "swarm", "standalone"} |-> [i \in Items |-> [obj \in Variants[i] \cup {Absent} |->
        {<<i, NormalizeHostname(e.host), e.entryPoint>> :
            e \in {x \in UNION {ToSet(es) : es \in Reports(mode, i, obj)} : Validate(x)}}]]]

Names(i, obj) == Declared[docker.mode][i][obj]

\* An object of the cluster that keeps a name keeps its kind, which is part of what
\* identifies it.
StableIdentity ==
    \A mode \in DOMAIN Declared, i \in Of("kubernetes") : \A a, b \in Variants[i] \ {Absent} :
        Declared[mode][i][a] \cap Declared[mode][i][b] # {} => a.kind = b.kind

\* No address of a guest's loopback interface is one that a record may point at.
LoopbackLocal ==
    \A i \in Items : \A obj \in Variants[i] \ {Absent} :
        PlatformOf[i] = "proxmox" =>
            \A j \in DOMAIN obj.ifaces :
                obj.ifaces[j].name = "lo" => ToSet(obj.ifaces[j].addrs) \cap Routable = {}

\* The objects as the process can see them.
View == [i \in Items |-> IF PlatformOf[i] = "kubernetes" THEN informer[i] ELSE world[i]]

\* History when item i changes to obj; it is empty outside a cycle.
Witness(i, obj) ==
    /\ during' = IF during = {} THEN {} ELSE during \cup {<<i, obj>>}
    /\ throughout' = {t \in throughout : t[1] = i => t \in Names(i, obj)}
    /\ UNCHANGED hit

-----------------------------------------------------------------------------
(* The platforms. *)

\* External: an object is created, changed or removed, or a file is half written.
Change(i) ==
    /\ budget.changes > 0
    /\ budget' = [budget EXCEPT !.changes = @ - 1]
    /\ \E obj \in Variants[i] \ {world[i]} :
          /\ world' = [world EXCEPT ![i] = obj]
          /\ IF PlatformOf[i] = "kubernetes" THEN UNCHANGED history ELSE Witness(i, obj)
    /\ UNCHANGED <<informer, client, pc, cycle, known>>

\* External: the watch of a resource that the watcher set up delivers the object.
Sync(i) ==
    /\ PlatformOf[i] = "kubernetes"
    /\ pc \notin {"connect", "start", "stopped"}
    /\ informer[i] # world[i]
    /\ informer' = [informer EXCEPT ![i] = world[i]]
    /\ Witness(i, world[i])
    /\ UNCHANGED <<world, client, pc, cycle, known, budget>>

-----------------------------------------------------------------------------
(* Start: connectWithRetry and the watcher's detectCRDs. *)

\* Fault: the deadline does not shorten the wait.
WaitFull(d) == d.backoff

\* The wait before the next attempt: the backoff, cut at the deadline.
Wait(d) == IF ConnectTimeout - d.waited < d.backoff THEN ConnectTimeout - d.waited ELSE d.backoff

NextBackoff(b) == IF 2 * b > MaxBackoff THEN MaxBackoff ELSE 2 * b

Connect ==
    /\ pc = "connect"
    /\ LET mode == InitializeMode(docker.daemon)
       IN  /\ docker' = [docker EXCEPT !.mode = mode, !.backoff = 1, !.waited = 0]
           /\ pc' = IF mode = "error" THEN "stopped" ELSE "start"
    /\ budget' = [budget EXCEPT !.attempts = 0]
    /\ UNCHANGED <<world, informer, crds, cycle, known, history>>

\* The daemon does not answer: wait and try again, until the deadline.
ConnectRetry ==
    /\ pc = "connect"
    /\ budget.attempts > 0
    /\ budget' = [budget EXCEPT !.attempts = @ - 1]
    /\ IF Wait(docker) <= 0
       THEN pc' = "stopped" /\ UNCHANGED docker
       ELSE /\ docker' = [docker EXCEPT !.waited = @ + Wait(docker), !.backoff = NextBackoff(@)]
            /\ UNCHANGED pc
    /\ UNCHANGED <<world, informer, crds, cycle, known, history>>

\* detectCRDs and the cache sync; each discovery call that fails counts as a missing group,
\* for the life of the process.
StartWatcher ==
    /\ pc = "start"
    /\ \E missed \in SUBSET {"IngressRoute", "HTTPRoute"} :
          /\ Cardinality(missed) <= budget.faults
          /\ budget' = [budget EXCEPT !.faults = @ - Cardinality(missed)]
          /\ crds' = {"IngressRoute", "HTTPRoute"} \ missed
    /\ informer' = [i \in Items |-> IF PlatformOf[i] = "kubernetes" THEN world[i] ELSE Absent]
    /\ pc' = "idle"
    /\ UNCHANGED <<world, docker, cycle, known, history>>

\* The kinds the watcher lists: an unseen custom resource is not watched.
Watched(obj) == obj.kind \in {"Ingress", "Service"} \cup crds

Blind == {i \in Of("kubernetes") : informer[i] # Absent /\ ~Watched(informer[i])}

-----------------------------------------------------------------------------
(* Reconcile: one lister after the other. *)

Begin ==
    /\ pc = "idle"
    /\ pc' = "list"
    /\ at' = 1
    /\ during' = {<<i, View[i]>> : i \in Items}
    /\ throughout' = UNION {Names(i, View[i]) : i \in Items}
    /\ hit' = {}
    /\ UNCHANGED <<world, informer, client, left, workloads, found, known, budget>>

\* A listing that comes back whole, its objects in any order.
List(platform, chosen) ==
    /\ pc = "list"
    /\ at <= Len(Listers)
    /\ Listers[at][1] = platform
    /\ \E order \in SetToSeqs(chosen) :
          workloads' = workloads \o MapSeq(LAMBDA i : WorkloadOf(i, View[i]), order)
    /\ at' = at + 1
    /\ UNCHANGED <<world, informer, client, pc, left, found, known, history, budget>>

ListDocker ==
    List("docker", {i \in Of("docker") : world[i] # Absent /\ DockerLists(docker.mode, world[i])})

ListKubernetes ==
    List("kubernetes", {i \in Of("kubernetes") :
                           /\ informer[i] # Absent
                           /\ Watched(informer[i])
                           /\ KubernetesLists(informer[i])})

ListIncus ==
    List("incus", {i \in Of("incus") : world[i] # Absent /\ IncusLists(world[i], Listers[at][2])})

\* Proxmox lists the guests first and asks for each address afterwards.
ListClusterResources ==
    /\ pc = "list"
    /\ at <= Len(Listers)
    /\ Listers[at][1] = "proxmox"
    /\ \E order \in SetToSeqs({i \in Of("proxmox") : world[i] # Absent /\ ProxmoxLists(world[i])}) :
          left' = MapSeq(LAMBDA i : <<i, world[i]>>, order)
    /\ pc' = "resolve"
    /\ UNCHANGED <<world, informer, client, at, workloads, found, known, history, budget>>

\* The guest as listed, with the address it has by now. The query goes to the node and the
\* type that were listed: a guest that is gone, has migrated meanwhile or is of another type,
\* or whose query fails, is left out and the listing goes on.
ResolveGuest ==
    /\ pc = "resolve"
    /\ left # <<>>
    /\ LET i == left[1][1]
           listed == left[1][2]
           answers == /\ world[i] # Absent /\ ResolvesIP(listed)
                      /\ world[i].node = listed.node /\ world[i].type = listed.type
       IN  \/ /\ workloads' = IF answers
                               THEN Append(workloads, ProxmoxWorkload(i, listed, ResolveIP(world[i], listed.tags)))
                               ELSE workloads
              /\ UNCHANGED <<hit, budget>>
           \/ Fault /\ hit' = hit \cup {i} /\ UNCHANGED workloads
    /\ left' = Tail(left)
    /\ UNCHANGED <<world, informer, client, pc, at, found, known, during, throughout>>

GuestsResolved ==
    /\ pc = "resolve"
    /\ left = <<>>
    /\ pc' = "list"
    /\ at' = at + 1
    /\ UNCHANGED <<world, informer, client, left, workloads, found, known, history, budget>>

\* Fault: a lister that fails is skipped.
ListFailsQuietly ==
    /\ pc = "list"
    /\ at <= Len(Listers)
    /\ Fault
    /\ at' = at + 1
    /\ UNCHANGED <<world, informer, client, pc, left, workloads, found, known, history>>

\* A lister that fails ends the cycle before anything is decided.
ListFails ==
    /\ pc = "list"
    /\ at <= Len(Listers)
    /\ Fault
    /\ pc' = "idle"
    /\ workloads' = <<>>
    /\ during' = {} /\ throughout' = {} /\ hit' = {}
    /\ UNCHANGED <<world, informer, client, at, left, found, known>>

WorkloadsListed ==
    /\ pc = "list"
    /\ at > Len(Listers)
    /\ pc' = "extract"
    /\ UNCHANGED <<world, informer, client, cycle, known, history, budget>>

-----------------------------------------------------------------------------
(* extractHostnames *)

\* The first valid report of a name wins.
Merge(f, es) ==
    LET valid == ValidateAll(es)
        name(i) == NormalizeHostname(valid[i].host)
        first(n) == CHOOSE i \in DOMAIN valid : name(i) = n /\ \A j \in 1..(i - 1) : name(j) # n
    IN  [n \in DOMAIN f \cup {name(i) : i \in DOMAIN valid} |->
            IF n \in DOMAIN f THEN f[n] ELSE valid[first(n)]]

ExtractHostnames ==
    /\ pc = "extract"
    /\ workloads # <<>>
    /\ \E es \in ExtractAll(workloads[1], Registered) : found' = Merge(found, es)
    /\ workloads' = Tail(workloads)
    /\ UNCHANGED <<world, informer, client, pc, at, left, known, history, budget>>

\* DiscoverFromFiles: walk the paths, or lose every file to one failing stat or walk.
FindFiles ==
    /\ pc = "extract"
    /\ workloads = <<>>
    /\ \/ /\ left' = Filter(FileOrder, LAMBDA i : world[i] # Absent)
          /\ UNCHANGED <<hit, budget>>
       \/ /\ Fault
          /\ left' = <<>>
          /\ hit' = hit \cup Of("file")
    /\ pc' = "files"
    /\ UNCHANGED <<world, informer, client, at, workloads, found, known, during, throughout>>

\* A file that is gone by now, cannot be read or does not parse is skipped.
ParseConfigFile ==
    /\ pc = "files"
    /\ left # <<>>
    /\ LET obj == world[left[1]]
       IN  \/ /\ IF obj = Absent \/ obj.torn THEN UNCHANGED found
                 ELSE \E es \in ExtractFromConfig(obj.routers) :
                         found' = Merge(found, MapSeq(TraefikHostname, es))
              /\ UNCHANGED <<hit, budget>>
           \/ Fault /\ hit' = hit \cup {left[1]} /\ UNCHANGED found
    /\ left' = Tail(left)
    /\ UNCHANGED <<world, informer, client, pc, at, workloads, known, during, throughout>>

\* Fault: names are added to the remembered ones and never dropped.
PublishAdding ==
    /\ pc = "files"
    /\ left = <<>>
    /\ known' = [n \in DOMAIN known \cup DOMAIN found |-> IF n \in DOMAIN found THEN found[n] ELSE known[n]]
    /\ pc' = "done"
    /\ UNCHANGED <<world, informer, client, cycle, history, budget>>

\* The cycle ends with its names remembered.
Publish ==
    /\ pc = "files"
    /\ left = <<>>
    /\ known' = found
    /\ pc' = "done"
    /\ UNCHANGED <<world, informer, client, cycle, history, budget>>

\* Fault: the next cycle starts from the names of this one.
RestKeeping ==
    /\ pc = "done"
    /\ pc' = "idle"
    /\ during' = {} /\ throughout' = {} /\ hit' = {}
    /\ UNCHANGED <<world, informer, client, cycle, known, budget>>

Rest ==
    /\ pc = "done"
    /\ pc' = "idle"
    /\ found' = NoMap
    /\ during' = {} /\ throughout' = {} /\ hit' = {}
    /\ UNCHANGED <<world, informer, client, at, left, workloads, known, budget>>

-----------------------------------------------------------------------------
Init ==
    /\ world \in Worlds
    /\ informer = [i \in Items |-> Absent]
    /\ docker \in [daemon : Daemons, mode : {"none"}, backoff : {1}, waited : {0}]
    /\ crds = {}
    /\ pc = "connect"
    /\ at = 1 /\ left = <<>> /\ workloads = <<>> /\ found = NoMap /\ known = NoMap
    /\ during = {} /\ throughout = {} /\ hit = {}
    /\ budget = [changes |-> MaxChanges, attempts |-> MaxAttempts, faults |-> MaxFaults]

Start == Connect \/ StartWatcher

Cycle ==
    \/ Begin \/ ListDocker \/ ListKubernetes \/ ListIncus
    \/ ListClusterResources \/ ResolveGuest \/ GuestsResolved \/ WorkloadsListed
    \/ ExtractHostnames \/ FindFiles \/ ParseConfigFile \/ Publish \/ Rest

Next ==
    \/ Start \/ Cycle \/ ConnectRetry \/ ListFails
    \/ \E i \in Items : Change(i) \/ Sync(i)

Spec == Init /\ [][Next]_vars /\ WF_vars(Start) /\ WF_vars(Cycle) /\ WF_vars(\E i \in Items : Sync(i))
-----------------------------------------------------------------------------
(* Properties. *)

Stages == {"connect", "start", "stopped", "idle", "list", "resolve", "extract", "files", "done"}

\* The process is at one of its stages, a name is found under its normal form and has
\* passed validation, and connecting to Docker has waited no longer than
\* DNSWEAVER_DOCKER_CONNECT_TIMEOUT with a backoff that stays within its limit
\* (connectWithRetry).
TypeOK ==
    /\ pc \in Stages
    /\ \A i \in Items : world[i] \in Variants[i] /\ informer[i] \in Variants[i] \cup {Absent}
    /\ docker.waited \in 0..ConnectTimeout /\ docker.backoff \in 1..MaxBackoff
    /\ at \in 1..(Len(Listers) + 1)
    /\ \A f \in {found, known} : \A n \in DOMAIN f : NormalizeHostname(f[n].host) = n /\ Validate(f[n])
    /\ hit \subseteq Items /\ budget \in [changes : 0..MaxChanges, attempts : 0..MaxAttempts, faults : 0..MaxFaults]

\* Where a platform is asked for an object: a guest by node and type, an instance by project.
Place(i, obj) ==
    CASE PlatformOf[i] = "proxmox" -> <<obj.node, obj.type>>
      [] PlatformOf[i] = "incus" -> <<obj.project>>
      [] OTHER -> <<>>

\* The items that were in two places in this cycle.
Moved ==
    {i \in Items : \E x, y \in during :
        /\ x[1] = i /\ y[1] = i /\ x[2] # Absent /\ y[2] # Absent
        /\ Place(i, x[2]) # Place(i, y[2])}

\* A name that some item declares all through a complete cycle is discovered by it: what
\* happens to other items meanwhile, the failure of another guest's query or of the file
\* walk, and the order in which Go iterates, never hide it (Reconcile, extractHostnames).
\* Only a failed call for the item itself does, a custom resource that the start missed,
\* and a move of the item in this very cycle: a guest that migrates after it was listed is
\* asked for at its old node, an instance that moves to a project listed before is in none.
\* The orphan cleanup deletes whatever is missing here.
NothingLost ==
    pc = "done" =>
        \A t \in throughout : t[1] \in hit \cup Blind \cup Moved \/ t[2] \in DOMAIN known

\* The owner of an object switched it off, with whichever key its platform has for that.
OptedOut(i, obj) ==
    LET off(f, k) == Get(f, k, "true") = "false"
    IN  /\ obj # Absent
        /\ \/ PlatformOf[i] \in {"docker", "kubernetes"} /\ off(obj.labels, <<"dnsweaver", "enabled">>)
           \/ PlatformOf[i] = "kubernetes" /\ off(obj.annotations, <<"dnsweaver.dev", "enabled">>)
           \/ PlatformOf[i] = "incus" /\ off(obj.config, <<"dnsweaver", "enabled">>)
           \/ /\ PlatformOf[i] = "incus" /\ off(obj.config, <<"user.label", "dnsweaver", "enabled">>)
              /\ <<"dnsweaver", "enabled">> \notin DOMAIN obj.config

\* The names object obj of item i stands for; a guest is listed before its address is
\* asked for, so the address may come from a later state of it.
Carries(i, obj) ==
    IF OptedOut(i, obj) THEN {}
    ELSE IF obj # Absent /\ PlatformOf[i] = "proxmox"
    THEN {NormalizeHostname(h) : h \in IF ProxmoxLists(obj) THEN ToSet(ProxmoxHostname(WorkloadOf(i, obj))) ELSE {}}
    ELSE {t[2] : t \in Names(i, obj)}

\* Every discovered name was carried, at some moment of the cycle, by a listed object that
\* is not opted out with dnsweaver.enabled=false: no name of an earlier cycle, of a stopped
\* or filtered object or of an invalid spelling survives (isWorkloadDisabled, the filters
\* of the listers, ValidateAll).
NothingInvented ==
    pc = "done" => \A n \in DOMAIN known : \E x \in during : n \in Carries(x[1], x[2])

\* The addresses of a guest that a record may point at.
Reachable(obj) ==
    IF obj = Absent THEN {}
    ELSE (ToSet(FlattenSeq(MapSeq(LAMBDA f : IF f.name = "lo" THEN <<>> ELSE f.addrs, obj.ifaces)))
              \cup (IF "net0" \in DOMAIN obj THEN {obj.net0} ELSE {})) \cap Routable

\* A record target taken from a guest is an address that this guest had during the cycle,
\* on an interface other than the loopback, and routable; it is never left over from an
\* earlier cycle although listing and address query are separate calls
\* (ResolveIPWithInterfacePreferences, incus ResolveIP).
AddressesAreLive ==
    pc = "done" =>
        \A n \in DOMAIN known :
            LET e == known[n]
            IN  e.source \in {"proxmox", "incus"} /\ e.hints.target # "" =>
                    \E x \in during : x[1] = e.router /\ e.hints.target \in Reachable(x[2])

\* Once objects stop changing and calls stop failing, the remembered names are exactly the
\* declared ones, for good: no failure leaves a lasting hole or a lasting extra name, except
\* the custom resources that the start missed (the periodic timer runs Reconcile again and
\* again).
Settles ==
    <>[](\/ pc = "stopped"
         \/ DOMAIN known = {t[2] : t \in UNION {Names(i, IF i \in Blind THEN Absent ELSE View[i]) : i \in Items}})

\* Does instance p handle the host name as reported in e?
Claims(p, e) ==
    /\ Matches(Instances[p].matcher, NormalizeHostname(e.host))
    /\ MatchesMetadataFilters(e, Instances[p].entryPoints)

\* docs/sources/swarm.md: a router with two entrypoints yields two extractions, and each
\* instance receives those whose entrypoint is in its allowlist.  The reconciler keeps one
\* extraction per name, so the instance of the other entrypoint receives none.
EntryPointsServed ==
    pc = "done" =>
        \A t \in throughout :
            t[1] \notin hit \cup Blind \cup Moved =>
                \A p \in DOMAIN Instances :
                    t[3] \in Instances[p].entryPoints /\ Matches(Instances[p].matcher, t[2]) =>
                        t[2] \in DOMAIN known /\ Claims(p, known[t[2]])
=============================================================================
