--------------------------- MODULE DiscoveryProofs ---------------------------
(***************************************************************************)
(* Discovery, for every set of objects, every history of their changes and *)
(* every order of iteration: its types, that no name is invented, that a   *)
(* guest's address is live, and that no declared name is lost.             *)
(***************************************************************************)
EXTENDS Discovery, SourcesProofs

-----------------------------------------------------------------------------
(* Objects, workloads and reports. *)

LEMMA KnownObject ==
  ASSUME NEW i \in Items, NEW obj \in Variants[i], obj # Absent
  PROVE  /\ PlatformOf[i] \in {"docker", "kubernetes", "proxmox", "incus", "file"}
         /\ PlatformOf[i] = "docker" => IsDockerObject(obj)
         /\ PlatformOf[i] = "kubernetes" => IsKubernetesObject(obj)
         /\ PlatformOf[i] = "proxmox" => IsProxmoxObject(obj)
         /\ PlatformOf[i] = "incus" => IsIncusObject(obj)
         /\ PlatformOf[i] = "file" => IsFileObject(obj)
BY ObjectsAssumption

LEMMA RegisteredSources ==
  /\ IsSeq(Registered) /\ ToSet(Registered) \subseteq SourceNames
  /\ \A i \in Items : PlatformOf[i] = "proxmox" => "proxmox" \in ToSet(Registered)
<1>1. /\ IsSeq(Registered) /\ ToSet(Registered) \subseteq SourceNames
      /\ Platforms \cap {"kubernetes", "proxmox", "incus"} \subseteq ToSet(Registered)
  BY RegisteredProps DEF Registered
<1>2. \A i \in Items : PlatformOf[i] \in Platforms
  BY DEF Platforms
<1>. QED BY <1>1, <1>2

\* What a lister makes of a listed object is a workload under the object's name, disabled
\* when the object is opted out.
LEMMA ListedWorkload ==
  ASSUME NEW i \in Items, NEW obj \in Variants[i], obj # Absent, PlatformOf[i] # "file",
         PlatformOf[i] = "kubernetes" => KubernetesLists(obj)
  PROVE  /\ IsWorkload(WorkloadOf(i, obj)) /\ WorkloadOf(i, obj).name = i
         /\ WorkloadOf(i, obj).platform = PlatformOf[i]
         /\ OptedOut(i, obj) => IsWorkloadDisabled(WorkloadOf(i, obj))
<1>. DEFINE w == WorkloadOf(i, obj)
            on == <<"dnsweaver", "enabled">>
            onDev == <<"dnsweaver.dev", "enabled">>
            onLabel == <<"user.label", "dnsweaver", "enabled">>
<1>0. IsWorkloadDisabled(w) <=> \/ Get(w.labels, on, "true") = "false" \/ Get(w.annotations, onDev, "true") = "false"
  BY DEF IsWorkloadDisabled
<1>1. CASE PlatformOf[i] = "docker"
  <2>1. w = DockerWorkload(i, obj)
    BY <1>1 DEF WorkloadOf
  <2>. HIDE DEF w
  <2>2. IsWorkload(w) /\ w.platform = "docker" /\ w.name = i /\ w.labels = obj.labels
    BY <1>1, <2>1, KnownObject, DockerIsWorkload
  <2>3. OptedOut(i, obj) => Get(obj.labels, on, "true") = "false"
    BY <1>1 DEF OptedOut
  <2>. QED BY <1>0, <1>1, <2>2, <2>3 DEF w
<1>2. CASE PlatformOf[i] = "kubernetes"
  <2>1. w = KubernetesWorkload(i, obj)
    BY <1>2 DEF WorkloadOf
  <2>. HIDE DEF w
  <2>2. obj.kind \in KubernetesKinds
    BY <1>2, PlatformsAssumption DEF KubernetesLists
  <2>3. IsWorkload(w) /\ w.platform = "kubernetes" /\ w.name = i /\ w.labels = obj.labels /\ w.annotations = obj.annotations
    BY <1>2, <2>1, <2>2, KnownObject, KubernetesIsWorkload
  <2>4. OptedOut(i, obj) => Get(obj.labels, on, "true") = "false" \/ Get(obj.annotations, onDev, "true") = "false"
    BY <1>2 DEF OptedOut
  <2>. QED BY <1>0, <1>2, <2>3, <2>4 DEF w
<1>3. CASE PlatformOf[i] = "proxmox"
  <2>1. w = ProxmoxWorkload(i, obj, ResolveIP(obj, obj.tags))
    BY <1>3 DEF WorkloadOf
  <2>. HIDE DEF w
  <2>2. IsWorkload(w) /\ w.platform = "proxmox" /\ w.name = i
    BY <1>3, <2>1, KnownObject, ProxmoxIsWorkload
  <2>3. ~OptedOut(i, obj)
    BY <1>3 DEF OptedOut
  <2>. QED BY <1>3, <2>2, <2>3 DEF w
<1>4. CASE PlatformOf[i] = "incus"
  <2>1. w = IncusWorkload(i, obj)
    BY <1>4 DEF WorkloadOf
  <2>. HIDE DEF w
  <2>2. /\ IsWorkload(w) /\ w.platform = "incus" /\ w.name = i
        /\ \A k \in DOMAIN obj.config : k \in DOMAIN w.labels /\ w.labels[k] = obj.config[k]
        /\ \A x \in DOMAIN obj.config : x[1] = "user.label" /\ Tail(x) \notin DOMAIN obj.config =>
              Tail(x) \in DOMAIN w.labels /\ w.labels[Tail(x)] = obj.config[x]
    BY <1>4, <2>1, KnownObject, IncusIsWorkload
  <2>3. OptedOut(i, obj) => \/ Get(obj.config, on, "true") = "false"
                            \/ Get(obj.config, onLabel, "true") = "false" /\ on \notin DOMAIN obj.config
    BY <1>4 DEF OptedOut
  <2>4. onLabel[1] = "user.label" /\ Tail(onLabel) = on
    OBVIOUS
  <2>. HIDE DEF on, onLabel, onDev
  <2>5. OptedOut(i, obj) => Get(w.labels, on, "true") = "false"
    BY <2>2, <2>3, <2>4 DEF Get
  <2>. QED BY <1>0, <1>4, <2>2, <2>5 DEF w
<1>. QED BY <1>1, <1>2, <1>3, <1>4, KnownObject

\* The names in Declared are those of the valid reports.
LEMMA DeclaredNames ==
  ASSUME NEW mode \in DOMAIN Declared, NEW i \in Items, NEW obj \in Variants[i] \cup {Absent}
  PROVE  /\ \A t \in Declared[mode][i][obj] : \E es \in Reports(mode, i, obj) : \E e \in ToSet(es) :
               Validate(e) /\ t = <<i, NormalizeHostname(e.host), e.entryPoint>>
         /\ \A es \in Reports(mode, i, obj) : \A e \in ToSet(es) :
               Validate(e) => <<i, NormalizeHostname(e.host), e.entryPoint>> \in Declared[mode][i][obj]
<1>. DEFINE R == Reports(mode, i, obj)
            V == {x \in UNION {ToSet(es) : es \in R} : Validate(x)}
            D == {<<i, NormalizeHostname(e.host), e.entryPoint>> : e \in V}
<1>1. Declared[mode][i][obj] = D
  BY DEF Declared
<1>2. \A x \in V : Validate(x) /\ \E es \in R : x \in ToSet(es)
  OBVIOUS
<1>3. \A es \in R : \A e \in ToSet(es) : Validate(e) => e \in V
  OBVIOUS
<1>. HIDE DEF R, V
<1>4. \A t \in D : \E e \in V : t = <<i, NormalizeHostname(e.host), e.entryPoint>>
  BY Zenon
<1>5. \A e \in V : <<i, NormalizeHostname(e.host), e.entryPoint>> \in D
  BY Zenon
<1>. HIDE DEF D
<1>6. \A t \in D : \E es \in R : \E e \in ToSet(es) : Validate(e) /\ t = <<i, NormalizeHostname(e.host), e.entryPoint>>
  BY <1>2, <1>4, Zenon
<1>7. \A es \in R : \A e \in ToSet(es) : Validate(e) => <<i, NormalizeHostname(e.host), e.entryPoint>> \in D
  BY <1>3, <1>5
<1>. QED BY <1>1, <1>6, <1>7 DEF R

\* Merge keeps what is there and adds every valid name of the report, each from one of its
\* valid entries.
LEMMA MergeProps ==
  ASSUME NEW f, NEW es, IsSeq(es)
  PROVE  /\ DOMAIN Merge(f, es) = DOMAIN f \cup ValidNames(es)
         /\ \A n \in DOMAIN f : Merge(f, es)[n] = f[n]
         /\ \A n \in ValidNames(es) \ DOMAIN f :
               \E e \in ToSet(es) : Validate(e) /\ NormalizeHostname(e.host) = n /\ Merge(f, es)[n] = e
<1>. DEFINE valid == ValidateAll(es)
            name(i) == NormalizeHostname(valid[i].host)
            first(n) == CHOOSE i \in DOMAIN valid : name(i) = n /\ \A j \in 1..(i - 1) : name(j) # n
            N == {name(i) : i \in DOMAIN valid}
<1>1. IsSeq(valid) /\ ToSet(valid) = {e \in ToSet(es) : Validate(e)}
  BY ValidateAllProps
<1>2. Merge(f, es) = [n \in DOMAIN f \cup N |-> IF n \in DOMAIN f THEN f[n] ELSE valid[first(n)]]
  BY DEF Merge
<1>. HIDE DEF valid
<1>3. N = ValidNames(es)
  <2>1. ValidNames(es) = {NormalizeHostname(e.host) : e \in ToSet(valid)}
    BY <1>1 DEF ValidNames
  <2>. QED BY <2>1 DEF ToSet
<1>4. Len(valid) \in Nat /\ DOMAIN valid = 1..Len(valid)
  BY <1>1, IsSeqSeq
<1>5. ASSUME NEW n \in N PROVE first(n) \in DOMAIN valid /\ name(first(n)) = n
  <2>. DEFINE T == {i \in DOMAIN valid : name(i) = n}
  <2>. HIDE DEF name
  <2>1. T \in SUBSET Nat /\ T # {}
    BY <1>4
  <2>2. PICK k \in T : \A j \in T : k <= j
    BY <2>1, NatLeast
  <2>3. k \in DOMAIN valid /\ name(k) = n /\ \A j \in 1..(k - 1) : name(j) # n
    BY <1>4, <2>2
  <2>4. \E i \in DOMAIN valid : name(i) = n /\ \A j \in 1..(i - 1) : name(j) # n
    BY <2>3
  <2>. QED BY <2>4, Zenon
<1>6. \A n \in N : valid[first(n)] \in ToSet(es) /\ Validate(valid[first(n)])
                     /\ NormalizeHostname(valid[first(n)].host) = n
  <2>1. \A i \in DOMAIN valid : valid[i] \in ToSet(es) /\ Validate(valid[i])
    BY <1>1 DEF ToSet
  <2>2. \A n \in N : first(n) \in DOMAIN valid /\ NormalizeHostname(valid[first(n)].host) = n
    BY <1>5
  <2>. HIDE DEF first, N
  <2>. QED BY <2>1, <2>2
<1>. HIDE DEF first, N
<1>. QED BY <1>2, <1>3, <1>6

LEMMA MergeNew ==
  ASSUME NEW f, NEW es, IsSeq(es), NEW n \in ValidNames(es), n \notin DOMAIN f
  PROVE  LET e == Merge(f, es)[n]
         IN  e \in ToSet(es) /\ Validate(e) /\ NormalizeHostname(e.host) = n
<1>1. /\ DOMAIN Merge(f, es) = DOMAIN f \cup ValidNames(es)
      /\ \A m \in DOMAIN f : Merge(f, es)[m] = f[m]
      /\ \A m \in ValidNames(es) \ DOMAIN f :
            \E e \in ToSet(es) : Validate(e) /\ NormalizeHostname(e.host) = m /\ Merge(f, es)[m] = e
  BY MergeProps, ZenonT(60)
<1>2. n \in ValidNames(es) \ DOMAIN f
  OBVIOUS
<1>3. PICK e \in ToSet(es) : Validate(e) /\ NormalizeHostname(e.host) = n /\ Merge(f, es)[n] = e
  BY <1>1, <1>2
<1>. QED BY <1>3

\* Merge keeps every name valid and under its normal form.
LEMMA MergeSame ==
  ASSUME NEW f, NEW es, IsSeq(es), \A n \in DOMAIN f : NormalizeHostname(f[n].host) = n /\ Validate(f[n])
  PROVE  LET m == Merge(f, es)
         IN  \A n \in DOMAIN m : NormalizeHostname(m[n].host) = n /\ Validate(m[n])
<1>. DEFINE m == Merge(f, es)
<1>. SUFFICES ASSUME NEW n \in DOMAIN m PROVE NormalizeHostname(m[n].host) = n /\ Validate(m[n])
  OBVIOUS
<1>1. CASE n \in DOMAIN f
  <2>1. m[n] = f[n]
    BY <1>1, MergeProps
  <2>. QED BY <1>1, <2>1
<1>2. CASE n \notin DOMAIN f
  <2>1. n \in ValidNames(es)
    BY <1>2, MergeProps
  <2>. QED BY <1>2, <2>1, MergeNew
<1>. QED BY <1>1, <1>2

-----------------------------------------------------------------------------
(* What an object carries. *)

LEMMA NotOptedOut ==
  ASSUME NEW i \in Items, NEW obj, PlatformOf[i] \in {"proxmox", "file"}
  PROVE  ~OptedOut(i, obj)
BY DEF OptedOut

\* The valid names of a listed object.
LEMMA CarriedListed ==
  ASSUME docker.mode \in DOMAIN Declared, NEW i \in Items, NEW obj \in Variants[i], obj # Absent,
         PlatformOf[i] \notin {"file", "proxmox"}, Lists(docker.mode, i, obj),
         NEW es \in ExtractAll(WorkloadOf(i, obj), Registered), NEW e \in ToSet(es), Validate(e)
  PROVE  NormalizeHostname(e.host) \in Carries(i, obj)
<1>1. PlatformOf[i] = "kubernetes" => KubernetesLists(obj)
  BY DEF Lists
<1>. DEFINE w == WorkloadOf(i, obj)
<1>2. IsWorkload(w) /\ (OptedOut(i, obj) => IsWorkloadDisabled(w))
  BY <1>1, ListedWorkload
<1>3. ~IsWorkloadDisabled(w)
  <2>. HIDE DEF w
  <2>1. es \in ExtractAll(w, Registered)
    BY DEF w
  <2>. QED BY <1>2, <2>1, RegisteredSources, ExtractAllProps
<1>4. es \in Reports(docker.mode, i, obj)
  BY DEF Reports
<1>. DEFINE t == <<i, NormalizeHostname(e.host), e.entryPoint>>
<1>5. t \in Names(i, obj)
  BY <1>4, DeclaredNames DEF Names
<1>6. t[2] = NormalizeHostname(e.host)
  OBVIOUS
<1>7. Carries(i, obj) = {x[2] : x \in Names(i, obj)}
  BY <1>2, <1>3 DEF Carries
<1>. HIDE DEF t
<1>. QED BY <1>5, <1>6, <1>7

\* The valid names of a parsed file.
LEMMA CarriedFile ==
  ASSUME docker.mode \in DOMAIN Declared, NEW i \in Items, NEW obj \in Variants[i], obj # Absent,
         PlatformOf[i] = "file", ~obj.torn, NEW xs \in ExtractFromConfig(obj.routers),
         NEW e \in ToSet(MapSeq(TraefikHostname, xs)), Validate(e)
  PROVE  NormalizeHostname(e.host) \in Carries(i, obj)
<1>. DEFINE es == MapSeq(TraefikHostname, xs)
            t == <<i, NormalizeHostname(e.host), e.entryPoint>>
<1>1. es \in Reports(docker.mode, i, obj)
  BY DEF Reports
<1>. HIDE DEF es
<1>2. e \in ToSet(es)
  BY DEF es
<1>3. t \in Names(i, obj)
  BY <1>1, <1>2, DeclaredNames DEF Names
<1>4. t[2] = NormalizeHostname(e.host)
  OBVIOUS
<1>5. Carries(i, obj) = {x[2] : x \in Names(i, obj)}
  BY NotOptedOut DEF Carries
<1>. HIDE DEF t
<1>. QED BY <1>3, <1>4, <1>5

\* The names of a guest as listed, whatever address is found for it later.
LEMMA CarriedGuest ==
  ASSUME NEW i \in Items, NEW obj \in Variants[i], obj # Absent, PlatformOf[i] = "proxmox", ProxmoxLists(obj), NEW ip,
         NEW es \in ExtractAll(ProxmoxWorkload(i, obj, ip), Registered), NEW e \in ToSet(es)
  PROVE  NormalizeHostname(e.host) \in Carries(i, obj)
<1>. DEFINE w == ProxmoxWorkload(i, obj, ip)
            own == ResolveIP(obj, obj.tags)
            v == ProxmoxWorkload(i, obj, own)
<1>0. IsProxmoxObject(obj)
  BY KnownObject
<1>1. IsWorkload(w) /\ w.platform = "proxmox" /\ w.labels = NoMap /\ w.annotations = NoMap
  BY <1>0, ProxmoxIsWorkload
<1>2. es \in ExtractAll(w, Registered) /\ "proxmox" \in ToSet(Registered)
  BY RegisteredSources
<1>3. ProxmoxHostname(w) = ProxmoxHostname(v)
  <2>. HIDE DEF own
  <2>. QED BY <1>0, ProxmoxNames
<1>4. WorkloadOf(i, obj) = v
  BY DEF WorkloadOf
<1>5. Carries(i, obj) = {NormalizeHostname(h) : h \in ToSet(ProxmoxHostname(v))}
  BY <1>4, NotOptedOut DEF Carries
<1>. HIDE DEF w, v
<1>6. e.host \in ToSet(ProxmoxHostname(w))
  BY <1>1, <1>2, RegisteredSources, ProxmoxReports
<1>. QED BY <1>3, <1>5, <1>6

-----------------------------------------------------------------------------
(* The inductive invariant. *)

\* A cycle is going on.
Going == pc \in {"list", "resolve", "extract", "files", "done"}

\* The object of item i that the process can see.
Visible(i) == IF PlatformOf[i] = "kubernetes" THEN informer[i] ELSE world[i]

\* Names under their normal form, validated.
Keyed(f) == \A n \in DOMAIN f : NormalizeHostname(f[n].host) = n /\ Validate(f[n])

\* What is empty at which stage, and which lister's turn it is.
Shape ==
    /\ world = [i \in Items |-> world[i]] /\ informer = [i \in Items |-> informer[i]]
    /\ docker = [daemon |-> docker.daemon, mode |-> docker.mode, backoff |-> docker.backoff, waited |-> docker.waited]
    /\ docker.mode \in DOMAIN Declared
    /\ IsSeq(left) /\ IsSeq(workloads)
    /\ ~Going => workloads = <<>> /\ during = {} /\ throughout = {} /\ hit = {}
    /\ pc \notin {"resolve", "files"} => left = <<>>
    /\ pc \notin {"extract", "files", "done"} => found = NoMap
    /\ pc \in {"files", "done"} => workloads = <<>>
    /\ pc = "done" => known = found
    /\ pc = "resolve" => at <= Len(Listers) /\ Listers[at][1] = "proxmox"
    /\ pc \in {"extract", "files", "done"} => at > Len(Listers)

\* The history holds objects only, and in a cycle every one that can be seen.
Watching ==
    /\ \A x \in during : \E i \in Items : \E obj \in Variants[i] \cup {Absent} : x = <<i, obj>>
    /\ Going => \A i \in Items : <<i, Visible(i)>> \in during

\* A workload of an object seen in this cycle that its lister takes.
FromListing(w) ==
    \E i \in Items : \E obj \in Variants[i] :
        /\ obj # Absent /\ <<i, obj>> \in during /\ PlatformOf[i] \notin {"file", "proxmox"}
        /\ Lists(docker.mode, i, obj) /\ w = WorkloadOf(i, obj)

\* A guest listed and asked for its address in this cycle, one after the other.
FromGuest(w) ==
    \E i \in Items : \E a, b \in Variants[i] :
        /\ a # Absent /\ b # Absent /\ <<i, a>> \in during /\ <<i, b>> \in during
        /\ PlatformOf[i] = "proxmox" /\ ProxmoxLists(a) /\ w = ProxmoxWorkload(i, a, ResolveIP(b, a.tags))

\* A guest that is listed and waits for its address.
GuestOf(g) ==
    \E i \in Items : \E a \in Variants[i] :
        a # Absent /\ <<i, a>> \in during /\ PlatformOf[i] = "proxmox" /\ ProxmoxLists(a) /\ g = <<i, a>>

Carried(n) == \E x \in during : n \in Carries(x[1], x[2])

\* Where the workloads, the waiting guests and files, and the names come from.
Traced ==
    /\ \A w \in ToSet(workloads) : FromListing(w) \/ FromGuest(w)
    /\ pc = "resolve" => \A g \in ToSet(left) : GuestOf(g)
    /\ pc = "files" => \A i \in ToSet(left) : i \in Items /\ PlatformOf[i] = "file"
    /\ \A n \in DOMAIN found : Carried(n)

Inv == TypeOK /\ Shape /\ Watching /\ Traced

\* What a cycle has seen stays seen until it ends.
LEMMA Persist ==
  ASSUME during \subseteq during', docker' = docker
  PROVE  /\ \A w : FromListing(w) => FromListing(w)'
         /\ \A w : FromGuest(w) => FromGuest(w)'
         /\ \A g : GuestOf(g) => GuestOf(g)'
         /\ \A n : Carried(n) => Carried(n)'
<1>1. ASSUME NEW w, FromListing(w) PROVE FromListing(w)'
  BY <1>1 DEF FromListing
<1>2. ASSUME NEW w, FromGuest(w) PROVE FromGuest(w)'
  BY <1>2 DEF FromGuest
<1>3. ASSUME NEW g, GuestOf(g) PROVE GuestOf(g)'
  BY <1>3 DEF GuestOf
<1>4. ASSUME NEW n, Carried(n) PROVE Carried(n)'
  <2>1. \A i, obj : Carries(i, obj)' = Carries(i, obj)
    BY DEF Carries, Names
  <2>. QED BY <1>4, <2>1 DEF Carried
<1>. QED BY <1>1, <1>2, <1>3, <1>4

LEMMA TracedWorkload ==
  ASSUME NEW w, FromListing(w) \/ FromGuest(w)
  PROVE  IsWorkload(w)
<1>1. CASE FromListing(w)
  <2>1. PICK i, obj :
           i \in Items /\ obj \in Variants[i] /\ obj # Absent /\ PlatformOf[i] \notin {"file", "proxmox"} /\ Lists(docker.mode, i, obj) /\ w = WorkloadOf(i, obj)
    BY <1>1 DEF FromListing
  <2>2. PlatformOf[i] = "kubernetes" => KubernetesLists(obj)
    BY <2>1 DEF Lists
  <2>. QED BY <2>1, <2>2, ListedWorkload
<1>2. CASE FromGuest(w)
  <2>1. PICK i, a, b :
           i \in Items /\ a \in Variants[i] /\ b \in Variants[i] /\ a # Absent /\ PlatformOf[i] = "proxmox" /\ w = ProxmoxWorkload(i, a, ResolveIP(b, a.tags))
    BY <1>2 DEF FromGuest
  <2>2. IsProxmoxObject(a)
    BY <2>1, KnownObject
  <2>. QED BY <2>1, <2>2, ProxmoxIsWorkload
<1>. QED BY <1>1, <1>2

\* The names of a traced workload are carried by an object of this cycle.
LEMMA TracedNames ==
  ASSUME docker.mode \in DOMAIN Declared, NEW w, FromListing(w) \/ FromGuest(w),
         NEW es \in ExtractAll(w, Registered), NEW e \in ToSet(es), Validate(e)
  PROVE  Carried(NormalizeHostname(e.host))
<1>. DEFINE n == NormalizeHostname(e.host)
<1>1. CASE FromListing(w)
  <2>1. PICK i, obj :
           /\ i \in Items /\ obj \in Variants[i] /\ obj # Absent /\ <<i, obj>> \in during /\ PlatformOf[i] \notin {"file", "proxmox"}
           /\ Lists(docker.mode, i, obj) /\ w = WorkloadOf(i, obj)
    BY <1>1 DEF FromListing
  <2>2. n \in Carries(i, obj)
    BY <2>1, CarriedListed
  <2>. DEFINE x == <<i, obj>>
  <2>3. x \in during /\ x[1] = i /\ x[2] = obj
    BY <2>1
  <2>. HIDE DEF x, n
  <2>. QED BY <2>2, <2>3 DEF Carried, n
<1>2. CASE FromGuest(w)
  <2>1. PICK i, a, b :
           /\ i \in Items /\ a \in Variants[i] /\ b \in Variants[i] /\ a # Absent /\ <<i, a>> \in during /\ PlatformOf[i] = "proxmox" /\ ProxmoxLists(a)
           /\ w = ProxmoxWorkload(i, a, ResolveIP(b, a.tags))
    BY <1>2 DEF FromGuest
  <2>. DEFINE ip == ResolveIP(b, a.tags)
              x == <<i, a>>
  <2>2. es \in ExtractAll(ProxmoxWorkload(i, a, ip), Registered)
    BY <2>1
  <2>. HIDE DEF ip
  <2>3. n \in Carries(i, a)
    BY <2>1, <2>2, CarriedGuest
  <2>4. x \in during /\ x[1] = i /\ x[2] = a
    BY <2>1
  <2>. HIDE DEF x, n
  <2>. QED BY <2>3, <2>4 DEF Carried, n
<1>. QED BY <1>1, <1>2

LEMMA ConcatAt ==
  ASSUME NEW s, NEW t, IsSeq(s), IsSeq(t)
  PROVE  /\ Len(s \o t) = Len(s) + Len(t)
         /\ \A j \in 1..Len(s) : (s \o t)[j] = s[j]
         /\ \A j \in 1..Len(t) : (s \o t)[Len(s) + j] = t[j]
<1>1. s \in Seq(ToSet(s) \cup ToSet(t)) /\ t \in Seq(ToSet(s) \cup ToSet(t))
  BY IsSeqSeq
<1>2. Len(s \o t) = Len(s) + Len(t)
  BY <1>1
<1>3. \A j \in 1..Len(s) : (s \o t)[j] = s[j]
  BY <1>1
<1>4. \A j \in 1..Len(t) : (s \o t)[Len(s) + j] = t[j]
  BY <1>1
<1>. QED BY <1>2, <1>3, <1>4

\* Docker, Kubernetes and Proxmox have one lister each, and the rest are those of Incus.
LEMMA ListersSeq ==
  /\ IsSeq(Listers) /\ Len(Listers) \in Nat /\ DOMAIN Listers = 1..Len(Listers)
  /\ IsSeq(IncusListers) /\ DOMAIN IncusListers = 1..Len(IncusListers) /\ Len(Listers) = 3 + Len(IncusListers)
  /\ Len(IncusListers) \in Nat
  /\ Listers[1] = <<"docker">> /\ Listers[2] = <<"kubernetes">> /\ Listers[3] = <<"proxmox">>
  /\ \A j \in DOMAIN IncusListers : Listers[3 + j] = IncusListers[j] /\ IncusListers[j][1] = "incus"
<1>. DEFINE base == <<<<"docker">>, <<"kubernetes">>, <<"proxmox">>>>
            ps == IF IncusCfg.allProjects THEN <<"*">> ELSE IncusCfg.projects
            tl == [i \in DOMAIN ps |-> <<"incus", ps[i]>>]
<1>1. IncusListers = tl
  BY DEF IncusListers, MapSeq
<1>2. IsSeq(ps)
  BY OneIsSeq, PlatformsAssumption
<1>. HIDE DEF ps
<1>3. IsSeq(tl) /\ DOMAIN tl = DOMAIN ps /\ \A j \in DOMAIN ps : tl[j][1] = "incus"
  BY <1>2, MapIsSeq
<1>4. /\ base \in Seq({<<"docker">>, <<"kubernetes">>, <<"proxmox">>}) /\ Len(base) = 3
      /\ base[1] = <<"docker">> /\ base[2] = <<"kubernetes">> /\ base[3] = <<"proxmox">>
  OBVIOUS
<1>5. IsSeq(base)
  BY <1>4, SeqIsSeq
<1>. HIDE DEF base, tl
<1>6. IsSeq(base \o tl)
  BY <1>3, <1>5, ConcatIsSeq
<1>7. Listers = base \o tl
  BY <1>1 DEF Listers, base
<1>8. Len(tl) \in Nat /\ DOMAIN tl = 1..Len(tl)
  BY <1>3, IsSeqSeq
<1>9. /\ Len(Listers) = 3 + Len(tl) /\ Listers[1] = base[1] /\ Listers[2] = base[2] /\ Listers[3] = base[3]
      /\ \A j \in 1..Len(tl) : Listers[3 + j] = tl[j]
  <2>1. /\ Len(base \o tl) = Len(base) + Len(tl)
        /\ \A j \in 1..Len(base) : (base \o tl)[j] = base[j]
        /\ \A j \in 1..Len(tl) : (base \o tl)[Len(base) + j] = tl[j]
    BY <1>3, <1>5, ConcatAt
  <2>. QED BY <1>4, <1>7, <2>1
<1>10. IsSeq(Listers)
  BY <1>6, <1>7
<1>11. Len(Listers) \in Nat /\ DOMAIN Listers = 1..Len(Listers)
  BY <1>10, IsSeqSeq
<1>12. IsSeq(IncusListers) /\ DOMAIN IncusListers = 1..Len(IncusListers) /\ Len(IncusListers) \in Nat
  BY <1>1, <1>3, <1>8
<1>13. Len(Listers) = 3 + Len(IncusListers)
  BY <1>1, <1>9
<1>14. Listers[1] = <<"docker">> /\ Listers[2] = <<"kubernetes">> /\ Listers[3] = <<"proxmox">>
  BY <1>4, <1>9
<1>15. \A j \in 1..Len(IncusListers) : Listers[3 + j] = IncusListers[j] /\ IncusListers[j][1] = "incus"
  BY <1>1, <1>3, <1>8, <1>9
<1>. QED BY <1>10, <1>11, <1>12, <1>13, <1>14, <1>15

LEMMA IncusLister ==
  ASSUME NEW k \in DOMAIN Listers, Listers[k][1] = "incus"
  PROVE  k > 3 /\ k - 3 \in DOMAIN IncusListers /\ Listers[k] = IncusListers[k - 3]
<1>1. Listers[1][1] = "docker" /\ Listers[2][1] = "kubernetes" /\ Listers[3][1] = "proxmox"
  BY ListersSeq
<1>2. k \in 1..(3 + Len(IncusListers)) /\ k \notin {1, 2, 3}
  BY <1>1, ListersSeq
<1>3. k - 3 \in 1..Len(IncusListers) /\ k = 3 + (k - 3) /\ k > 3
  BY <1>2, ListersSeq
<1>. QED BY <1>3, ListersSeq

LEMMA NothingNamed == Keyed(NoMap) /\ DOMAIN NoMap = {}
BY NoLabels DEF Keyed

\* TypeOK in parts.
LEMMA TypeParts ==
  TypeOK <=> /\ pc \in Stages
             /\ \A i \in Items : world[i] \in Variants[i] /\ informer[i] \in Variants[i] \cup {Absent}
             /\ docker.waited \in 0..ConnectTimeout /\ docker.backoff \in 1..MaxBackoff
             /\ at \in 1..(Len(Listers) + 1)
             /\ Keyed(found) /\ Keyed(known)
             /\ hit \subseteq Items
             /\ budget \in [changes : 0..MaxChanges, attempts : 0..MaxAttempts, faults : 0..MaxFaults]
BY DEF TypeOK, Keyed

LEMMA InvInit ==
  ASSUME Init
  PROVE  Inv
<1>1. world \in Worlds /\ DOMAIN world = Items /\ \A i \in Items : world[i] \in Variants[i]
  BY DiscoveryAssumption DEF Init
<1>2. docker \in [daemon : Daemons, mode : {"none"}, backoff : {1}, waited : {0}]
  BY DEF Init
<1>3. TypeOK
  <2>1. pc \in Stages
    BY DEF Init, Stages
  <2>2. \A i \in Items : world[i] \in Variants[i] /\ informer[i] \in Variants[i] \cup {Absent}
    BY <1>1 DEF Init
  <2>3. docker.waited \in 0..ConnectTimeout /\ docker.backoff \in 1..MaxBackoff
    BY <1>2, DiscoveryAssumption
  <2>4. at \in 1..(Len(Listers) + 1) /\ hit \subseteq Items
    BY ListersSeq DEF Init
  <2>5. budget \in [changes : 0..MaxChanges, attempts : 0..MaxAttempts, faults : 0..MaxFaults]
    BY DiscoveryAssumption DEF Init
  <2>6. Keyed(found) /\ Keyed(known)
    BY NothingNamed DEF Init
  <2>. QED BY <2>1, <2>2, <2>3, <2>4, <2>5, <2>6, TypeParts
<1>4. Shape
  <2>1. world = [i \in Items |-> world[i]] /\ informer = [i \in Items |-> informer[i]]
    <3>1. world \in Worlds /\ informer = [i \in Items |-> Absent]
      BY DEF Init
    <3>2. informer = [i \in Items |-> informer[i]]
      BY <3>1
    <3>3. world = [i \in Items |-> world[i]]
      BY <3>1, DiscoveryAssumption
    <3>. QED BY <3>2, <3>3
  <2>2. docker = [daemon |-> docker.daemon, mode |-> docker.mode, backoff |-> docker.backoff, waited |-> docker.waited]
    BY <1>2
  <2>3. docker.mode \in DOMAIN Declared
    BY <1>2 DEF Declared
  <2>. QED BY <2>1, <2>2, <2>3, EmptyIsSeq DEF Init, Shape, Going
<1>5. Watching
  BY DEF Init, Watching, Going
<1>6. Traced
  BY NothingNamed, EmptyIsSeq DEF Init, Traced
<1>. QED BY <1>3, <1>4, <1>5, <1>6 DEF Inv

Budgets == [changes : 0..MaxChanges, attempts : 0..MaxAttempts, faults : 0..MaxFaults]

LEMMA FaultBudget ==
  ASSUME budget \in Budgets, Fault
  PROVE  budget' \in Budgets
BY DiscoveryAssumption DEF Budgets, Fault

\* Steps of the objects and of the informers.
LEMMA WitnessStep ==
  ASSUME Inv, NEW i \in Items, NEW obj \in Variants[i], Witness(i, obj), UNCHANGED <<docker, pc>>
  PROVE  /\ during \subseteq during' /\ hit' = hit
         /\ ~Going => during' = {} /\ throughout' = {}
         /\ Going => during' = during \cup {<<i, obj>>}
         /\ \A x \in during' : \E j \in Items : \E o \in Variants[j] \cup {Absent} : x = <<j, o>>
<1>1. ~Going => during = {} /\ throughout = {}
  BY DEF Inv, Shape
<1>2. Going => during # {}
  BY DEF Inv, Watching
<1>3. during' = (IF during = {} THEN {} ELSE during \cup {<<i, obj>>}) /\ hit' = hit
  BY DEF Witness
<1>4. throughout = {} => throughout' = {}
  BY DEF Witness
<1>5. \A x \in during : \E j \in Items : \E o \in Variants[j] \cup {Absent} : x = <<j, o>>
  BY DEF Inv, Watching
<1>6. \A x \in during' : x \in during \/ x = <<i, obj>>
  BY <1>3
<1>7. \A x \in during' : \E j \in Items : \E o \in Variants[j] \cup {Absent} : x = <<j, o>>
  BY <1>5, <1>6
<1>. QED BY <1>1, <1>2, <1>3, <1>4, <1>7

LEMMA TracedStays ==
  ASSUME Traced, during \subseteq during', UNCHANGED <<docker, pc, workloads, left, found>>
  PROVE  Traced'
<1>1. /\ \A w : FromListing(w) => FromListing(w)'
      /\ \A w : FromGuest(w) => FromGuest(w)'
      /\ \A g : GuestOf(g) => GuestOf(g)'
      /\ \A n : Carried(n) => Carried(n)'
  BY Persist
<1>. QED BY <1>1 DEF Traced

LEMMA InvChange ==
  ASSUME Inv, NEW i \in Items, Change(i)
  PROVE  Inv'
<1>1. PICK obj \in Variants[i] :
         /\ world' = [world EXCEPT ![i] = obj]
         /\ IF PlatformOf[i] = "kubernetes" THEN UNCHANGED history ELSE Witness(i, obj)
  BY DEF Change
<1>2. UNCHANGED <<informer, docker, crds, pc, at, left, workloads, found, known>>
  BY DEF Change, client, cycle
<1>3. TypeOK /\ Shape /\ Watching /\ Traced
  BY DEF Inv
<1>4. world' = [j \in Items |-> IF j = i THEN obj ELSE world[j]]
  BY <1>1, <1>3 DEF Shape
<1>5. /\ during \subseteq during' /\ hit' = hit
      /\ ~Going => during' = {} /\ throughout' = {}
      /\ \A x \in during' : \E j \in Items : \E o \in Variants[j] \cup {Absent} : x = <<j, o>>
      /\ Going /\ PlatformOf[i] # "kubernetes" => <<i, obj>> \in during'
  <2>1. CASE PlatformOf[i] = "kubernetes"
    <3>1. UNCHANGED <<during, throughout, hit>>
      BY <1>1, <2>1 DEF history
    <3>. QED BY <1>3, <2>1, <3>1 DEF Shape, Watching
  <2>2. CASE PlatformOf[i] # "kubernetes"
    BY <1>1, <1>2, <2>2, WitnessStep
  <2>. QED BY <2>1, <2>2
<1>6. TypeOK'
  <2>1. budget' \in Budgets
    BY <1>3, TypeParts, DiscoveryAssumption DEF Change, Budgets
  <2>. QED BY <1>2, <1>3, <1>4, <1>5, <2>1 DEF TypeOK, Budgets
<1>7. Shape'
  BY <1>2, <1>3, <1>4, <1>5 DEF Shape, Going
<1>8. Watching'
  <2>1. \A j \in Items : Visible(j)' = IF j = i /\ PlatformOf[i] # "kubernetes" THEN obj ELSE Visible(j)
    BY <1>2, <1>4 DEF Visible
  <2>. QED BY <1>2, <1>3, <1>5, <2>1 DEF Watching, Going
<1>9. Traced'
  BY <1>2, <1>3, <1>5, TracedStays
<1>. QED BY <1>6, <1>7, <1>8, <1>9 DEF Inv

LEMMA InvSync ==
  ASSUME Inv, NEW i \in Items, Sync(i)
  PROVE  Inv'
<1>1. /\ PlatformOf[i] = "kubernetes" /\ informer' = [informer EXCEPT ![i] = world[i]]
      /\ Witness(i, world[i])
  BY DEF Sync
<1>2. UNCHANGED <<world, docker, crds, pc, at, left, workloads, found, known, budget>>
  BY DEF Sync, client, cycle
<1>3. TypeOK /\ Shape /\ Watching /\ Traced
  BY DEF Inv
<1>4. informer' = [j \in Items |-> IF j = i THEN world[i] ELSE informer[j]] /\ world[i] \in Variants[i]
  BY <1>1, <1>3 DEF Shape, TypeOK
<1>5. /\ during \subseteq during' /\ hit' = hit
      /\ ~Going => during' = {} /\ throughout' = {}
      /\ \A x \in during' : \E j \in Items : \E o \in Variants[j] \cup {Absent} : x = <<j, o>>
      /\ Going => <<i, world[i]>> \in during'
  BY <1>1, <1>2, <1>4, WitnessStep
<1>6. TypeOK'
  BY <1>2, <1>3, <1>4, <1>5 DEF TypeOK
<1>7. Shape'
  BY <1>2, <1>3, <1>4, <1>5 DEF Shape, Going
<1>8. Watching'
  <2>1. \A j \in Items : Visible(j)' = IF j = i THEN world[i] ELSE Visible(j)
    BY <1>1, <1>2, <1>4 DEF Visible
  <2>. QED BY <1>2, <1>3, <1>5, <2>1 DEF Watching, Going
<1>9. Traced'
  BY <1>2, <1>3, <1>5, TracedStays
<1>. QED BY <1>6, <1>7, <1>8, <1>9 DEF Inv

\* Steps outside a cycle.
LEMMA OutsideStep ==
  ASSUME Inv, ~Going, pc' \notin {"list", "resolve", "extract", "files", "done"},
         UNCHANGED <<cycle, known, history>>
  PROVE  /\ UNCHANGED <<at, left, workloads, found, known, during, throughout, hit>>
         /\ Watching' /\ Traced'
<1>1. UNCHANGED <<at, left, workloads, found, known, during, throughout, hit>>
  BY DEF cycle, history
<1>2. pc \notin {"list", "resolve", "extract", "files", "done"}
  BY DEF Going
<1>3. during = {} /\ workloads = <<>> /\ found = NoMap
  BY <1>2 DEF Inv, Shape
<1>4. Watching'
  BY <1>1, <1>3 DEF Watching, Going
<1>5. ToSet(workloads)' = {} /\ DOMAIN found' = {}
  BY <1>1, <1>3, NothingNamed, EmptyIsSeq
<1>6. Traced'
  BY <1>5 DEF Traced
<1>. QED BY <1>1, <1>4, <1>6

LEMMA InvConnect ==
  ASSUME Inv, Connect
  PROVE  Inv'
<1>. DEFINE mode == InitializeMode(docker.daemon)
<1>1. /\ pc = "connect" /\ pc' = IF mode = "error" THEN "stopped" ELSE "start"
      /\ docker' = [docker EXCEPT !.mode = mode, !.backoff = 1, !.waited = 0]
      /\ budget' = [budget EXCEPT !.attempts = 0]
      /\ UNCHANGED <<world, informer, cycle, known, history>>
  BY DEF Connect
<1>2. mode \in {"standalone", "swarm", "error"}
  BY DEF InitializeMode
<1>. HIDE DEF mode
<1>3. TypeOK /\ Shape
  BY DEF Inv
<1>4. /\ UNCHANGED <<at, left, workloads, found, known, during, throughout, hit>>
      /\ Watching' /\ Traced'
  BY <1>1, OutsideStep DEF Going
<1>5. docker' = [daemon |-> docker.daemon, mode |-> mode, backoff |-> 1, waited |-> 0]
  BY <1>1, <1>3 DEF Shape
<1>6. TypeOK'
  <2>1. budget' \in Budgets
    BY <1>1, <1>3, TypeParts, DiscoveryAssumption DEF Budgets
  <2>2. docker.waited' \in 0..ConnectTimeout /\ docker.backoff' \in 1..MaxBackoff
    BY <1>5, DiscoveryAssumption
  <2>3. pc' \in Stages
    BY <1>1 DEF Stages
  <2>. QED BY <1>1, <1>3, <1>4, <2>1, <2>2, <2>3 DEF TypeOK, Budgets
<1>7. Shape'
  <2>1. docker.mode' \in DOMAIN Declared
    BY <1>2, <1>5 DEF Declared
  <2>. QED BY <1>1, <1>3, <1>4, <1>5, <2>1 DEF Shape, Going
<1>. QED BY <1>4, <1>6, <1>7 DEF Inv

LEMMA InvConnectRetry ==
  ASSUME Inv, ConnectRetry
  PROVE  Inv'
<1>1. /\ pc = "connect" /\ budget.attempts > 0 /\ budget' = [budget EXCEPT !.attempts = @ - 1]
      /\ IF Wait(docker) <= 0
         THEN pc' = "stopped" /\ UNCHANGED docker
         ELSE /\ docker' = [docker EXCEPT !.waited = @ + Wait(docker), !.backoff = NextBackoff(@)]
              /\ UNCHANGED pc
      /\ UNCHANGED <<world, informer, cycle, known, history>>
  BY DEF ConnectRetry
<1>2. TypeOK /\ Shape
  BY DEF Inv
<1>3. pc' \in {"stopped", "connect"}
  BY <1>1
<1>4. /\ UNCHANGED <<at, left, workloads, found, known, during, throughout, hit>>
      /\ Watching' /\ Traced'
  BY <1>1, <1>3, OutsideStep DEF Going
<1>5. /\ docker.waited' \in 0..ConnectTimeout /\ docker.backoff' \in 1..MaxBackoff /\ docker.mode' = docker.mode
      /\ docker' = [daemon |-> docker'.daemon, mode |-> docker'.mode, backoff |-> docker'.backoff, waited |-> docker'.waited]
  <2>0. /\ docker.waited \in 0..ConnectTimeout /\ docker.backoff \in 1..MaxBackoff
        /\ docker = [daemon |-> docker.daemon, mode |-> docker.mode, backoff |-> docker.backoff, waited |-> docker.waited]
    BY <1>2 DEF TypeOK, Shape
  <2>1. CASE Wait(docker) <= 0
    BY <1>1, <2>0, <2>1
  <2>2. CASE ~(Wait(docker) <= 0)
    <3>1. docker' = [daemon |-> docker.daemon, mode |-> docker.mode, backoff |-> NextBackoff(docker.backoff),
                     waited |-> docker.waited + Wait(docker)]
      BY <1>1, <2>0, <2>2
    <3>2. docker.waited + Wait(docker) \in 0..ConnectTimeout
      BY <2>0, <2>2, DiscoveryAssumption DEF Wait
    <3>3. NextBackoff(docker.backoff) \in 1..MaxBackoff
      BY <2>0, DiscoveryAssumption DEF NextBackoff
    <3>. QED BY <3>1, <3>2, <3>3
  <2>. QED BY <2>1, <2>2
<1>6. TypeOK'
  <2>1. budget' \in Budgets
    BY <1>1, <1>2, TypeParts, DiscoveryAssumption DEF Budgets
  <2>2. pc' \in Stages
    BY <1>3 DEF Stages
  <2>. QED BY <1>1, <1>2, <1>4, <1>5, <2>1, <2>2 DEF TypeOK, Budgets
<1>7. Shape'
  BY <1>1, <1>2, <1>3, <1>4, <1>5 DEF Shape, Going
<1>. QED BY <1>4, <1>6, <1>7 DEF Inv

LEMMA InvStartWatcher ==
  ASSUME Inv, StartWatcher
  PROVE  Inv'
<1>1. /\ pc = "start" /\ pc' = "idle"
      /\ informer' = [i \in Items |-> IF PlatformOf[i] = "kubernetes" THEN world[i] ELSE Absent]
      /\ UNCHANGED <<world, docker, cycle, known, history>>
  BY DEF StartWatcher
<1>2. TypeOK /\ Shape
  BY DEF Inv
<1>3. /\ UNCHANGED <<at, left, workloads, found, known, during, throughout, hit>>
      /\ Watching' /\ Traced'
  BY <1>1, OutsideStep DEF Going
<1>4. budget' \in Budgets
  <2>1. budget \in Budgets
    BY <1>2 DEF TypeOK, Budgets
  <2>. DEFINE all == {"IngressRoute", "HTTPRoute"}
  <2>2. PICK missed \in SUBSET all :
           /\ Cardinality(missed) <= budget.faults
           /\ budget' = [budget EXCEPT !.faults = @ - Cardinality(missed)]
    BY DEF StartWatcher
  <2>3. IsFiniteSet({}) /\ IsFiniteSet({"HTTPRoute"}) /\ IsFiniteSet(all)
    BY FS_EmptySet, FS_AddElement
  <2>4. Cardinality(missed) \in Nat
    BY <2>2, <2>3, FS_Subset, FS_CardinalityType
  <2>5. budget.faults - Cardinality(missed) \in 0..MaxFaults
    BY <2>1, <2>2, <2>4, DiscoveryAssumption DEF Budgets
  <2>. QED BY <2>1, <2>2, <2>5 DEF Budgets
<1>5. TypeOK'
  <2>1. \A i \in Items : world'[i] \in Variants[i] /\ informer'[i] \in Variants[i] \cup {Absent}
    BY <1>1, <1>2 DEF TypeOK
  <2>2. pc' \in Stages
    BY <1>1 DEF Stages
  <2>. QED BY <1>1, <1>2, <1>3, <1>4, <2>1, <2>2 DEF TypeOK, Budgets
<1>6. Shape'
  <2>1. informer' = [i \in Items |-> informer'[i]]
    BY <1>1
  <2>. QED BY <1>1, <1>2, <1>3, <2>1 DEF Shape, Going
<1>. QED BY <1>3, <1>5, <1>6 DEF Inv

\* Steps of a cycle.
LEMMA WatchingStays ==
  ASSUME Watching, UNCHANGED <<world, informer, during>>, Going' => Going
  PROVE  Watching'
BY DEF Watching, Visible

LEMMA InvBegin ==
  ASSUME Inv, Begin
  PROVE  Inv'
<1>1. /\ pc = "idle" /\ pc' = "list" /\ at' = 1 /\ hit' = {}
      /\ during' = {<<i, View[i]>> : i \in Items}
      /\ UNCHANGED <<world, informer, docker, crds, left, workloads, found, known, budget>>
  BY DEF Begin, client
<1>2. TypeOK /\ Shape
  BY DEF Inv
<1>3. workloads = <<>> /\ left = <<>> /\ found = NoMap
  BY <1>1, <1>2 DEF Shape, Going
<1>4. TypeOK'
  <2>1. at' \in 1..(Len(Listers) + 1) /\ pc' \in Stages
    BY <1>1, ListersSeq DEF Stages
  <2>. QED BY <1>1, <1>2, <2>1 DEF TypeOK
<1>5. Shape'
  BY <1>1, <1>2, <1>3 DEF Shape, Going
<1>6. \A i \in Items : View[i] = Visible(i) /\ Visible(i)' = Visible(i) /\ Visible(i) \in Variants[i] \cup {Absent}
  BY <1>1, <1>2 DEF View, Visible, TypeOK
<1>7. Watching'
  <2>1. \A x \in during' : \E i \in Items : x = <<i, View[i]>>
    BY <1>1
  <2>2. \A i \in Items : <<i, View[i]>> \in during'
    BY <1>1
  <2>. HIDE DEF View
  <2>. QED BY <1>6, <2>1, <2>2 DEF Watching
<1>8. Traced'
  BY <1>1, <1>3, EmptyIsSeq, NothingNamed DEF Traced
<1>. QED BY <1>4, <1>5, <1>7, <1>8 DEF Inv

\* The workloads of one listing join those listed before.
LEMMA ListStep ==
  ASSUME Inv, NEW platform, NEW chosen, chosen \subseteq Items, List(platform, chosen)
  PROVE  /\ IsSeq(workloads') /\ ToSet(workloads') = ToSet(workloads) \cup {WorkloadOf(i, View[i]) : i \in chosen}
         /\ pc = "list" /\ pc' = "list" /\ at <= Len(Listers) /\ at' = at + 1 /\ Listers[at][1] = platform
         /\ UNCHANGED <<world, informer, docker, crds, left, found, known, during, throughout, hit, budget>>
<1>1. /\ pc = "list" /\ pc' = pc /\ at <= Len(Listers) /\ at' = at + 1 /\ Listers[at][1] = platform
      /\ UNCHANGED <<world, informer, docker, crds, left, found, known, during, throughout, hit, budget>>
  BY DEF List, client, history
<1>2. PICK order \in SetToSeqs(chosen) :
         workloads' = workloads \o [k \in DOMAIN order |-> WorkloadOf(order[k], View[order[k]])]
  BY Zenon DEF List, MapSeq
<1>. DEFINE new == [k \in DOMAIN order |-> WorkloadOf(order[k], View[order[k]])]
<1>3. IsFiniteSet(chosen)
  BY DiscoveryAssumption, FS_Subset
<1>4. IsSeq(order) /\ ToSet(order) = chosen
  BY <1>3, OrderProps
<1>5. IsSeq(new) /\ DOMAIN new = DOMAIN order
  BY <1>4, MapIsSeq
<1>6. ToSet(new) = {WorkloadOf(i, View[i]) : i \in chosen}
  <2>1. \A k \in DOMAIN order : new[k] = WorkloadOf(order[k], View[order[k]]) /\ order[k] \in chosen
    BY <1>4 DEF ToSet
  <2>2. \A i \in chosen : \E k \in DOMAIN order : order[k] = i
    BY <1>4 DEF ToSet
  <2>. HIDE DEF new
  <2>3. \A w \in ToSet(new) : \E i \in chosen : w = WorkloadOf(i, View[i])
    BY <1>5, <2>1 DEF ToSet
  <2>4. \A i \in chosen : WorkloadOf(i, View[i]) \in ToSet(new)
    BY <1>5, <2>1, <2>2 DEF ToSet
  <2>. QED BY <2>3, <2>4
<1>7. IsSeq(workloads)
  BY DEF Inv, Shape
<1>. HIDE DEF new
<1>8. IsSeq(workloads \o new) /\ ToSet(workloads \o new) = ToSet(workloads) \cup ToSet(new)
  BY <1>5, <1>7, ConcatIsSeq
<1>9. workloads' = workloads \o new
  BY <1>2 DEF new
<1>. QED BY <1>1, <1>6, <1>8, <1>9

LEMMA InvList ==
  ASSUME Inv, NEW platform, NEW chosen, chosen \subseteq Items, List(platform, chosen),
         \A i \in chosen : /\ Visible(i) # Absent /\ PlatformOf[i] \notin {"file", "proxmox"}
                           /\ Lists(docker.mode, i, Visible(i))
  PROVE  Inv'
<1>1. /\ IsSeq(workloads') /\ ToSet(workloads') = ToSet(workloads) \cup {WorkloadOf(i, View[i]) : i \in chosen}
      /\ pc = "list" /\ pc' = "list" /\ at <= Len(Listers) /\ at' = at + 1
      /\ UNCHANGED <<world, informer, docker, crds, left, found, known, during, throughout, hit, budget>>
  BY ListStep
<1>2. TypeOK /\ Shape /\ Watching /\ Traced
  BY DEF Inv
<1>3. \A i \in Items : View[i] = Visible(i) /\ Visible(i) \in Variants[i] \cup {Absent} /\ <<i, Visible(i)>> \in during
  BY <1>1, <1>2 DEF View, Visible, TypeOK, Watching, Going
<1>4. \A i \in chosen : FromListing(WorkloadOf(i, View[i]))
  <2>. SUFFICES ASSUME NEW i \in chosen PROVE FromListing(WorkloadOf(i, View[i]))
    OBVIOUS
  <2>. DEFINE obj == Visible(i)
  <2>1. /\ i \in Items /\ View[i] = obj /\ obj \in Variants[i] /\ <<i, obj>> \in during /\ obj # Absent
        /\ PlatformOf[i] \notin {"file", "proxmox"} /\ Lists(docker.mode, i, obj)
    BY <1>3
  <2>. HIDE DEF obj
  <2>. QED BY <2>1 DEF FromListing
<1>5. TypeOK'
  <2>1. at' \in 1..(Len(Listers) + 1)
    BY <1>1, <1>2, ListersSeq DEF TypeOK
  <2>. QED BY <1>1, <1>2, <2>1 DEF TypeOK
<1>6. Shape'
  BY <1>1, <1>2 DEF Shape, Going
<1>7. Watching'
  BY <1>1, <1>2, WatchingStays DEF Going
<1>8. Traced'
  <2>1. (\A w : FromListing(w) => FromListing(w)') /\ (\A w : FromGuest(w) => FromGuest(w)')
    BY <1>1, Persist
  <2>2. \A w \in ToSet(workloads)' : w \in ToSet(workloads) \/ \E i \in chosen : w = WorkloadOf(i, View[i])
    BY <1>1
  <2>3. \A w \in ToSet(workloads) : FromListing(w) \/ FromGuest(w)
    BY <1>2 DEF Traced
  <2>4. \A w \in ToSet(workloads)' : FromListing(w) \/ FromGuest(w)
    BY <1>4, <2>2, <2>3
  <2>5. \A w \in ToSet(workloads)' : FromListing(w)' \/ FromGuest(w)'
    BY <2>1, <2>4
  <2>6. DOMAIN found' = {}
    BY <1>1, <1>2, NothingNamed DEF Shape
  <2>. QED BY <1>1, <2>5, <2>6 DEF Traced
<1>. QED BY <1>5, <1>6, <1>7, <1>8 DEF Inv

LEMMA InvListings ==
  ASSUME Inv, ListDocker \/ ListKubernetes \/ ListIncus
  PROVE  Inv'
<1>1. CASE ListDocker
  <2>. DEFINE S == {i \in Of("docker") : world[i] # Absent /\ DockerLists(docker.mode, world[i])}
  <2>1. List("docker", S)
    BY <1>1 DEF ListDocker
  <2>2. S \subseteq Items /\ \A i \in S : /\ Visible(i) # Absent /\ PlatformOf[i] \notin {"file", "proxmox"}
                                          /\ Lists(docker.mode, i, Visible(i))
    BY DEF Of, Visible, Lists
  <2>. HIDE DEF S
  <2>. QED BY <2>1, <2>2, InvList
<1>2. CASE ListKubernetes
  <2>. DEFINE S == {i \in Of("kubernetes") :
                      /\ informer[i] # Absent
                      /\ Watched(informer[i])
                      /\ KubernetesLists(informer[i])}
  <2>1. List("kubernetes", S)
    BY <1>2 DEF ListKubernetes
  <2>2. S \subseteq Items /\ \A i \in S : /\ Visible(i) # Absent /\ PlatformOf[i] \notin {"file", "proxmox"}
                                          /\ Lists(docker.mode, i, Visible(i))
    BY DEF Of, Visible, Lists
  <2>. HIDE DEF S
  <2>. QED BY <2>1, <2>2, InvList
<1>3. CASE ListIncus
  <2>. DEFINE S == {i \in Of("incus") : world[i] # Absent /\ IncusLists(world[i], Listers[at][2])}
  <2>1. List("incus", S)
    BY <1>3 DEF ListIncus
  <2>2. \A i \in S : i \in Items /\ PlatformOf[i] = "incus" /\ world[i] # Absent /\ IncusLists(world[i], Listers[at][2])
    BY DEF Of
  <2>3. S \subseteq Items
    BY <2>2
  <2>. HIDE DEF S
  <2>4. at \in DOMAIN Listers /\ Listers[at][1] = "incus"
    BY <2>1, <2>3, ListStep, ListersSeq DEF Inv, TypeOK
  <2>5. PICK j \in DOMAIN IncusListers : Listers[at] = IncusListers[j]
    BY <2>4, IncusLister
  <2>6. \A i \in S : /\ Visible(i) # Absent /\ PlatformOf[i] \notin {"file", "proxmox"}
                     /\ Lists(docker.mode, i, Visible(i))
    BY <2>2, <2>5 DEF Visible, Lists
  <2>. QED BY <2>1, <2>3, <2>6, InvList
<1>. QED BY <1>1, <1>2, <1>3

\* The guests of one listing wait for their addresses.
LEMMA ClusterStep ==
  ASSUME Inv, ListClusterResources
  PROVE  /\ IsSeq(left')
         /\ ToSet(left') = {<<i, world[i]>> : i \in {x \in Of("proxmox") : world[x] # Absent /\ ProxmoxLists(world[x])}}
         /\ pc = "list" /\ pc' = "resolve" /\ at <= Len(Listers) /\ Listers[at][1] = "proxmox"
         /\ UNCHANGED <<world, informer, docker, crds, at, workloads, found, known, during, throughout, hit, budget>>
<1>. DEFINE chosen == {i \in Of("proxmox") : world[i] # Absent /\ ProxmoxLists(world[i])}
<1>1. /\ pc = "list" /\ pc' = "resolve" /\ at <= Len(Listers) /\ Listers[at][1] = "proxmox"
      /\ UNCHANGED <<world, informer, docker, crds, at, workloads, found, known, during, throughout, hit, budget>>
  BY DEF ListClusterResources, client, history
<1>2. PICK order \in SetToSeqs(chosen) : left' = [k \in DOMAIN order |-> <<order[k], world[order[k]]>>]
  BY Zenon DEF ListClusterResources, MapSeq
<1>3. chosen \subseteq Items
  BY DEF Of
<1>. HIDE DEF chosen
<1>4. IsFiniteSet(chosen)
  BY <1>3, DiscoveryAssumption, FS_Subset
<1>5. IsSeq(order) /\ ToSet(order) = chosen
  BY <1>4, OrderProps
<1>6. IsSeq(left') /\ DOMAIN left' = DOMAIN order
  BY <1>2, <1>5, MapIsSeq
<1>7. ToSet(left') = {<<i, world[i]>> : i \in chosen}
  <2>1. \A k \in DOMAIN order : left'[k] = <<order[k], world[order[k]]>> /\ order[k] \in chosen
    BY <1>2, <1>5 DEF ToSet
  <2>2. \A i \in chosen : \E k \in DOMAIN order : order[k] = i
    BY <1>5 DEF ToSet
  <2>3. \A g \in ToSet(left') : \E i \in chosen : g = <<i, world[i]>>
    BY <1>6, <2>1 DEF ToSet
  <2>4. \A i \in chosen : <<i, world[i]>> \in ToSet(left')
    BY <1>6, <2>1, <2>2 DEF ToSet
  <2>. QED BY <2>3, <2>4
<1>. QED BY <1>1, <1>6, <1>7 DEF chosen

LEMMA InvListClusterResources ==
  ASSUME Inv, ListClusterResources
  PROVE  Inv'
<1>. DEFINE chosen == {x \in Of("proxmox") : world[x] # Absent /\ ProxmoxLists(world[x])}
<1>1. /\ IsSeq(left') /\ ToSet(left') = {<<i, world[i]>> : i \in chosen}
      /\ pc = "list" /\ pc' = "resolve" /\ at <= Len(Listers) /\ Listers[at][1] = "proxmox"
      /\ UNCHANGED <<world, informer, docker, crds, at, workloads, found, known, during, throughout, hit, budget>>
  BY ClusterStep
<1>2. TypeOK /\ Shape /\ Watching /\ Traced
  BY DEF Inv
<1>3. \A i \in chosen : i \in Items /\ PlatformOf[i] = "proxmox" /\ world[i] # Absent /\ ProxmoxLists(world[i])
  BY DEF Of
<1>. HIDE DEF chosen
<1>4. TypeOK'
  <2>1. pc' \in Stages
    BY <1>1 DEF Stages
  <2>. QED BY <1>1, <1>2, <2>1 DEF TypeOK
<1>5. Shape'
  BY <1>1, <1>2 DEF Shape, Going
<1>6. Watching'
  BY <1>1, <1>2, WatchingStays DEF Going
<1>7. Traced'
  <2>1. \A g \in ToSet(left') : GuestOf(g)
    <3>1. \A i \in chosen : Visible(i) = world[i] /\ world[i] \in Variants[i] /\ <<i, Visible(i)>> \in during
      BY <1>1, <1>2, <1>3 DEF Visible, TypeOK, Watching, Going
    <3>2. \A g \in ToSet(left') : \E i \in chosen : g = <<i, world[i]>>
      BY <1>1
    <3>. QED BY <1>3, <3>1, <3>2 DEF GuestOf
  <2>2. /\ \A w : FromListing(w) => FromListing(w)'
        /\ \A w : FromGuest(w) => FromGuest(w)'
        /\ \A g : GuestOf(g) => GuestOf(g)'
        /\ \A n : Carried(n) => Carried(n)'
    BY <1>1, Persist
  <2>. QED BY <1>1, <1>2, <2>1, <2>2 DEF Traced
<1>. QED BY <1>4, <1>5, <1>6, <1>7 DEF Inv

LEMMA InvResolveGuest ==
  ASSUME Inv, ResolveGuest
  PROVE  Inv'
<1>. DEFINE i == left[1][1]
            listed == left[1][2]
            answers == /\ world[i] # Absent /\ ResolvesIP(listed)
                       /\ world[i].node = listed.node /\ world[i].type = listed.type
            w == ProxmoxWorkload(i, listed, ResolveIP(world[i], listed.tags))
<1>1. /\ pc = "resolve" /\ left # <<>> /\ left' = Tail(left)
      /\ UNCHANGED <<world, informer, docker, crds, pc, at, found, known, during, throughout>>
      /\ \/ /\ workloads' = IF answers THEN Append(workloads, w) ELSE workloads
            /\ UNCHANGED <<hit, budget>>
         \/ Fault /\ hit' = hit \cup {i} /\ UNCHANGED workloads
  BY DEF ResolveGuest, client
<1>2. TypeOK /\ Shape /\ Watching /\ Traced
  BY DEF Inv
<1>3. IsSeq(left) /\ IsSeq(workloads)
  BY <1>2 DEF Shape
<1>4. IsSeq(left') /\ left[1] \in ToSet(left) /\ ToSet(left) = {left[1]} \cup ToSet(left')
  BY <1>1, <1>3, TailIsSeq
<1>5. GuestOf(left[1])
  BY <1>1, <1>2, <1>4 DEF Traced
<1>6. /\ i \in Items /\ listed \in Variants[i] /\ listed # Absent /\ <<i, listed>> \in during
      /\ PlatformOf[i] = "proxmox" /\ ProxmoxLists(listed)
  BY <1>5 DEF GuestOf
<1>. HIDE DEF i, listed, w
<1>7. answers => FromGuest(w)
  <2>. SUFFICES ASSUME answers PROVE FromGuest(w)
    OBVIOUS
  <2>1. world[i] \in Variants[i] /\ <<i, world[i]>> \in during
    BY <1>1, <1>2, <1>6 DEF TypeOK, Watching, Visible, Going
  <2>. QED BY <1>6, <2>1 DEF FromGuest, w
<1>. HIDE DEF answers
<1>8. IsSeq(workloads') /\ \A v \in ToSet(workloads') : v \in ToSet(workloads) \/ (answers /\ v = w)
  <2>1. IsSeq(Append(workloads, w)) /\ ToSet(Append(workloads, w)) = ToSet(workloads) \cup {w}
    BY <1>3, AppendIsSeq
  <2>. QED BY <1>1, <1>3, <2>1
<1>9. TypeOK'
  <2>1. budget' \in Budgets
    BY <1>1, <1>2, FaultBudget DEF TypeOK, Budgets
  <2>2. hit' \subseteq Items
    BY <1>1, <1>2, <1>6 DEF TypeOK
  <2>. QED BY <1>1, <1>2, <2>1, <2>2 DEF TypeOK, Budgets
<1>10. Shape'
  BY <1>1, <1>2, <1>4, <1>8 DEF Shape, Going
<1>11. Watching'
  BY <1>1, <1>2, WatchingStays DEF Going
<1>12. Traced'
  <2>1. /\ \A v : FromListing(v) => FromListing(v)'
        /\ \A v : FromGuest(v) => FromGuest(v)'
        /\ \A g : GuestOf(g) => GuestOf(g)'
        /\ \A n : Carried(n) => Carried(n)'
    BY <1>1, Persist
  <2>2. \A v \in ToSet(workloads)' : FromListing(v) \/ FromGuest(v)
    BY <1>2, <1>7, <1>8 DEF Traced
  <2>3. \A g \in ToSet(left)' : GuestOf(g)
    BY <1>1, <1>2, <1>4 DEF Traced
  <2>4. \A n \in DOMAIN found' : Carried(n)
    BY <1>1, <1>2 DEF Traced
  <2>. QED BY <1>1, <2>1, <2>2, <2>3, <2>4 DEF Traced
<1>. QED BY <1>9, <1>10, <1>11, <1>12 DEF Inv

LEMMA InvGuestsResolved ==
  ASSUME Inv, GuestsResolved
  PROVE  Inv'
<1>1. /\ pc = "resolve" /\ left = <<>> /\ pc' = "list" /\ at' = at + 1
      /\ UNCHANGED <<world, informer, docker, crds, left, workloads, found, known, during, throughout, hit, budget>>
  BY DEF GuestsResolved, client, history
<1>2. TypeOK /\ Shape /\ Watching /\ Traced
  BY DEF Inv
<1>3. TypeOK'
  <2>1. at' \in 1..(Len(Listers) + 1)
    BY <1>1, <1>2, ListersSeq DEF TypeOK, Shape
  <2>2. pc' \in Stages
    BY <1>1 DEF Stages
  <2>. QED BY <1>1, <1>2, <2>1, <2>2 DEF TypeOK
<1>4. Shape'
  BY <1>1, <1>2 DEF Shape, Going
<1>5. Watching'
  BY <1>1, <1>2, WatchingStays DEF Going
<1>6. Traced'
  <2>1. /\ \A w : FromListing(w) => FromListing(w)'
        /\ \A w : FromGuest(w) => FromGuest(w)'
        /\ \A n : Carried(n) => Carried(n)'
    BY <1>1, Persist
  <2>. QED BY <1>1, <1>2, <2>1 DEF Traced
<1>. QED BY <1>3, <1>4, <1>5, <1>6 DEF Inv

LEMMA InvListFails ==
  ASSUME Inv, ListFails
  PROVE  Inv'
<1>1. /\ pc = "list" /\ Fault /\ pc' = "idle" /\ workloads' = <<>> /\ during' = {} /\ throughout' = {} /\ hit' = {}
      /\ UNCHANGED <<world, informer, docker, crds, at, left, found, known>>
  BY DEF ListFails, client
<1>2. TypeOK /\ Shape /\ Watching /\ Traced
  BY DEF Inv
<1>3. TypeOK'
  <2>1. budget' \in Budgets
    BY <1>1, <1>2, FaultBudget DEF TypeOK, Budgets
  <2>2. pc' \in Stages
    BY <1>1 DEF Stages
  <2>. QED BY <1>1, <1>2, <2>1, <2>2 DEF TypeOK, Budgets
<1>4. Shape'
  BY <1>1, <1>2, EmptyIsSeq DEF Shape, Going
<1>5. Watching'
  BY <1>1 DEF Watching, Going
<1>6. Traced'
  <2>1. DOMAIN found' = {} /\ ToSet(workloads') = {}
    BY <1>1, <1>2, NothingNamed, EmptyIsSeq DEF Shape
  <2>. QED BY <1>1, <2>1 DEF Traced
<1>. QED BY <1>3, <1>4, <1>5, <1>6 DEF Inv

LEMMA InvWorkloadsListed ==
  ASSUME Inv, WorkloadsListed
  PROVE  Inv'
<1>1. /\ pc = "list" /\ at > Len(Listers) /\ pc' = "extract"
      /\ UNCHANGED <<world, informer, docker, crds, at, left, workloads, found, known, during, throughout, hit, budget>>
  BY DEF WorkloadsListed, client, cycle, history
<1>2. TypeOK /\ Shape /\ Watching /\ Traced
  BY DEF Inv
<1>3. TypeOK'
  <2>1. pc' \in Stages
    BY <1>1 DEF Stages
  <2>. QED BY <1>1, <1>2, <2>1 DEF TypeOK
<1>4. Shape'
  BY <1>1, <1>2 DEF Shape, Going
<1>5. Watching'
  BY <1>1, <1>2, WatchingStays DEF Going
<1>6. Traced'
  <2>1. /\ \A w : FromListing(w) => FromListing(w)'
        /\ \A w : FromGuest(w) => FromGuest(w)'
        /\ \A n : Carried(n) => Carried(n)'
    BY <1>1, Persist
  <2>. QED BY <1>1, <1>2, <2>1 DEF Traced
<1>. QED BY <1>3, <1>4, <1>5, <1>6 DEF Inv

\* A merged report keeps the names under their normal form and adds carried ones only.
LEMMA MergeStep ==
  ASSUME NEW f, Keyed(f), NEW es, IsSeq(es),
         \A e \in ToSet(es) : Validate(e) => Carried(NormalizeHostname(e.host)),
         \A n \in DOMAIN f : Carried(n)
  PROVE  Keyed(Merge(f, es)) /\ \A n \in DOMAIN Merge(f, es) : Carried(n)
<1>1. Keyed(Merge(f, es))
  BY MergeSame DEF Keyed
<1>2. ASSUME NEW n \in DOMAIN Merge(f, es) PROVE Carried(n)
  <2>1. CASE n \in DOMAIN f
    BY <2>1
  <2>2. CASE n \notin DOMAIN f
    <3>1. n \in ValidNames(es) \ DOMAIN f
      BY <1>2, <2>2, MergeProps
    <3>2. PICK e \in ToSet(es) : Validate(e) /\ NormalizeHostname(e.host) = n
      BY <3>1, MergeNew
    <3>. QED BY <3>2
  <2>. QED BY <2>1, <2>2
<1>. QED BY <1>1, <1>2

LEMMA InvExtractHostnames ==
  ASSUME Inv, ExtractHostnames
  PROVE  Inv'
<1>1. /\ pc = "extract" /\ workloads # <<>> /\ workloads' = Tail(workloads)
      /\ UNCHANGED <<world, informer, docker, crds, pc, at, left, known, during, throughout, hit, budget>>
  BY DEF ExtractHostnames, client, history
<1>2. PICK es \in ExtractAll(workloads[1], Registered) : found' = Merge(found, es)
  BY DEF ExtractHostnames
<1>3. TypeOK /\ Shape /\ Watching /\ Traced
  BY DEF Inv
<1>4. IsSeq(workloads) /\ docker.mode \in DOMAIN Declared
  BY <1>3 DEF Shape
<1>5. IsSeq(workloads') /\ workloads[1] \in ToSet(workloads) /\ ToSet(workloads) = {workloads[1]} \cup ToSet(workloads')
  BY <1>1, <1>4, TailIsSeq
<1>. DEFINE w == workloads[1]
<1>6. (FromListing(w) \/ FromGuest(w)) /\ es \in ExtractAll(w, Registered)
  BY <1>2, <1>3, <1>5 DEF Traced
<1>. HIDE DEF w
<1>7. IsSeq(es)
  BY <1>6, TracedWorkload, RegisteredSources, ExtractAllProps
<1>8. \A e \in ToSet(es) : Validate(e) => Carried(NormalizeHostname(e.host))
  BY <1>4, <1>6, TracedNames
<1>9. Keyed(found) /\ \A n \in DOMAIN found : Carried(n)
  BY <1>3, TypeParts DEF Traced
<1>10. Keyed(found') /\ \A n \in DOMAIN found' : Carried(n)
  BY <1>2, <1>7, <1>8, <1>9, MergeStep
<1>11. TypeOK'
  BY <1>1, <1>3, <1>10 DEF TypeOK, Keyed
<1>12. Shape'
  BY <1>1, <1>3, <1>5 DEF Shape, Going
<1>13. Watching'
  BY <1>1, <1>3, WatchingStays DEF Going
<1>14. Traced'
  <2>1. /\ \A v : FromListing(v) => FromListing(v)'
        /\ \A v : FromGuest(v) => FromGuest(v)'
        /\ \A n : Carried(n) => Carried(n)'
    BY <1>1, Persist
  <2>2. \A v \in ToSet(workloads)' : FromListing(v) \/ FromGuest(v)
    BY <1>3, <1>5 DEF Traced
  <2>3. \A n \in DOMAIN found' : Carried(n)'
    BY <1>10, <2>1
  <2>. QED BY <1>1, <2>1, <2>2, <2>3 DEF Traced
<1>. QED BY <1>11, <1>12, <1>13, <1>14 DEF Inv

\* The files that are there when the walk finds them.
LEMMA FilesFound ==
  LET there == Filter(FileOrder, LAMBDA i : world[i] # Absent)
  IN  IsSeq(there) /\ ToSet(there) = {i \in Of("file") : world[i] # Absent}
<1>. DEFINE P == {k \in DOMAIN FileOrder : world[FileOrder[k]] # Absent}
            fs == Chosen(FileOrder, P)
<1>1. Filter(FileOrder, LAMBDA i : world[i] # Absent) = fs
  BY DEF Filter
<1>2. IsSeq(FileOrder) /\ ToSet(FileOrder) = Of("file")
  BY DiscoveryAssumption DEF Of
<1>3. IsSeq(fs) /\ ToSet(fs) = {FileOrder[k] : k \in P \cap DOMAIN FileOrder}
  BY <1>2, ChosenProps
<1>. HIDE DEF fs
<1>4. ToSet(fs) = {i \in Of("file") : world[i] # Absent}
  <2>1. \A i \in ToSet(fs) : i \in Of("file") /\ world[i] # Absent
    BY <1>2, <1>3 DEF ToSet
  <2>2. \A i \in Of("file") : world[i] # Absent => i \in ToSet(fs)
    BY <1>2, <1>3 DEF ToSet
  <2>. QED BY <2>1, <2>2
<1>. QED BY <1>1, <1>3, <1>4

LEMMA InvFindFiles ==
  ASSUME Inv, FindFiles
  PROVE  Inv'
<1>. DEFINE fs == Filter(FileOrder, LAMBDA i : world[i] # Absent)
<1>1. /\ pc = "extract" /\ workloads = <<>> /\ pc' = "files"
      /\ UNCHANGED <<world, informer, docker, crds, at, workloads, found, known, during, throughout>>
      /\ \/ left' = fs /\ UNCHANGED <<hit, budget>>
         \/ Fault /\ left' = <<>> /\ hit' = hit \cup Of("file")
  BY DEF FindFiles, client
<1>2. IsSeq(fs) /\ ToSet(fs) = {i \in Of("file") : world[i] # Absent}
  BY FilesFound
<1>. HIDE DEF fs
<1>3. TypeOK /\ Shape /\ Watching /\ Traced
  BY DEF Inv
<1>4. IsSeq(left') /\ ToSet(left') \subseteq Of("file")
  BY <1>1, <1>2, EmptyIsSeq
<1>5. TypeOK'
  <2>1. budget' \in Budgets
    BY <1>1, <1>3, FaultBudget DEF TypeOK, Budgets
  <2>2. hit' \subseteq Items
    BY <1>1, <1>3 DEF TypeOK, Of
  <2>3. pc' \in Stages
    BY <1>1 DEF Stages
  <2>. QED BY <1>1, <1>3, <2>1, <2>2, <2>3 DEF TypeOK, Budgets
<1>6. Shape'
  BY <1>1, <1>3, <1>4 DEF Shape, Going
<1>7. Watching'
  BY <1>1, <1>3, WatchingStays DEF Going
<1>8. Traced'
  <2>1. \A n : Carried(n) => Carried(n)'
    BY <1>1, Persist
  <2>2. ToSet(workloads)' = {}
    BY <1>1, EmptyIsSeq
  <2>3. \A i \in ToSet(left)' : i \in Items /\ PlatformOf[i] = "file"
    BY <1>4 DEF Of
  <2>. QED BY <1>1, <1>3, <2>1, <2>2, <2>3 DEF Traced
<1>. QED BY <1>5, <1>6, <1>7, <1>8 DEF Inv

\* The reports of a file that parses.
LEMMA ParsedFile ==
  ASSUME Inv, pc = "files", NEW i \in Items, PlatformOf[i] = "file", world[i] # Absent, ~world[i].torn,
         NEW xs \in ExtractFromConfig(world[i].routers), NEW es, es = MapSeq(TraefikHostname, xs)
  PROVE  /\ IsSeq(es) /\ \A e \in ToSet(es) : e.source = "traefik"
         /\ \A e \in ToSet(es) : Validate(e) => Carried(NormalizeHostname(e.host))
<1>. DEFINE obj == world[i]
            x == <<i, obj>>
<1>1. obj \in Variants[i] /\ x \in during /\ docker.mode \in DOMAIN Declared
  BY DEF Inv, TypeOK, Shape, Watching, Visible, Going
<1>2. IsFileObject(obj)
  BY <1>1, KnownObject
<1>3. IsSeq(MapSeq(TraefikHostname, xs)) /\ \A e \in ToSet(MapSeq(TraefikHostname, xs)) : e.source = "traefik"
  BY <1>2, FileReports DEF IsFileObject
<1>4. \A e \in ToSet(MapSeq(TraefikHostname, xs)) : Validate(e) => NormalizeHostname(e.host) \in Carries(i, obj)
  BY <1>1, CarriedFile
<1>5. x[1] = i /\ x[2] = obj
  OBVIOUS
<1>. HIDE DEF x, obj
<1>6. \A n \in Carries(i, obj) : Carried(n)
  BY <1>1, <1>5 DEF Carried
<1>. QED BY <1>3, <1>4, <1>6

LEMMA InvParseConfigFile ==
  ASSUME Inv, ParseConfigFile
  PROVE  Inv'
<1>. DEFINE i == left[1]
<1>1. /\ pc = "files" /\ left # <<>> /\ left' = Tail(left)
      /\ UNCHANGED <<world, informer, docker, crds, pc, at, workloads, known, during, throughout>>
      /\ UNCHANGED <<hit, budget>> \/ (Fault /\ hit' = hit \cup {i})
      /\ \/ UNCHANGED found
         \/ /\ world[i] # Absent /\ ~world[i].torn
            /\ \E xs \in ExtractFromConfig(world[i].routers) : found' = Merge(found, MapSeq(TraefikHostname, xs))
  BY DEF ParseConfigFile, client, history
<1>2. TypeOK /\ Shape /\ Watching /\ Traced
  BY DEF Inv
<1>3. IsSeq(left)
  BY <1>2 DEF Shape
<1>4. IsSeq(left') /\ i \in ToSet(left) /\ ToSet(left) = {i} \cup ToSet(left')
  BY <1>1, <1>3, TailIsSeq
<1>5. i \in Items /\ PlatformOf[i] = "file"
  BY <1>1, <1>2, <1>4 DEF Traced
<1>. HIDE DEF i
<1>6. Keyed(found) /\ \A n \in DOMAIN found : Carried(n)
  BY <1>2, TypeParts DEF Traced
<1>7. Keyed(found') /\ \A n \in DOMAIN found' : Carried(n)
  <2>1. CASE UNCHANGED found
    BY <1>6, <2>1 DEF Keyed
  <2>2. CASE ~UNCHANGED found
    <3>1. PICK xs \in ExtractFromConfig(world[i].routers) : found' = Merge(found, MapSeq(TraefikHostname, xs))
      BY <1>1, <2>2
    <3>2. world[i] # Absent /\ ~world[i].torn
      BY <1>1, <2>2
    <3>. DEFINE es == MapSeq(TraefikHostname, xs)
    <3>3. IsSeq(es) /\ \A e \in ToSet(es) : Validate(e) => Carried(NormalizeHostname(e.host))
      BY <1>1, <1>5, <3>2, ParsedFile
    <3>. HIDE DEF es
    <3>4. found' = Merge(found, es)
      BY <3>1 DEF es
    <3>. QED BY <1>6, <3>3, <3>4, MergeStep
  <2>. QED BY <2>1, <2>2
<1>8. TypeOK'
  <2>1. budget \in Budgets
    BY <1>2 DEF TypeOK, Budgets
  <2>2. budget' \in Budgets /\ hit' \subseteq Items
    BY <1>1, <1>2, <1>5, <2>1, FaultBudget DEF TypeOK
  <2>. QED BY <1>1, <1>2, <1>7, <2>2 DEF TypeOK, Keyed, Budgets
<1>9. Shape'
  BY <1>1, <1>2, <1>4 DEF Shape, Going
<1>10. Watching'
  BY <1>1, <1>2, WatchingStays DEF Going
<1>11. Traced'
  <2>1. /\ \A v : FromListing(v) => FromListing(v)'
        /\ \A v : FromGuest(v) => FromGuest(v)'
        /\ \A n : Carried(n) => Carried(n)'
    BY <1>1, Persist
  <2>2. \A n \in DOMAIN found' : Carried(n)'
    BY <1>7, <2>1
  <2>3. \A j \in ToSet(left)' : j \in Items /\ PlatformOf[j] = "file"
    BY <1>1, <1>2, <1>4 DEF Traced
  <2>. QED BY <1>1, <1>2, <2>1, <2>2, <2>3 DEF Traced
<1>. QED BY <1>8, <1>9, <1>10, <1>11 DEF Inv

LEMMA InvPublish ==
  ASSUME Inv, Publish
  PROVE  Inv'
<1>1. /\ pc = "files" /\ left = <<>> /\ known' = found /\ pc' = "done"
      /\ UNCHANGED <<world, informer, docker, crds, at, left, workloads, found, during, throughout, hit, budget>>
  BY DEF Publish, client, cycle, history
<1>2. TypeOK /\ Shape /\ Watching /\ Traced
  BY DEF Inv
<1>3. TypeOK'
  <2>1. pc' \in Stages
    BY <1>1 DEF Stages
  <2>. QED BY <1>1, <1>2, <2>1 DEF TypeOK
<1>4. Shape'
  BY <1>1, <1>2 DEF Shape, Going
<1>5. Watching'
  BY <1>1, <1>2, WatchingStays DEF Going
<1>6. Traced'
  <2>1. /\ \A w : FromListing(w) => FromListing(w)'
        /\ \A w : FromGuest(w) => FromGuest(w)'
        /\ \A n : Carried(n) => Carried(n)'
    BY <1>1, Persist
  <2>. QED BY <1>1, <1>2, <2>1 DEF Traced
<1>. QED BY <1>3, <1>4, <1>5, <1>6 DEF Inv

LEMMA InvRest ==
  ASSUME Inv, Rest
  PROVE  Inv'
<1>1. /\ pc = "done" /\ pc' = "idle" /\ found' = NoMap /\ during' = {} /\ throughout' = {} /\ hit' = {}
      /\ UNCHANGED <<world, informer, docker, crds, at, left, workloads, known, budget>>
  BY DEF Rest, client
<1>2. TypeOK /\ Shape /\ Watching /\ Traced
  BY DEF Inv
<1>3. TypeOK'
  <2>1. pc' \in Stages
    BY <1>1 DEF Stages
  <2>2. Keyed(found')
    BY <1>1, NothingNamed
  <2>. QED BY <1>1, <1>2, <2>1, <2>2 DEF TypeOK, Keyed
<1>4. Shape'
  BY <1>1, <1>2 DEF Shape, Going
<1>5. Watching'
  BY <1>1 DEF Watching, Going
<1>6. Traced'
  <2>1. DOMAIN found' = {} /\ ToSet(workloads') = {}
    BY <1>1, <1>2, NothingNamed, EmptyIsSeq DEF Shape
  <2>. QED BY <1>1, <2>1 DEF Traced
<1>. QED BY <1>3, <1>4, <1>5, <1>6 DEF Inv

LEMMA InvStutter ==
  ASSUME Inv, UNCHANGED vars
  PROVE  Inv'
<1>1. UNCHANGED <<world, informer, docker, crds, pc, at, left, workloads, found, known, during, throughout, hit, budget>>
  BY DEF vars, client, cycle, history
<1>2. TypeOK /\ Shape /\ Watching /\ Traced
  BY DEF Inv
<1>3. TypeOK'
  BY <1>1, <1>2 DEF TypeOK
<1>4. Shape'
  BY <1>1, <1>2 DEF Shape, Going
<1>5. Watching'
  BY <1>1, <1>2, WatchingStays DEF Going
<1>6. Traced'
  BY <1>1, <1>2, TracedStays
<1>. QED BY <1>3, <1>4, <1>5, <1>6 DEF Inv

LEMMA InvNext ==
  ASSUME Inv, [Next]_vars
  PROVE  Inv'
<1>1. CASE Start
  BY <1>1, InvConnect, InvStartWatcher DEF Start
<1>2. CASE Cycle
  BY <1>2, InvBegin, InvListings, InvListClusterResources, InvResolveGuest, InvGuestsResolved,
     InvWorkloadsListed, InvExtractHostnames, InvFindFiles, InvParseConfigFile, InvPublish, InvRest DEF Cycle
<1>3. CASE ConnectRetry
  BY <1>3, InvConnectRetry
<1>4. CASE ListFails
  BY <1>4, InvListFails
<1>5. CASE \E i \in Items : Change(i) \/ Sync(i)
  BY <1>5, InvChange, InvSync
<1>6. CASE UNCHANGED vars
  BY <1>6, InvStutter
<1>. QED BY <1>1, <1>2, <1>3, <1>4, <1>5, <1>6 DEF Next

LEMMA DiscoveryInvariant == Spec => []Inv
<1>1. Init => Inv
  BY InvInit
<1>2. Inv /\ [Next]_vars => Inv'
  BY InvNext
<1>. QED BY <1>1, <1>2, PTL DEF Spec

\* Connecting to Docker never waits past DNSWEAVER_DOCKER_CONNECT_TIMEOUT, and every name a
\* cycle finds or remembers is valid and stands under its normal form, whatever the objects,
\* their changes and the calls that fail.
THEOREM DiscoveryTypes == Spec => []TypeOK
<1>1. Inv => TypeOK
  BY DEF Inv
<1>. QED BY <1>1, DiscoveryInvariant, PTL

\* Every name that a complete cycle remembers was carried, at some moment of that cycle, by
\* an object that its lister takes and that is not opted out, or by a file that parses:
\* workload and names are traced to the object from the listing to Publish.
THEOREM NoNameInvented == Spec => []NothingInvented
<1>1. Inv => NothingInvented
  <2>. SUFFICES ASSUME Inv, pc = "done", NEW n \in DOMAIN known
                PROVE  \E x \in during : n \in Carries(x[1], x[2])
    BY DEF NothingInvented
  <2>1. known = found /\ \A m \in DOMAIN found : Carried(m)
    BY DEF Inv, Shape, Traced
  <2>. QED BY <2>1 DEF Carried
<1>. QED BY <1>1, DiscoveryInvariant, PTL

-----------------------------------------------------------------------------
(* The addresses of guests. *)

\* The addresses that resolution may return are reachable ones.
LEMMA ReachableProps ==
  ASSUME NEW obj, obj # Absent, AreInterfaces(obj.ifaces)
  PROVE  /\ OnLan(obj.ifaces) \cap Routable \subseteq Reachable(obj)
         /\ "net0" \in DOMAIN obj => {obj.net0} \cap Routable \subseteq Reachable(obj)
<1>. DEFINE fs == obj.ifaces
            parts == [j \in DOMAIN fs |-> IF fs[j].name = "lo" THEN <<>> ELSE fs[j].addrs]
            flat == FlattenSeq(parts)
<1>1. Reachable(obj) = (ToSet(flat) \cup (IF "net0" \in DOMAIN obj THEN {obj.net0} ELSE {})) \cap Routable
  BY DEF Reachable, MapSeq
<1>2. IsSeq(fs) /\ \A j \in DOMAIN fs : IsSeq(fs[j].addrs)
  BY DEF AreInterfaces
<1>3. IsSeq(parts) /\ DOMAIN parts = DOMAIN fs /\ \A j \in DOMAIN parts : IsSeq(parts[j])
  <2>1. IsSeq(parts) /\ DOMAIN parts = DOMAIN fs
    BY <1>2, MapIsSeq
  <2>. QED BY <1>2, <2>1, EmptyIsSeq
<1>4. \A j \in DOMAIN fs : fs[j].name # "lo" => parts[j] = fs[j].addrs
  OBVIOUS
<1>5. OnLan(fs) = UNION {ToSet(fs[j].addrs) : j \in {x \in DOMAIN fs : fs[x].name # "lo"}}
  BY DEF OnLan
<1>. HIDE DEF fs, parts
<1>6. ToSet(flat) = UNION {ToSet(parts[j]) : j \in DOMAIN parts}
  BY <1>3, FlattenProps
<1>. HIDE DEF flat
<1>7. OnLan(fs) \subseteq ToSet(flat)
  BY <1>3, <1>4, <1>5, <1>6
<1>8. OnLan(fs) \cap Routable \subseteq Reachable(obj)
  BY <1>1, <1>7
<1>9. "net0" \in DOMAIN obj => {obj.net0} \cap Routable \subseteq Reachable(obj)
  BY <1>1
<1>. QED BY <1>8, <1>9 DEF fs

\* A target taken from a guest is an address it had in this cycle.
LiveEntry(e) ==
    e.source \in {"proxmox", "incus"} /\ e.hints.target # Blank =>
        \E x \in during : x[1] = e.router /\ e.hints.target \in Reachable(x[2])

LEMMA LiveReport ==
  ASSUME LoopbackLocal, NEW w, FromListing(w) \/ FromGuest(w),
         NEW es \in ExtractAll(w, Registered), NEW e \in ToSet(es)
  PROVE  LiveEntry(e)
<1>. SUFFICES ASSUME e.source \in {"proxmox", "incus"}, e.hints.target # Blank
              PROVE  \E x \in during : x[1] = e.router /\ e.hints.target \in Reachable(x[2])
  BY DEF LiveEntry
<1>1. e.source = w.platform /\ e.router = w.name /\ e.hints.target = w.ip
  <2>1. e.source = w.platform /\ e.router = w.name /\ e.hints.target \in {Blank, w.ip}
    BY TracedWorkload, RegisteredSources, GuestSource
  <2>. QED BY <2>1
<1>2. CASE FromListing(w)
  <2>1. PICK i, obj :
           /\ i \in Items /\ obj \in Variants[i] /\ obj # Absent /\ <<i, obj>> \in during /\ PlatformOf[i] \notin {"file", "proxmox"}
           /\ Lists(docker.mode, i, obj) /\ w = WorkloadOf(i, obj)
    BY <1>2 DEF FromListing
  <2>2. PlatformOf[i] = "kubernetes" => KubernetesLists(obj)
    BY <2>1 DEF Lists
  <2>3. WorkloadOf(i, obj).name = i /\ WorkloadOf(i, obj).platform = PlatformOf[i]
    BY <2>1, <2>2, ListedWorkload
  <2>4. PlatformOf[i] = "incus" /\ w.name = i
    BY <1>1, <2>1, <2>3
  <2>5. IsIncusObject(obj) /\ w = IncusWorkload(i, obj)
    BY <2>1, <2>4, KnownObject DEF WorkloadOf
  <2>6. w.ip = IncusResolveIP(obj)
    BY <2>5, IncusIsWorkload
  <2>7. AreInterfaces(obj.ifaces)
    BY <2>5 DEF IsIncusObject
  <2>8. IncusResolveIP(obj) \in OnLan(obj.ifaces) \cap Routable
    BY <1>1, <2>6, <2>7, IncusAddress
  <2>9. e.hints.target \in Reachable(obj)
    BY <1>1, <2>1, <2>6, <2>7, <2>8, ReachableProps
  <2>. DEFINE x == <<i, obj>>
  <2>10. x \in during /\ x[1] = e.router /\ x[2] = obj
    BY <1>1, <2>1, <2>4
  <2>. HIDE DEF x
  <2>. QED BY <2>9, <2>10
<1>3. CASE FromGuest(w)
  <2>1. PICK i, a, b :
           /\ i \in Items /\ a \in Variants[i] /\ b \in Variants[i] /\ a # Absent /\ b # Absent /\ <<i, b>> \in during
           /\ PlatformOf[i] = "proxmox" /\ w = ProxmoxWorkload(i, a, ResolveIP(b, a.tags))
    BY <1>3 DEF FromGuest
  <2>2. IsProxmoxObject(a) /\ IsProxmoxObject(b)
    BY <2>1, KnownObject
  <2>. DEFINE ip == ResolveIP(b, a.tags)
  <2>3. w.name = i /\ w.ip = ip
    <3>1. w = ProxmoxWorkload(i, a, ip)
      BY <2>1
    <3>. HIDE DEF ip
    <3>. QED BY <2>2, <3>1, ProxmoxIsWorkload
  <2>4. LocalLoopback(b.ifaces)
    BY <2>1 DEF LoopbackLocal, LocalLoopback
  <2>5. ip # Blank => ip \in (OnLan(b.ifaces) \cup {b.net0}) \cap Routable
    BY <2>2, <2>4, GuestAddress
  <2>. HIDE DEF ip
  <2>6. AreInterfaces(b.ifaces) /\ "net0" \in DOMAIN b
    BY <2>2 DEF IsProxmoxObject
  <2>7. (OnLan(b.ifaces) \cup {b.net0}) \cap Routable \subseteq Reachable(b)
    <3>1. OnLan(b.ifaces) \cap Routable \subseteq Reachable(b) /\ {b.net0} \cap Routable \subseteq Reachable(b)
      BY <2>1, <2>6, ReachableProps
    <3>. QED BY <3>1
  <2>8. e.hints.target \in Reachable(b)
    BY <1>1, <2>3, <2>5, <2>7
  <2>. DEFINE x == <<i, b>>
  <2>9. x \in during /\ x[1] = e.router /\ x[2] = b
    BY <1>1, <2>1, <2>3
  <2>. HIDE DEF x
  <2>. QED BY <2>8, <2>9
<1>. QED BY <1>2, <1>3

\* How the names found change: they stay while the history grows, are dropped with the
\* cycle, or take in the report of one workload or of one file.
FoundByReport(es) ==
    /\ IsSeq(es) /\ found' = Merge(found, es) /\ UNCHANGED <<docker, during>>
    /\ \/ \A e \in ToSet(es) : e.source = "traefik"
       \/ \E w : (FromListing(w) \/ FromGuest(w)) /\ es \in ExtractAll(w, Registered)

LEMMA FoundStep ==
  ASSUME Inv, [Next]_vars
  PROVE  \/ UNCHANGED found /\ during \subseteq during'
         \/ DOMAIN found' = {}
         \/ \E es : FoundByReport(es)
<1>0. TypeOK /\ Shape /\ Watching /\ Traced
  BY DEF Inv
<1>1. CASE pc \notin {"extract", "files", "done"} /\ UNCHANGED found
  BY <1>0, <1>1, NothingNamed DEF Shape
<1>2. CASE ExtractHostnames
  <2>1. PICK es \in ExtractAll(workloads[1], Registered) : found' = Merge(found, es)
    BY <1>2 DEF ExtractHostnames
  <2>2. workloads # <<>> /\ IsSeq(workloads) /\ UNCHANGED <<docker, during>>
    BY <1>0, <1>2 DEF ExtractHostnames, Shape, client, history
  <2>. DEFINE w == workloads[1]
  <2>3. w \in ToSet(workloads)
    BY <2>2, TailIsSeq
  <2>4. (FromListing(w) \/ FromGuest(w)) /\ es \in ExtractAll(w, Registered)
    BY <1>0, <2>1, <2>3 DEF Traced
  <2>. HIDE DEF w
  <2>5. IsSeq(es)
    BY <2>4, TracedWorkload, RegisteredSources, ExtractAllProps
  <2>6. FoundByReport(es)
    BY <2>1, <2>2, <2>4, <2>5 DEF FoundByReport
  <2>. QED BY <2>6
<1>3. CASE ParseConfigFile
  <2>. DEFINE i == left[1]
  <2>1. /\ pc = "files" /\ left # <<>> /\ UNCHANGED <<docker, during>>
        /\ \/ UNCHANGED found
           \/ /\ world[i] # Absent /\ ~world[i].torn
              /\ \E xs \in ExtractFromConfig(world[i].routers) : found' = Merge(found, MapSeq(TraefikHostname, xs))
    BY <1>3 DEF ParseConfigFile, client, history
  <2>2. i \in ToSet(left)
    BY <1>0, <2>1, TailIsSeq DEF Shape
  <2>3. i \in Items /\ PlatformOf[i] = "file"
    BY <1>0, <2>1, <2>2 DEF Traced
  <2>. HIDE DEF i
  <2>4. CASE ~UNCHANGED found
    <3>1. PICK xs \in ExtractFromConfig(world[i].routers) : found' = Merge(found, MapSeq(TraefikHostname, xs))
      BY <2>1, <2>4
    <3>2. world[i] # Absent /\ ~world[i].torn
      BY <2>1, <2>4
    <3>. DEFINE es == MapSeq(TraefikHostname, xs)
    <3>3. IsSeq(es) /\ \A e \in ToSet(es) : e.source = "traefik"
      BY <2>1, <2>3, <3>2, ParsedFile
    <3>. HIDE DEF es
    <3>4. found' = Merge(found, es)
      BY <3>1 DEF es
    <3>5. FoundByReport(es)
      BY <2>1, <3>3, <3>4 DEF FoundByReport
    <3>. QED BY <3>5
  <2>. QED BY <2>1, <2>4
<1>4. CASE Rest
  BY <1>4, NothingNamed DEF Rest
<1>5. CASE Start \/ ConnectRetry \/ ListFails
  <2>1. pc \notin {"extract", "files", "done"} /\ UNCHANGED found
    BY <1>5 DEF Start, Connect, StartWatcher, ConnectRetry, ListFails, cycle
  <2>. QED BY <1>1, <2>1
<1>6. CASE Begin \/ ListDocker \/ ListKubernetes \/ ListIncus \/ ListClusterResources \/ ResolveGuest \/ GuestsResolved \/ WorkloadsListed
  <2>1. pc \notin {"extract", "files", "done"} /\ UNCHANGED found
    BY <1>6 DEF Begin, ListDocker, ListKubernetes, ListIncus, List, ListClusterResources, ResolveGuest, GuestsResolved, WorkloadsListed, cycle
  <2>. QED BY <1>1, <2>1
<1>7. CASE FindFiles \/ Publish \/ UNCHANGED vars
  <2>1. UNCHANGED <<found, during>>
    BY <1>7 DEF FindFiles, Publish, vars, cycle, history
  <2>. QED BY <2>1
<1>8. CASE \E i \in Items : Change(i) \/ Sync(i)
  <2>1. UNCHANGED found
    BY <1>8 DEF Change, Sync, cycle
  <2>2. \A i, obj : Witness(i, obj) => during \subseteq during'
    BY DEF Witness
  <2>3. UNCHANGED history \/ \E i, obj : Witness(i, obj)
    BY <1>8 DEF Change, Sync
  <2>. QED BY <2>1, <2>2, <2>3 DEF history
<1>. QED BY <1>2, <1>3, <1>4, <1>5, <1>6, <1>7, <1>8 DEF Next, Cycle

Live == \A n \in DOMAIN found : LiveEntry(found[n])

LEMMA LiveStep ==
  ASSUME LoopbackLocal, Inv, Live, [Next]_vars
  PROVE  Live'
<1>0. during \subseteq during' => \A e : LiveEntry(e) => LiveEntry(e)'
  BY DEF LiveEntry
<1>1. CASE UNCHANGED found /\ during \subseteq during'
  BY <1>0, <1>1 DEF Live
<1>2. CASE DOMAIN found' = {}
  BY <1>2 DEF Live
<1>3. CASE \E es : FoundByReport(es)
  <2>1. PICK es : FoundByReport(es)
    BY <1>3
  <2>2. IsSeq(es) /\ found' = Merge(found, es) /\ UNCHANGED during
    BY <2>1 DEF FoundByReport
  <2>3. \A e \in ToSet(es) : LiveEntry(e)
    <3>1. CASE \A e \in ToSet(es) : e.source = "traefik"
      BY <3>1 DEF LiveEntry
    <3>2. CASE \E w : (FromListing(w) \/ FromGuest(w)) /\ es \in ExtractAll(w, Registered)
      BY <3>2, LiveReport
    <3>. QED BY <2>1, <3>1, <3>2 DEF FoundByReport
  <2>4. ASSUME NEW n \in DOMAIN found' PROVE LiveEntry(found'[n])
    <3>1. CASE n \in DOMAIN found
      <4>1. found'[n] = found[n]
        BY <2>2, <3>1, MergeProps
      <4>. QED BY <3>1, <4>1 DEF Live
    <3>2. CASE n \notin DOMAIN found
      <4>1. n \in ValidNames(es) \ DOMAIN found
        BY <2>2, <2>4, <3>2, MergeProps
      <4>2. Merge(found, es)[n] \in ToSet(es)
        BY <2>2, <4>1, MergeNew
      <4>. QED BY <2>2, <2>3, <4>2
    <3>. QED BY <3>1, <3>2
  <2>. QED BY <2>2, <2>4 DEF Live, LiveEntry
<1>. QED BY <1>1, <1>2, <1>3, FoundStep

\* The target of a record that comes from a Proxmox or Incus guest is an address this very
\* guest had in the cycle, on an interface other than the loopback, and routable, although
\* listing and address query are two calls and the guest may change between them; provided
\* that no loopback address is routable.
THEOREM TargetsAreLive ==
  ASSUME LoopbackLocal
  PROVE  Spec => []AddressesAreLive
<1>1. Init => Live
  BY NothingNamed DEF Init, Live
<1>2. Inv /\ Live /\ [Next]_vars => Live'
  BY LiveStep
<1>3. Inv /\ Live => AddressesAreLive
  <2>1. Inv /\ pc = "done" => known = found
    BY DEF Inv, Shape
  <2>. QED BY <2>1, Zenon DEF AddressesAreLive, Live, LiveEntry, Blank
<1>. QED BY <1>1, <1>2, <1>3, DiscoveryInvariant, PTL DEF Spec

-----------------------------------------------------------------------------
(* The names that are declared all through a cycle. *)

\* An object that declares a name exists, and its lister takes it or its file parses.
LEMMA NamesOf ==
  ASSUME docker.mode \in DOMAIN Declared, NEW i \in Items, NEW obj \in Variants[i] \cup {Absent}, NEW t \in Names(i, obj)
  PROVE  /\ t[1] = i /\ obj # Absent /\ obj \in Variants[i]
         /\ PlatformOf[i] = "file" => ~obj.torn /\ \E xs \in ExtractFromConfig(obj.routers) :
                                                      t[2] \in ValidNames(MapSeq(TraefikHostname, xs))
         /\ PlatformOf[i] # "file" => Lists(docker.mode, i, obj) /\ \E es \in ExtractAll(WorkloadOf(i, obj), Registered) :
                                                                       t[2] \in ValidNames(es)
<1>1. PICK es \in Reports(docker.mode, i, obj) : \E e \in ToSet(es) :
         Validate(e) /\ t = <<i, NormalizeHostname(e.host), e.entryPoint>>
  BY DeclaredNames DEF Names
<1>2. PICK e \in ToSet(es) : Validate(e) /\ t = <<i, NormalizeHostname(e.host), e.entryPoint>>
  BY <1>1
<1>3. t[1] = i /\ t[2] = NormalizeHostname(e.host)
  BY <1>2
<1>4. t[2] \in ValidNames(es)
  BY <1>2, <1>3 DEF ValidNames
<1>5. obj # Absent
  BY <1>1 DEF Reports
<1>6. CASE PlatformOf[i] = "file"
  <2>1. es \in {MapSeq(TraefikHostname, xs) : xs \in IF obj.torn THEN {} ELSE ExtractFromConfig(obj.routers)}
    BY <1>1, <1>5, <1>6 DEF Reports
  <2>2. PICK xs \in IF obj.torn THEN {} ELSE ExtractFromConfig(obj.routers) : es = MapSeq(TraefikHostname, xs)
    BY <2>1, Zenon
  <2>. QED BY <1>3, <1>4, <1>5, <1>6, <2>2
<1>7. CASE PlatformOf[i] # "file"
  <2>1. Lists(docker.mode, i, obj) /\ es \in ExtractAll(WorkloadOf(i, obj), Registered)
    BY <1>1, <1>5, <1>7 DEF Reports
  <2>. QED BY <1>3, <1>4, <1>5, <1>7, <2>1
<1>. QED BY <1>6, <1>7

\* Every report of the workload of a listed object has the names the object declares.
LEMMA NamesKept ==
  ASSUME docker.mode \in DOMAIN Declared, NEW i \in Items, NEW obj \in Variants[i] \cup {Absent}, NEW t \in Names(i, obj),
         PlatformOf[i] # "file", NEW es \in ExtractAll(WorkloadOf(i, obj), Registered)
  PROVE  t[2] \in ValidNames(es)
<1>1. obj # Absent /\ obj \in Variants[i] /\ Lists(docker.mode, i, obj)
  BY NamesOf
<1>2. PICK own \in ExtractAll(WorkloadOf(i, obj), Registered) : t[2] \in ValidNames(own)
  BY NamesOf
<1>3. PlatformOf[i] = "kubernetes" => KubernetesLists(obj)
  BY <1>1 DEF Lists
<1>. DEFINE w == WorkloadOf(i, obj)
<1>4. IsWorkload(w) /\ own \in ExtractAll(w, Registered) /\ es \in ExtractAll(w, Registered)
  BY <1>1, <1>2, <1>3, ListedWorkload
<1>. HIDE DEF w
<1>5. ValidNames(own) \subseteq ValidNames(es)
  BY <1>4, RegisteredSources, AllSameNames
<1>. QED BY <1>2, <1>5

\* The same for the reports of a file, in whichever order its routers come.
LEMMA FileKept ==
  ASSUME docker.mode \in DOMAIN Declared, NEW i \in Items, NEW obj \in Variants[i] \cup {Absent}, NEW t \in Names(i, obj),
         PlatformOf[i] = "file", NEW xs \in ExtractFromConfig(obj.routers)
  PROVE  t[2] \in ValidNames(MapSeq(TraefikHostname, xs))
<1>1. obj # Absent /\ obj \in Variants[i]
  BY NamesOf
<1>2. PICK ys \in ExtractFromConfig(obj.routers) : t[2] \in ValidNames(MapSeq(TraefikHostname, ys))
  BY NamesOf
<1>3. IsFileObject(obj)
  BY <1>1, KnownObject
<1>. DEFINE all == {<<h, "">> : h \in UNION {ToSet(obj.routers[r].rule) : r \in DOMAIN obj.routers}}
<1>4. Shown(MapSeq(TraefikHostname, xs)) = all /\ Shown(MapSeq(TraefikHostname, ys)) = all
  BY <1>3, FileReports, Zenon DEF IsFileObject
<1>. HIDE DEF all
<1>5. ValidNames(MapSeq(TraefikHostname, ys)) \subseteq ValidNames(MapSeq(TraefikHostname, xs))
  BY <1>4, ShownDecides
<1>. QED BY <1>2, <1>5

\* A guest that declares a name when it is listed and when its address is asked for is
\* reported under that name, although the report mixes the two states.
LEMMA GuestKept ==
  ASSUME LoopbackLocal, docker.mode \in DOMAIN Declared, NEW i \in Items, PlatformOf[i] = "proxmox",
         NEW a \in Variants[i] \cup {Absent}, NEW b \in Variants[i] \cup {Absent}, NEW t \in Names(i, a), t \in Names(i, b),
         NEW es \in ExtractAll(ProxmoxWorkload(i, a, ResolveIP(b, a.tags)), Registered)
  PROVE  t[2] \in ValidNames(es)
<1>1. a # Absent /\ a \in Variants[i] /\ b # Absent /\ b \in Variants[i]
  BY NamesOf
<1>2. IsProxmoxObject(a) /\ IsProxmoxObject(b) /\ LocalLoopback(b.ifaces)
  BY <1>1, KnownObject DEF LoopbackLocal, LocalLoopback
<1>. DEFINE v == ProxmoxWorkload(i, a, ResolveIP(a, a.tags))
            u == ProxmoxWorkload(i, b, ResolveIP(b, b.tags))
            ip == ResolveIP(b, a.tags)
            w == ProxmoxWorkload(i, a, ip)
<1>3. WorkloadOf(i, a) = v /\ WorkloadOf(i, b) = u
  BY DEF WorkloadOf
<1>4. PICK xs \in ExtractAll(v, Registered) : t[2] \in ValidNames(xs)
  BY <1>3, NamesOf
<1>5. PICK ys \in ExtractAll(u, Registered) : t[2] \in ValidNames(ys)
  BY <1>3, NamesOf
<1>6. /\ IsWorkload(v) /\ v.platform = "proxmox" /\ v.labels = NoMap /\ v.annotations = NoMap
      /\ IsWorkload(w) /\ w.platform = "proxmox" /\ w.labels = NoMap /\ w.annotations = NoMap /\ w.ip = ip
      /\ IsWorkload(u) /\ u.platform = "proxmox" /\ u.labels = NoMap /\ u.annotations = NoMap /\ u.ip = ResolveIP(b, b.tags)
  <2>. HIDE DEF ip
  <2>. QED BY <1>2, ProxmoxIsWorkload
<1>7. ProxmoxHostname(v) = ProxmoxHostname(w)
  <2>. HIDE DEF ip
  <2>. QED BY <1>2, ProxmoxNames
<1>8. es \in ExtractAll(w, Registered) /\ "proxmox" \in ToSet(Registered)
  BY RegisteredSources
<1>9. ResolveIP(b, b.tags) # Blank => ip # Blank
  BY <1>2, GuestAddress
<1>. HIDE DEF v, u, w, ip
<1>10. ip # Blank
  <2>1. PICK y \in ToSet(ys) : t[2] = NormalizeHostname(y.host)
    BY <1>5 DEF ValidNames
  <2>2. u.ip # Blank
    BY <1>5, <1>6, <1>8, <2>1, RegisteredSources, ProxmoxReports
  <2>. QED BY <1>6, <1>9, <2>2
<1>11. PICK x \in ToSet(xs) : Validate(x) /\ t[2] = NormalizeHostname(x.host)
  BY <1>4 DEF ValidNames
<1>12. x.host \in ToSet(ProxmoxHostname(w)) /\ x.hints = GuestHints(ProxmoxCfg.targetMode, v.ip)
  BY <1>4, <1>6, <1>7, <1>8, <1>11, RegisteredSources, ProxmoxReports
<1>13. PICK e \in ToSet(es) : e.host = x.host /\ e.hints = GuestHints(ProxmoxCfg.targetMode, w.ip)
  BY <1>6, <1>8, <1>10, <1>12, RegisteredSources, ProxmoxReports
<1>14. e.hints.type = x.hints.type
  BY <1>12, <1>13, GuestHintsProps
<1>15. Validate(e)
  BY <1>11, <1>13, <1>14 DEF Validate
<1>. QED BY <1>11, <1>13, <1>15 DEF ValidNames

\* Two states of an object of the cluster that declare a name are of one kind.
LEMMA SameIdentity ==
  ASSUME StableIdentity, docker.mode \in DOMAIN Declared, NEW i \in Items, PlatformOf[i] = "kubernetes",
         NEW a \in Variants[i] \cup {Absent}, NEW b \in Variants[i] \cup {Absent}, NEW t \in Names(i, a), t \in Names(i, b)
  PROVE  a.kind = b.kind
<1>1. a \in Variants[i] \ {Absent} /\ b \in Variants[i] \ {Absent}
  BY NamesOf
<1>2. Declared[docker.mode][i][a] \cap Declared[docker.mode][i][b] # {}
  BY DEF Names
<1>. QED BY <1>1, <1>2 DEF StableIdentity, Of

\* Two states of a guest or an instance in one place are asked for alike.
LEMMA SamePlace ==
  ASSUME NEW i, NEW a, NEW b, Place(i, a) = Place(i, b)
  PROVE  /\ PlatformOf[i] = "proxmox" => a.node = b.node /\ a.type = b.type
         /\ PlatformOf[i] = "incus" => a.project = b.project
BY DEF Place

\* Lister j asks for the objects of item i.
Takes(j, i) ==
    /\ PlatformOf[i] = Listers[j][1]
    /\ PlatformOf[i] = "incus" => Listers[j][2] \in {"*", Visible(i).project}

\* In every report still to come, or there already.
Secured(t) ==
    \/ t[2] \in DOMAIN found
    \/ \E w \in ToSet(workloads) : \A es \in ExtractAll(w, Registered) : t[2] \in ValidNames(es)

\* Secured, or its turn is still to come: its file is to be read, its lister to be asked,
\* its address to be resolved.
Due(t) ==
    \/ Secured(t)
    \/ PlatformOf[t[1]] = "file" /\ pc # "done" /\ (pc = "files" => t[1] \in ToSet(left))
    \/ /\ PlatformOf[t[1]] # "file" /\ \A j \in 1..(at - 1) : ~Takes(j, t[1])
       /\ pc = "resolve" /\ PlatformOf[t[1]] = "proxmox" =>
             \E g \in ToSet(left) : g[1] = t[1] /\ t \in Names(t[1], g[2])

Declares(t) == t[1] \in Items /\ t \in Names(t[1], Visible(t[1]))

Safe == \A t \in throughout : Declares(t) /\ (t[1] \in hit \cup Blind \cup Moved \/ Due(t))

\* Some lister asks for an object that declares a name.
LEMMA TakenBySome ==
  ASSUME Inv, NEW t, Declares(t), PlatformOf[t[1]] # "file"
  PROVE  \E j \in DOMAIN Listers : Takes(j, t[1])
<1>. DEFINE i == t[1]
            obj == Visible(i)
<1>1. i \in Items /\ t \in Names(i, obj)
  BY DEF Declares
<1>2. docker.mode \in DOMAIN Declared /\ obj \in Variants[i] \cup {Absent}
  BY <1>1 DEF Inv, Shape, TypeOK, Visible
<1>. HIDE DEF i, obj
<1>3. obj # Absent /\ obj \in Variants[i] /\ (PlatformOf[i] # "file" => Lists(docker.mode, i, obj))
  BY <1>1, <1>2, NamesOf
<1>4. PlatformOf[i] \in {"docker", "kubernetes", "proxmox", "incus"} /\ Lists(docker.mode, i, obj)
  BY <1>1, <1>3, KnownObject DEF i
<1>5. CASE PlatformOf[i] # "incus"
  <2>1. 1 \in DOMAIN Listers /\ 2 \in DOMAIN Listers /\ 3 \in DOMAIN Listers
    BY ListersSeq
  <2>2. Listers[1][1] = "docker" /\ Listers[2][1] = "kubernetes" /\ Listers[3][1] = "proxmox"
    BY ListersSeq
  <2>3. Takes(1, i) \/ Takes(2, i) \/ Takes(3, i)
    BY <1>4, <1>5, <2>2 DEF Takes
  <2>. QED BY <2>1, <2>3 DEF i
<1>6. CASE PlatformOf[i] = "incus"
  <2>1. PICK j \in DOMAIN IncusListers : IncusLists(obj, IncusListers[j][2])
    BY <1>4, <1>6 DEF Lists
  <2>2. 3 + j \in DOMAIN Listers /\ Listers[3 + j] = IncusListers[j] /\ IncusListers[j][1] = "incus"
    BY ListersSeq
  <2>3. IncusListers[j][2] \in {"*", obj.project}
    BY <2>1 DEF IncusLists
  <2>4. Takes(3 + j, i)
    BY <1>6, <2>2, <2>3 DEF Takes, obj
  <2>. QED BY <2>2, <2>4 DEF i
<1>. QED BY <1>5, <1>6

\* When all listers have been asked, the names of listed objects are secured.
LEMMA SecuredLate ==
  ASSUME Inv, NEW t, Declares(t), Due(t), PlatformOf[t[1]] # "file", at > Len(Listers)
  PROVE  Secured(t)
<1>1. PICK j \in DOMAIN Listers : Takes(j, t[1])
  BY TakenBySome
<1>2. j \in 1..(at - 1)
  BY ListersSeq DEF Inv, TypeOK
<1>. QED BY <1>1, <1>2 DEF Due

\* Objects change: what stays declared and does not move keeps its listers and its turn.
LEMMA SafeWhileChanging ==
  ASSUME StableIdentity, Inv, Inv', Safe, UNCHANGED <<docker, crds, pc, at, left, workloads, found, hit>>,
         throughout' \subseteq throughout, \A t \in throughout' : Declares(t)', during \subseteq during'
  PROVE  Safe'
<1>. SUFFICES ASSUME NEW t \in throughout', t[1] \notin (hit \cup Blind \cup Moved)' PROVE Due(t)'
  BY DEF Safe
<1>. DEFINE i == t[1]
            a == Visible(i)
            b == Visible(i)'
<1>1. Declares(t) /\ Declares(t)' /\ (i \in hit \cup Blind \cup Moved \/ Due(t))
  BY DEF Safe
<1>2. \A j, obj : Names(j, obj)' = Names(j, obj)
  BY DEF Names
<1>3. i \in Items /\ t \in Names(i, a) /\ t \in Names(i, b)
  BY <1>1, <1>2 DEF Declares
<1>4. docker.mode \in DOMAIN Declared /\ a \in Variants[i] \cup {Absent} /\ b \in Variants[i] \cup {Absent}
  BY <1>3 DEF Inv, Shape, TypeOK, Visible
<1>5. /\ PlatformOf[i] = "kubernetes" => a = informer[i] /\ b = informer'[i]
      /\ t[1] = i
  BY DEF Visible
<1>. HIDE DEF a, b
<1>6. /\ PlatformOf[i] = "kubernetes" => a.kind = b.kind
      /\ PlatformOf[i] = "incus" => a.project = b.project
      /\ a # Absent /\ b # Absent
  <2>1. Going /\ Going'
    BY DEF Inv, Shape, Going
  <2>2. <<i, a>> \in during' /\ <<i, b>> \in during'
    BY <1>3, <2>1 DEF Inv, Watching, a, b
  <2>3. a # Absent /\ b # Absent
    BY <1>3, <1>4, NamesOf
  <2>4. ~\E x, y \in during' : /\ x[1] = i /\ y[1] = i /\ x[2] # Absent /\ y[2] # Absent
                               /\ Place(i, x[2]) # Place(i, y[2])
    BY <1>3 DEF Moved
  <2>5. Place(i, a) = Place(i, b)
    <3>. DEFINE x == <<i, a>>
                y == <<i, b>>
    <3>1. x \in during' /\ y \in during' /\ x[1] = i /\ x[2] = a /\ y[1] = i /\ y[2] = b
      BY <2>2
    <3>. HIDE DEF x, y
    <3>. QED BY <2>3, <2>4, <3>1
  <2>. QED BY <1>3, <1>4, <2>3, <2>5, SameIdentity, SamePlace
<1>7. i \notin hit \cup Blind \cup Moved
  <2>1. i \in Blind => i \in Blind'
    BY <1>5, <1>6 DEF Blind, Watched, Of
  <2>2. i \in Moved => i \in Moved'
    BY DEF Moved
  <2>. QED BY <2>1, <2>2
<1>8. Due(t)
  BY <1>1, <1>7
<1>9. Secured(t)' <=> Secured(t)
  BY DEF Secured
<1>10. \A j : Takes(j, i)' <=> Takes(j, i)
  BY <1>6 DEF Takes, a, b
<1>. QED BY <1>2, <1>8, <1>9, <1>10 DEF Due

LEMMA SafeObjects ==
  ASSUME StableIdentity, Inv, Inv', Safe, NEW i \in Items, Change(i) \/ Sync(i)
  PROVE  Safe'
<1>0. /\ UNCHANGED <<docker, crds, pc, at, left, workloads, found>>
      /\ world = [j \in Items |-> world[j]] /\ informer = [j \in Items |-> informer[j]]
  BY DEF Change, Sync, client, cycle, Inv, Shape
<1>1. \A j, o : Names(j, o)' = Names(j, o)
  BY <1>0 DEF Names
<1>2. CASE UNCHANGED history /\ \A j \in Items : Visible(j)' = Visible(j)
  <2>1. UNCHANGED <<during, throughout, hit>>
    BY <1>2 DEF history
  <2>2. \A t \in throughout' : Declares(t)'
    BY <1>1, <1>2, <2>1 DEF Safe, Declares
  <2>. QED BY <1>0, <2>1, <2>2, SafeWhileChanging
<1>3. ASSUME NEW obj, Witness(i, obj), \A j \in Items : Visible(j)' = IF j = i THEN obj ELSE Visible(j)
      PROVE  Safe'
  <2>1. hit' = hit /\ throughout' = {t \in throughout : t[1] = i => t \in Names(i, obj)}
    BY <1>3 DEF Witness
  <2>2. throughout' \subseteq throughout /\ \A t \in throughout' : t \in throughout /\ (t[1] = i => t \in Names(i, obj))
    BY <2>1
  <2>3. \A t \in throughout : t[1] \in Items /\ t \in Names(t[1], Visible(t[1]))
    BY DEF Safe, Declares
  <2>4. \A t \in throughout' : t \in Names(t[1], Visible(t[1])')
    BY <1>3, <2>2, <2>3
  <2>5. \A t \in throughout' : Declares(t)'
    BY <1>1, <2>2, <2>3, <2>4 DEF Declares
  <2>6. during \subseteq during'
    BY <1>3 DEF Witness
  <2>. QED BY <1>0, <2>1, <2>2, <2>5, <2>6, SafeWhileChanging
<1>4. CASE Change(i)
  <2>1. PICK obj \in Variants[i] :
           /\ world' = [world EXCEPT ![i] = obj]
           /\ IF PlatformOf[i] = "kubernetes" THEN UNCHANGED history ELSE Witness(i, obj)
    BY <1>4 DEF Change
  <2>2. UNCHANGED informer
    BY <1>4 DEF Change
  <2>3. \A j \in Items : world'[j] = IF j = i THEN obj ELSE world[j]
    BY <1>0, <2>1
  <2>4. CASE PlatformOf[i] = "kubernetes"
    <3>1. \A j \in Items : Visible(j)' = Visible(j)
      BY <2>2, <2>3, <2>4 DEF Visible
    <3>. QED BY <1>2, <2>1, <2>4, <3>1
  <2>5. CASE PlatformOf[i] # "kubernetes"
    <3>1. \A j \in Items : Visible(j)' = IF j = i THEN obj ELSE Visible(j)
      BY <2>2, <2>3, <2>5 DEF Visible
    <3>. QED BY <1>3, <2>1, <2>5, <3>1
  <2>. QED BY <2>4, <2>5
<1>5. CASE Sync(i)
  <2>1. PlatformOf[i] = "kubernetes" /\ informer' = [informer EXCEPT ![i] = world[i]] /\ Witness(i, world[i]) /\ UNCHANGED world
    BY <1>5 DEF Sync
  <2>2. \A j \in Items : informer'[j] = IF j = i THEN world[i] ELSE informer[j]
    BY <1>0, <2>1
  <2>. DEFINE obj == world[i]
  <2>3. \A j \in Items : Visible(j)' = IF j = i THEN obj ELSE Visible(j)
    BY <2>1, <2>2 DEF Visible
  <2>4. Witness(i, obj)
    BY <2>1
  <2>. QED BY <1>3, <2>3, <2>4
<1>. QED BY <1>4, <1>5

\* A step of the cycle has to keep what is due.
LEMMA SafeInCycle ==
  ASSUME Safe, UNCHANGED <<world, informer, docker, crds, during, throughout>>, hit \subseteq hit',
         \A t \in throughout : Declares(t) /\ Due(t) /\ t[1] \notin hit' \cup Blind \cup Moved => Due(t)'
  PROVE  Safe'
<1>1. Blind' = Blind /\ Moved' = Moved /\ \A t : Declares(t)' <=> Declares(t)
  BY DEF Blind, Watched, Of, Moved, Place, Declares, Names, Visible
<1>. QED BY <1>1 DEF Safe

LEMMA SafeBegin ==
  ASSUME Inv, Inv', Begin
  PROVE  Safe'
<1>1. /\ pc' = "list" /\ at' = 1 /\ throughout' = UNION {Names(i, View[i]) : i \in Items}
      /\ UNCHANGED <<world, informer, docker>>
  BY DEF Begin, client
<1>2. docker.mode \in DOMAIN Declared /\ \A i \in Items : View[i] = Visible(i) /\ Visible(i) \in Variants[i] \cup {Absent}
  BY DEF Inv, Shape, TypeOK, View, Visible
<1>3. ASSUME NEW t \in throughout' PROVE Declares(t)' /\ Due(t)'
  <2>1. PICK i \in Items : t \in Names(i, View[i])
    BY <1>1, <1>3
  <2>2. t \in Names(i, Visible(i))
    BY <1>2, <2>1
  <2>3. t[1] = i
    BY <1>2, <2>2, NamesOf
  <2>4. Declares(t)
    BY <2>2, <2>3 DEF Declares
  <2>5. Declares(t)'
    BY <1>1, <2>4 DEF Declares, Names, Visible
  <2>6. Due(t)'
    BY <1>1 DEF Due
  <2>. QED BY <2>5, <2>6
<1>. QED BY <1>3 DEF Safe

\* A lister that takes whatever declares a name keeps it.
LEMMA SafeList ==
  ASSUME Inv, Safe, NEW platform, platform # "proxmox", NEW chosen, chosen \subseteq Items, List(platform, chosen),
         \A t \in throughout : Declares(t) /\ t[1] \notin hit \cup Blind /\ Takes(at, t[1]) => t[1] \in chosen
  PROVE  Safe'
<1>1. /\ ToSet(workloads') = ToSet(workloads) \cup {WorkloadOf(i, View[i]) : i \in chosen}
      /\ pc = "list" /\ pc' = "list" /\ at <= Len(Listers) /\ at' = at + 1 /\ Listers[at][1] = platform
      /\ UNCHANGED <<world, informer, docker, crds, left, found, known, during, throughout, hit, budget>>
  BY ListStep
<1>2. docker.mode \in DOMAIN Declared /\ \A i \in Items : View[i] = Visible(i) /\ Visible(i) \in Variants[i] \cup {Absent}
  BY DEF Inv, Shape, TypeOK, View, Visible
<1>3. ASSUME NEW t \in throughout, Declares(t), Due(t), t[1] \notin hit \cup Blind PROVE Due(t)'
  <2>1. CASE Secured(t)
    <3>1. Secured(t)'
      BY <1>1, <2>1 DEF Secured
    <3>. QED BY <3>1 DEF Due
  <2>2. CASE PlatformOf[t[1]] = "file"
    BY <1>1, <2>2 DEF Due
  <2>3. CASE ~Secured(t) /\ PlatformOf[t[1]] # "file" /\ Takes(at, t[1])
    <3>. DEFINE i == t[1]
                w == WorkloadOf(i, View[i])
    <3>1. w \in ToSet(workloads')
      BY <1>1, <1>3, <2>3
    <3>2. i \in Items /\ t \in Names(i, Visible(i)) /\ w = WorkloadOf(i, Visible(i))
      BY <1>2, <1>3 DEF Declares
    <3>3. \A es \in ExtractAll(WorkloadOf(i, Visible(i)), Registered) : t[2] \in ValidNames(es)
      BY <1>2, <2>3, <3>2, NamesKept
    <3>. HIDE DEF w, i
    <3>4. Secured(t)'
      BY <3>1, <3>2, <3>3 DEF Secured
    <3>. QED BY <3>4 DEF Due
  <2>4. CASE ~Secured(t) /\ PlatformOf[t[1]] # "file" /\ ~Takes(at, t[1])
    <3>1. \A j \in 1..(at - 1) : ~Takes(j, t[1])
      BY <1>3, <2>4 DEF Due
    <3>2. at \in Nat /\ at' = at + 1
      BY <1>1, ListersSeq DEF Inv, TypeOK
    <3>3. \A j \in 1..(at' - 1) : ~Takes(j, t[1])
      BY <2>4, <3>1, <3>2
    <3>4. \A j : Takes(j, t[1])' <=> Takes(j, t[1])
      BY <1>1 DEF Takes, Visible
    <3>. QED BY <1>1, <2>4, <3>3, <3>4 DEF Due
  <2>. QED BY <2>1, <2>2, <2>3, <2>4
<1>. QED BY <1>1, <1>3, SafeInCycle

LEMMA SafeListings ==
  ASSUME Inv, Safe, ListDocker \/ ListKubernetes \/ ListIncus
  PROVE  Safe'
<1>0. docker.mode \in DOMAIN Declared /\ \A i \in Items : Visible(i) \in Variants[i] \cup {Absent}
  BY DEF Inv, Shape, TypeOK, Visible
<1>1. ASSUME NEW t, Declares(t), PlatformOf[t[1]] # "file"
      PROVE  /\ t[1] \in Items /\ Visible(t[1]) # Absent /\ Lists(docker.mode, t[1], Visible(t[1]))
  <2>1. t[1] \in Items /\ t \in Names(t[1], Visible(t[1]))
    BY <1>1 DEF Declares
  <2>. QED BY <1>0, <1>1, <2>1, NamesOf
<1>2. CASE ListDocker
  <2>. DEFINE S == {i \in Of("docker") : world[i] # Absent /\ DockerLists(docker.mode, world[i])}
  <2>1. List("docker", S)
    BY <1>2 DEF ListDocker
  <2>2. S \subseteq Items
    BY DEF Of
  <2>3. Listers[at][1] = "docker"
    BY <2>1 DEF List
  <2>4. \A t : Declares(t) /\ Takes(at, t[1]) => t[1] \in S
    BY <1>1, <2>3 DEF Takes, Of, Visible, Lists
  <2>. HIDE DEF S
  <2>. QED BY <2>1, <2>2, <2>4, SafeList
<1>3. CASE ListKubernetes
  <2>. DEFINE S == {i \in Of("kubernetes") :
                      /\ informer[i] # Absent
                      /\ Watched(informer[i])
                      /\ KubernetesLists(informer[i])}
  <2>1. List("kubernetes", S)
    BY <1>3 DEF ListKubernetes
  <2>2. S \subseteq Items
    BY DEF Of
  <2>3. Listers[at][1] = "kubernetes"
    BY <2>1 DEF List
  <2>4. \A t : Declares(t) /\ t[1] \notin hit \cup Blind /\ Takes(at, t[1]) => t[1] \in S
    BY <1>1, <2>3 DEF Takes, Of, Visible, Lists, Blind
  <2>. HIDE DEF S
  <2>. QED BY <2>1, <2>2, <2>4, SafeList
<1>4. CASE ListIncus
  <2>. DEFINE S == {i \in Of("incus") : world[i] # Absent /\ IncusLists(world[i], Listers[at][2])}
  <2>1. List("incus", S)
    BY <1>4 DEF ListIncus
  <2>2. S \subseteq Items
    BY DEF Of
  <2>3. Listers[at][1] = "incus"
    BY <2>1 DEF List
  <2>4. \A t : Declares(t) /\ Takes(at, t[1]) => t[1] \in S
    BY <1>1, <2>3 DEF Takes, Of, Visible, Lists, IncusLists
  <2>. HIDE DEF S
  <2>. QED BY <2>1, <2>2, <2>4, SafeList
<1>. QED BY <1>2, <1>3, <1>4

LEMMA SafeListClusterResources ==
  ASSUME Inv, Safe, ListClusterResources
  PROVE  Safe'
<1>. DEFINE chosen == {x \in Of("proxmox") : world[x] # Absent /\ ProxmoxLists(world[x])}
<1>1. /\ ToSet(left') = {<<i, world[i]>> : i \in chosen}
      /\ pc = "list" /\ pc' = "resolve"
      /\ UNCHANGED <<world, informer, docker, crds, at, workloads, found, known, during, throughout, hit, budget>>
  BY ClusterStep
<1>2. docker.mode \in DOMAIN Declared /\ \A i \in Items : Visible(i) \in Variants[i] \cup {Absent}
  BY DEF Inv, Shape, TypeOK, Visible
<1>3. ASSUME NEW t \in throughout, Declares(t), Due(t) PROVE Due(t)'
  <2>1. \A j : Takes(j, t[1])' <=> Takes(j, t[1])
    BY <1>1 DEF Takes, Visible
  <2>2. (Secured(t)' <=> Secured(t)) /\ \A i, obj : Names(i, obj)' = Names(i, obj)
    BY <1>1 DEF Secured, Names
  <2>3. CASE PlatformOf[t[1]] # "proxmox"
    BY <1>1, <1>3, <2>1, <2>2, <2>3 DEF Due
  <2>4. CASE PlatformOf[t[1]] = "proxmox"
    <3>. DEFINE i == t[1]
                g == <<i, world[i]>>
    <3>1. i \in Items /\ t \in Names(i, world[i]) /\ world[i] \in Variants[i] \cup {Absent}
      BY <1>2, <1>3, <2>4 DEF Declares, Visible
    <3>2. world[i] # Absent /\ Lists(docker.mode, i, world[i])
      BY <1>2, <2>4, <3>1, NamesOf
    <3>3. i \in chosen
      BY <2>4, <3>1, <3>2 DEF Of, Lists
    <3>4. g \in ToSet(left') /\ g[1] = i /\ g[2] = world[i]
      BY <1>1, <3>3
    <3>. HIDE DEF g, chosen
    <3>5. \E h \in ToSet(left') : h[1] = t[1] /\ t \in Names(t[1], h[2])
      BY <3>1, <3>4
    <3>. QED BY <1>1, <1>3, <2>1, <2>2, <2>4, <3>5 DEF Due
  <2>. QED BY <2>3, <2>4
<1>. QED BY <1>1, <1>3, SafeInCycle

\* A guest whose query answers is secured, and one whose query fails is hit.
LEMMA SafeResolveGuest ==
  ASSUME LoopbackLocal, Inv, Safe, ResolveGuest
  PROVE  Safe'
<1>. DEFINE i == left[1][1]
            listed == left[1][2]
            answers == /\ world[i] # Absent /\ ResolvesIP(listed)
                       /\ world[i].node = listed.node /\ world[i].type = listed.type
            w == ProxmoxWorkload(i, listed, ResolveIP(world[i], listed.tags))
<1>1. /\ pc = "resolve" /\ left # <<>> /\ left' = Tail(left)
      /\ UNCHANGED <<world, informer, docker, crds, pc, at, found, known, during, throughout>>
      /\ \/ /\ workloads' = IF answers THEN Append(workloads, w) ELSE workloads
            /\ UNCHANGED hit
         \/ hit' = hit \cup {i} /\ UNCHANGED workloads
  BY DEF ResolveGuest, client
<1>2. /\ IsSeq(left) /\ IsSeq(workloads) /\ docker.mode \in DOMAIN Declared
      /\ \A k \in Items : Visible(k) \in Variants[k] \cup {Absent}
  BY DEF Inv, Shape, TypeOK, Visible
<1>3. left[1] \in ToSet(left) /\ ToSet(left) = {left[1]} \cup ToSet(left')
  BY <1>1, <1>2, TailIsSeq
<1>4. GuestOf(left[1])
  BY <1>1, <1>3 DEF Inv, Traced
<1>5. /\ i \in Items /\ listed \in Variants[i] /\ listed # Absent /\ PlatformOf[i] = "proxmox" /\ ProxmoxLists(listed)
      /\ <<i, listed>> \in during
  BY <1>4 DEF GuestOf
<1>. HIDE DEF i, listed, w, answers
<1>6. ToSet(Append(workloads, w)) = ToSet(workloads) \cup {w}
  BY <1>2, AppendIsSeq
<1>7. ToSet(workloads) \subseteq ToSet(workloads')
  BY <1>1, <1>6
<1>8. ASSUME NEW t \in throughout, Declares(t), Due(t), t[1] \notin hit' \cup Blind \cup Moved PROVE Due(t)'
  <2>1. \A j : Takes(j, t[1])' <=> Takes(j, t[1])
    BY <1>1 DEF Takes, Visible
  <2>2. \A k, obj : Names(k, obj)' = Names(k, obj)
    BY <1>1 DEF Names
  <2>3. Secured(t) => Secured(t)'
    BY <1>1, <1>7 DEF Secured
  <2>4. CASE Secured(t) \/ PlatformOf[t[1]] # "proxmox"
    BY <1>1, <1>8, <2>1, <2>2, <2>3, <2>4 DEF Due
  <2>5. CASE ~Secured(t) /\ PlatformOf[t[1]] = "proxmox"
    <3>1. PICK g \in ToSet(left) : g[1] = t[1] /\ t \in Names(t[1], g[2])
      BY <1>1, <1>8, <2>5 DEF Due
    <3>2. CASE g \in ToSet(left')
      BY <1>1, <1>8, <2>1, <2>2, <2>5, <3>1, <3>2 DEF Due
    <3>3. CASE g = left[1]
      <4>1. t[1] = i /\ t \in Names(i, listed)
        BY <3>1, <3>3 DEF i, listed
      <4>2. t \in Names(i, world[i]) /\ world[i] \in Variants[i] \cup {Absent}
        BY <1>2, <1>5, <1>8, <4>1 DEF Declares, Visible
      <4>3. world[i] # Absent /\ Lists(docker.mode, i, listed)
        BY <1>2, <1>5, <4>1, <4>2, NamesOf
      <4>4. world[i].node = listed.node /\ world[i].type = listed.type
        <5>. DEFINE x == <<i, listed>>
                    y == <<i, world[i]>>
        <5>1. x \in during /\ y \in during
          BY <1>1, <1>5 DEF Inv, Watching, Going, Visible
        <5>2. x[1] = i /\ x[2] = listed /\ y[1] = i /\ y[2] = world[i]
          OBVIOUS
        <5>. HIDE DEF x, y
        <5>3. Place(i, listed) = Place(i, world[i])
          BY <1>5, <1>8, <4>1, <4>3, <5>1, <5>2 DEF Moved
        <5>. QED BY <1>5, <5>3, SamePlace
      <4>5. answers
        BY <1>5, <4>3, <4>4 DEF answers, Lists
      <4>6. workloads' = Append(workloads, w)
        BY <1>1, <1>8, <4>1, <4>5
      <4>7. \A es \in ExtractAll(ProxmoxWorkload(i, listed, ResolveIP(world[i], listed.tags)), Registered) : t[2] \in ValidNames(es)
        BY <1>2, <1>5, <4>1, <4>2, GuestKept
      <4>8. Secured(t)'
        BY <1>6, <4>6, <4>7 DEF Secured, w
      <4>. QED BY <4>8 DEF Due
    <3>. QED BY <1>3, <3>1, <3>2, <3>3
  <2>. QED BY <2>4, <2>5
<1>. QED BY <1>1, <1>8, SafeInCycle

LEMMA SafeGuestsResolved ==
  ASSUME Inv, Safe, GuestsResolved
  PROVE  Safe'
<1>1. /\ pc = "resolve" /\ left = <<>> /\ pc' = "list" /\ at' = at + 1
      /\ UNCHANGED <<world, informer, docker, crds, left, workloads, found, known, during, throughout, hit, budget>>
  BY DEF GuestsResolved, client, history
<1>2. Listers[at][1] = "proxmox" /\ ToSet(left) = {} /\ at \in Nat
  BY <1>1, EmptyIsSeq, ListersSeq DEF Inv, Shape, TypeOK
<1>3. ASSUME NEW t \in throughout, Declares(t), Due(t) PROVE Due(t)'
  <2>1. \A j : Takes(j, t[1])' <=> Takes(j, t[1])
    BY <1>1 DEF Takes, Visible
  <2>2. Secured(t)' <=> Secured(t)
    BY <1>1 DEF Secured
  <2>3. CASE Secured(t) \/ PlatformOf[t[1]] = "file"
    BY <1>1, <1>3, <2>2, <2>3 DEF Due
  <2>4. CASE ~Secured(t) /\ PlatformOf[t[1]] # "file"
    <3>1. PlatformOf[t[1]] # "proxmox" /\ \A j \in 1..(at - 1) : ~Takes(j, t[1])
      BY <1>1, <1>2, <1>3, <2>4 DEF Due
    <3>2. ~Takes(at, t[1])
      BY <1>2, <3>1 DEF Takes
    <3>3. \A j \in 1..(at' - 1) : ~Takes(j, t[1])
      BY <1>1, <1>2, <3>1, <3>2
    <3>. QED BY <1>1, <2>1, <2>4, <3>3 DEF Due
  <2>. QED BY <2>3, <2>4
<1>. QED BY <1>1, <1>3, SafeInCycle

\* Steps that leave the listings behind.
LEMMA SafeExtractHostnames ==
  ASSUME Inv, Safe, ExtractHostnames
  PROVE  Safe'
<1>1. /\ pc = "extract" /\ workloads # <<>> /\ workloads' = Tail(workloads)
      /\ UNCHANGED <<world, informer, docker, crds, pc, at, left, known, during, throughout, hit, budget>>
  BY DEF ExtractHostnames, client, history
<1>2. PICK es \in ExtractAll(workloads[1], Registered) : found' = Merge(found, es)
  BY DEF ExtractHostnames
<1>3. Traced /\ IsSeq(workloads) /\ at > Len(Listers)
  BY <1>1 DEF Inv, Shape
<1>4. workloads[1] \in ToSet(workloads) /\ ToSet(workloads) = {workloads[1]} \cup ToSet(workloads')
  BY <1>1, <1>3, TailIsSeq
<1>5. IsSeq(es)
  <2>. DEFINE w == workloads[1]
  <2>1. (FromListing(w) \/ FromGuest(w)) /\ es \in ExtractAll(w, Registered)
    BY <1>2, <1>3, <1>4 DEF Traced
  <2>. HIDE DEF w
  <2>. QED BY <2>1, TracedWorkload, RegisteredSources, ExtractAllProps
<1>6. DOMAIN found' = DOMAIN found \cup ValidNames(es)
  BY <1>2, <1>5, MergeProps
<1>7. ASSUME NEW t \in throughout, Declares(t), Due(t) PROVE Due(t)'
  <2>1. Secured(t) => Secured(t)'
    <3>1. CASE t[2] \in DOMAIN found
      BY <1>6, <3>1 DEF Secured
    <3>2. CASE t[2] \notin DOMAIN found /\ Secured(t)
      <4>1. PICK w \in ToSet(workloads) : \A xs \in ExtractAll(w, Registered) : t[2] \in ValidNames(xs)
        BY <3>2 DEF Secured
      <4>2. CASE w = workloads[1]
        <5>1. t[2] \in ValidNames(es)
          BY <1>2, <4>1, <4>2
        <5>. QED BY <1>6, <5>1 DEF Secured
      <4>3. CASE w \in ToSet(workloads')
        BY <4>1, <4>3 DEF Secured
      <4>. QED BY <1>4, <4>1, <4>2, <4>3
    <3>. QED BY <3>1, <3>2
  <2>2. CASE PlatformOf[t[1]] = "file"
    BY <1>1, <2>2 DEF Due
  <2>3. CASE PlatformOf[t[1]] # "file"
    BY <1>3, <1>7, <2>1, <2>3, SecuredLate DEF Due
  <2>. QED BY <2>2, <2>3
<1>. QED BY <1>1, <1>7, SafeInCycle

LEMMA SafeFindFiles ==
  ASSUME Inv, Safe, FindFiles
  PROVE  Safe'
<1>. DEFINE fs == Filter(FileOrder, LAMBDA i : world[i] # Absent)
<1>1. /\ pc = "extract" /\ workloads = <<>> /\ pc' = "files"
      /\ UNCHANGED <<world, informer, docker, crds, at, workloads, found, known, during, throughout>>
      /\ \/ left' = fs /\ UNCHANGED hit
         \/ hit' = hit \cup Of("file")
  BY DEF FindFiles, client
<1>2. ToSet(fs) = {i \in Of("file") : world[i] # Absent}
  BY FilesFound
<1>. HIDE DEF fs
<1>3. /\ at > Len(Listers) /\ docker.mode \in DOMAIN Declared
      /\ \A k \in Items : Visible(k) \in Variants[k] \cup {Absent}
  BY <1>1 DEF Inv, Shape, TypeOK, Visible
<1>4. ASSUME NEW t \in throughout, Declares(t), Due(t), t[1] \notin hit' \cup Blind PROVE Due(t)'
  <2>1. Secured(t)' <=> Secured(t)
    BY <1>1 DEF Secured
  <2>2. CASE PlatformOf[t[1]] # "file"
    BY <1>3, <1>4, <2>1, <2>2, SecuredLate DEF Due
  <2>3. CASE PlatformOf[t[1]] = "file"
    <3>1. t[1] \in Items /\ t \in Names(t[1], Visible(t[1])) /\ Visible(t[1]) = world[t[1]]
      BY <1>4, <2>3 DEF Declares, Visible
    <3>2. world[t[1]] # Absent
      BY <1>3, <3>1, NamesOf
    <3>3. t[1] \in Of("file")
      BY <2>3, <3>1 DEF Of
    <3>4. t[1] \in ToSet(left')
      BY <1>1, <1>2, <1>4, <3>2, <3>3
    <3>. QED BY <1>1, <2>3, <3>4 DEF Due
  <2>. QED BY <2>2, <2>3
<1>. QED BY <1>1, <1>4, SafeInCycle

LEMMA SafeParseConfigFile ==
  ASSUME Inv, Safe, ParseConfigFile
  PROVE  Safe'
<1>. DEFINE i == left[1]
<1>1. /\ pc = "files" /\ left # <<>> /\ left' = Tail(left)
      /\ UNCHANGED <<world, informer, docker, crds, pc, at, workloads, known, during, throughout>>
      /\ hit \subseteq hit'
      /\ \/ UNCHANGED found /\ (i \in hit' \/ world[i] = Absent \/ world[i].torn)
         \/ /\ world[i] # Absent /\ ~world[i].torn
            /\ \E xs \in ExtractFromConfig(world[i].routers) : found' = Merge(found, MapSeq(TraefikHostname, xs))
  BY DEF ParseConfigFile, client, history
<1>2. /\ IsSeq(left) /\ at > Len(Listers) /\ docker.mode \in DOMAIN Declared
      /\ \A k \in Items : Visible(k) \in Variants[k] \cup {Absent}
  BY <1>1 DEF Inv, Shape, TypeOK, Visible
<1>3. i \in ToSet(left) /\ ToSet(left) = {i} \cup ToSet(left')
  BY <1>1, <1>2, TailIsSeq
<1>4. i \in Items /\ PlatformOf[i] = "file"
  BY <1>1, <1>3 DEF Inv, Traced
<1>. HIDE DEF i
<1>5. DOMAIN found \subseteq DOMAIN found'
  <2>1. CASE UNCHANGED found
    BY <2>1
  <2>2. CASE ~UNCHANGED found
    <3>1. PICK xs \in ExtractFromConfig(world[i].routers) : found' = Merge(found, MapSeq(TraefikHostname, xs))
      BY <1>1, <2>2
    <3>2. world[i] # Absent /\ ~world[i].torn
      BY <1>1, <2>2
    <3>3. IsSeq(MapSeq(TraefikHostname, xs))
      BY <1>1, <1>4, <3>2, ParsedFile
    <3>. QED BY <3>1, <3>3, MergeProps
  <2>. QED BY <2>1, <2>2
<1>6. ASSUME NEW t \in throughout, Declares(t), Due(t), t[1] \notin hit' PROVE Due(t)'
  <2>1. Secured(t) => Secured(t)'
    BY <1>1, <1>5 DEF Secured
  <2>2. CASE Secured(t) \/ PlatformOf[t[1]] # "file"
    BY <1>2, <1>6, <2>1, <2>2, SecuredLate DEF Due
  <2>3. CASE PlatformOf[t[1]] = "file" /\ t[1] \in ToSet(left')
    BY <1>1, <2>3 DEF Due
  <2>4. CASE t[1] = i
    <3>1. t \in Names(i, world[i]) /\ world[i] \in Variants[i] \cup {Absent}
      BY <1>2, <1>4, <1>6, <2>4 DEF Declares, Visible
    <3>2. world[i] # Absent /\ ~world[i].torn
      BY <1>2, <1>4, <3>1, NamesOf
    <3>3. PICK xs \in ExtractFromConfig(world[i].routers) : found' = Merge(found, MapSeq(TraefikHostname, xs))
      BY <1>1, <1>6, <2>4, <3>2
    <3>. DEFINE es == MapSeq(TraefikHostname, xs)
    <3>4. IsSeq(es)
      BY <1>1, <1>4, <3>2, ParsedFile
    <3>5. t[2] \in ValidNames(es)
      BY <1>2, <1>4, <3>1, FileKept
    <3>. HIDE DEF es
    <3>6. DOMAIN found' = DOMAIN found \cup ValidNames(es)
      BY <3>3, <3>4, MergeProps DEF es
    <3>7. Secured(t)'
      BY <3>5, <3>6 DEF Secured
    <3>. QED BY <3>7 DEF Due
  <2>5. Secured(t) \/ PlatformOf[t[1]] # "file" \/ t[1] \in ToSet(left)
    BY <1>1, <1>6 DEF Due
  <2>. QED BY <1>3, <2>2, <2>3, <2>4, <2>5
<1>. QED BY <1>1, <1>6, SafeInCycle

\* WorkloadsListed, Publish and steps that change nothing.
LEMMA SafeOnward ==
  ASSUME Inv, Safe, WorkloadsListed \/ Publish \/ UNCHANGED vars
  PROVE  Safe'
<1>1. UNCHANGED <<world, informer, docker, crds, at, left, workloads, found, during, throughout, hit>>
  BY DEF WorkloadsListed, Publish, vars, client, cycle, history
<1>2. \/ pc = "list" /\ pc' = "extract"
      \/ pc = "files" /\ left = <<>> /\ pc' = "done"
      \/ pc' = pc
  BY DEF WorkloadsListed, Publish, vars
<1>3. ASSUME NEW t \in throughout, Declares(t), Due(t) PROVE Due(t)'
  <2>1. (Secured(t)' <=> Secured(t)) /\ (\A j : Takes(j, t[1])' <=> Takes(j, t[1])) /\ \A k, obj : Names(k, obj)' = Names(k, obj)
    BY <1>1 DEF Secured, Takes, Visible, Names
  <2>2. CASE pc' = pc
    BY <1>1, <1>3, <2>1, <2>2 DEF Due
  <2>3. CASE pc = "list" /\ pc' = "extract"
    BY <1>1, <1>3, <2>1, <2>3 DEF Due
  <2>4. CASE pc = "files" /\ left = <<>> /\ pc' = "done"
    <3>1. ToSet(left) = {}
      BY <2>4, EmptyIsSeq
    <3>. QED BY <1>1, <1>3, <2>1, <2>4, <3>1 DEF Due
  <2>. QED BY <1>2, <2>2, <2>3, <2>4
<1>. QED BY <1>1, <1>3, SafeInCycle

LEMMA SafeNext ==
  ASSUME StableIdentity, LoopbackLocal, Inv, Safe, [Next]_vars
  PROVE  Safe'
<1>0. Inv'
  BY InvNext
<1>1. CASE Start \/ ConnectRetry \/ ListFails \/ Rest
  <2>1. pc' \in {"connect", "start", "stopped", "idle"}
    BY <1>1 DEF Start, Connect, StartWatcher, ConnectRetry, ListFails, Rest
  <2>2. throughout' = {}
    BY <1>0, <2>1 DEF Inv, Shape, Going
  <2>. QED BY <2>2 DEF Safe
<1>2. CASE \E i \in Items : Change(i) \/ Sync(i)
  BY <1>0, <1>2, SafeObjects
<1>3. CASE Begin
  BY <1>0, <1>3, SafeBegin
<1>4. CASE ListDocker \/ ListKubernetes \/ ListIncus
  BY <1>4, SafeListings
<1>5. CASE ListClusterResources
  BY <1>5, SafeListClusterResources
<1>6. CASE ResolveGuest
  BY <1>6, SafeResolveGuest
<1>7. CASE GuestsResolved
  BY <1>7, SafeGuestsResolved
<1>8. CASE ExtractHostnames
  BY <1>8, SafeExtractHostnames
<1>9. CASE FindFiles
  BY <1>9, SafeFindFiles
<1>10. CASE ParseConfigFile
  BY <1>10, SafeParseConfigFile
<1>11. CASE WorkloadsListed \/ Publish \/ UNCHANGED vars
  BY <1>11, SafeOnward
<1>. QED BY <1>1, <1>2, <1>3, <1>4, <1>5, <1>6, <1>7, <1>8, <1>9, <1>10, <1>11 DEF Next, Cycle

\* A name that an item declares all through a cycle is remembered at its end, unless a call
\* for that very item failed, the start missed its custom resource or the item moved in this
\* cycle to another node, guest type or project: no change of another object, no failure
\* elsewhere, no order of listing or of iteration and no mix of an old listing with a new
\* address hides it.  The premises say that an object of the cluster keeps its kind and that
\* loopback addresses are not routable.
THEOREM NoNameLost ==
  ASSUME StableIdentity, LoopbackLocal
  PROVE  Spec => []NothingLost
<1>1. Init => Safe
  BY DEF Init, Safe
<1>2. Inv /\ Safe /\ [Next]_vars => Safe'
  BY SafeNext
<1>3. Inv /\ Safe => NothingLost
  <2>. SUFFICES ASSUME Inv, Safe, pc = "done", NEW t \in throughout, t[1] \notin hit \cup Blind \cup Moved
                PROVE  t[2] \in DOMAIN known
    BY DEF NothingLost
  <2>1. known = found /\ workloads = <<>> /\ at > Len(Listers)
    BY DEF Inv, Shape
  <2>2. ToSet(workloads) = {}
    BY <2>1, EmptyIsSeq
  <2>3. Declares(t) /\ Due(t)
    BY DEF Safe
  <2>4. Secured(t)
    <3>1. CASE PlatformOf[t[1]] = "file"
      BY <2>3, <3>1 DEF Due
    <3>2. CASE PlatformOf[t[1]] # "file"
      BY <2>1, <2>3, <3>2, SecuredLate
    <3>. QED BY <3>1, <3>2
  <2>. QED BY <2>1, <2>2, <2>4 DEF Secured
<1>. QED BY <1>1, <1>2, <1>3, DiscoveryInvariant, PTL DEF Spec
=============================================================================
