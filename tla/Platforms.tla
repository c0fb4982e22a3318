------------------------------ MODULE Platforms ------------------------------
(***************************************************************************)
(* The workload listers: how the objects of Docker, Kubernetes, Proxmox VE *)
(* and Incus become workloads (internal/docker, internal/kubernetes,       *)
(* internal/proxmox, internal/incus).  An object is a record of what its   *)
(* API reports.                                                            *)
(***************************************************************************)
EXTENDS Sources

CONSTANTS
    Routable,       \* the addresses that isNonRoutableIP accepts
    CleanupOnStop,  \* DNSWEAVER_CLEANUP_ON_STOP
    DockerMode,     \* DNSWEAVER_DOCKER_MODE: "auto", "swarm" or "standalone"
    KubernetesCfg   \* [namespaces, selector, annotation, kinds]; {} and <<>> filter nothing

KubernetesKinds == {"Ingress", "IngressRoute", "HTTPRoute", "Service"}

ASSUME PlatformsAssumption ==
    IsSeq(IncusCfg.projects) /\ KubernetesCfg.kinds \subseteq KubernetesKinds /\ "" \notin Routable

NoMap == [k \in {} |-> ""]

\* A workload without the parts that only some platforms fill in.
Workload(platform, name, labels) ==
    [platform |-> platform, name |-> name, labels |-> labels, annotations |-> NoMap,
     hostnames |-> <<>>, guest |-> [labels |-> <<>>, form |-> "plain"], ip |-> "", tags |-> <<>>]

-----------------------------------------------------------------------------
(* internal/docker *)

\* initializeMode with a daemon that answers: the detected mode, or a terminal error.
InitializeMode(daemon) ==
    IF DockerMode = "standalone" \/ (DockerMode = "auto" /\ ~daemon.active) THEN "standalone"
    ELSE IF daemon.active /\ daemon.manager THEN "swarm"
    ELSE "error"

IsDockerObject(obj) == IsLabels(obj.labels)

ListServices(obj) == obj.kind = "service"

\* Stopped containers count only when records survive a stop.
ListContainers(obj) ==
    /\ obj.kind = "container"
    /\ obj.status \in {"running"} \cup (IF CleanupOnStop THEN {} ELSE {"paused", "exited", "created"})

DockerLists(mode, obj) == IF mode = "swarm" THEN ListServices(obj) ELSE ListContainers(obj)

DockerWorkload(i, obj) == Workload("docker", i, obj.labels)

-----------------------------------------------------------------------------
(* internal/kubernetes *)

IsKubernetesObject(obj) ==
    IsLabels(obj.labels) /\ IsLabels(obj.annotations) /\ IsSeq(obj.rules) /\ IsSeq(obj.tls)

\* The names an object carries: rules then TLS hosts of an Ingress, the matches of an
\* IngressRoute, the hostnames of an HTTPRoute.
ConvertIngress(obj) == obj.rules \o Filter(Dedup(obj.tls), LAMBDA h : ~Contains(obj.rules, h))

ConvertIngressRoute(obj) == Dedup(obj.rules)

ConvertHTTPRoute(obj) == Dedup(obj.rules)

\* A Service has names in annotations only: external-dns first, then its own.
ConvertService(obj) ==
    Dedup(Get(obj.annotations, <<"external-dns", "hostname">>, <<>>)
              \o Get(obj.annotations, <<"dnsweaver.dev", "hostname">>, <<>>)
              \o Get(obj.annotations, <<"dnsweaver.dev", "hostnames">>, <<>>))

KubernetesWorkload(i, obj) ==
    LET names == CASE obj.kind = "Ingress" -> ConvertIngress(obj)
                   [] obj.kind = "IngressRoute" -> ConvertIngressRoute(obj)
                   [] obj.kind = "HTTPRoute" -> ConvertHTTPRoute(obj)
                   [] obj.kind = "Service" -> ConvertService(obj)
    IN  [Workload("kubernetes", i, obj.labels) EXCEPT !.annotations = obj.annotations,
                                                      !.hostnames = names]

\* The filter <<key, value>> wants the annotation; the selector is on labels.
MatchAnnotationFilter(annotations) ==
    KubernetesCfg.annotation = <<>> \/ Get(annotations, KubernetesCfg.annotation[1], "") = KubernetesCfg.annotation[2]

KubernetesLists(obj) ==
    /\ obj.kind \in KubernetesCfg.kinds
    /\ KubernetesCfg.selector \subseteq DOMAIN obj.labels
    /\ KubernetesCfg.namespaces = {} \/ obj.namespace \in KubernetesCfg.namespaces
    /\ MatchAnnotationFilter(obj.annotations)

-----------------------------------------------------------------------------
(* internal/proxmox *)

\* The network interfaces of a guest.
AreInterfaces(fs) == IsSeq(fs) /\ \A j \in DOMAIN fs : IsSeq(fs[j].addrs)

IsProxmoxObject(obj) == IsSeq(obj.tags) /\ AreInterfaces(obj.ifaces) /\ "net0" \in DOMAIN obj

HasTagWithPrefix(tags, prefix) == \E i \in DOMAIN tags : tags[i][1] = prefix

ProxmoxLists(obj) ==
    /\ obj.status = ProxmoxCfg.state
    /\ ProxmoxCfg.node \in {"", obj.node}
    /\ ProxmoxCfg.tag = "" \/ HasTagWithPrefix(obj.tags, ProxmoxCfg.tag)

\* The first address that a record may point at, or "".
FirstAddress(addrs) ==
    LET good == Filter(addrs, LAMBDA a : a \in Routable)
    IN  IF good = <<>> THEN "" ELSE good[1]

\* LXC: the static address of net0; "dhcp" is not an address.
ResolveLXCIP(obj) == FirstAddress(<<obj.net0>>)

\* The interface that a tag names, else the first allowed one, else none.
SelectInterfaceForIP(ifaces, preference) ==
    LET allowed == Filter(ifaces, LAMBDA f : f.name \in ProxmoxCfg.allowed)
    IN  IF preference # "" THEN preference
        ELSE IF allowed # <<>> THEN allowed[1].name
        ELSE ""

\* The first tag <prefix>+<interface>.
ParseInterfacePreferenceFromTags(tags) ==
    LET mine == Filter(tags, LAMBDA t : t[1] = ProxmoxCfg.prefer)
    IN  IF ProxmoxCfg.prefer = "" \/ mine = <<>> THEN "" ELSE mine[1][2][1]

\* QEMU: the selected interface when it has an address, else the first address of any;
\* a guest whose agent does not run has none.
ResolveVMIP(obj, tags) ==
    LET selected == SelectInterfaceForIP(obj.ifaces, ParseInterfacePreferenceFromTags(tags))
        of(fs) == FirstAddress(FlattenSeq(MapSeq(LAMBDA f : f.addrs, fs)))
        chosen == of(Filter(obj.ifaces, LAMBDA f : f.name = selected))
    IN  IF ~obj.agent THEN ""
        ELSE IF chosen # "" THEN chosen
        ELSE of(Filter(obj.ifaces, LAMBDA f : f.name # "lo"))

\* Only the two known guest types resolve; the tags are those of the listing.
ResolvesIP(obj) == obj.type \in {"lxc", "qemu"}

ResolveIP(obj, tags) == IF obj.type = "lxc" THEN ResolveLXCIP(obj) ELSE ResolveVMIP(obj, tags)

ProxmoxWorkload(i, obj, ip) ==
    [Workload("proxmox", i, NoMap) EXCEPT !.guest = obj.name, !.ip = ip, !.tags = obj.tags]

-----------------------------------------------------------------------------
(* internal/incus *)

\* A compose label is a key of its own behind the prefix.
IsIncusObject(obj) ==
    /\ IsLabels(obj.config) /\ AreInterfaces(obj.ifaces)
    /\ \A k \in DOMAIN obj.config : k[1] = "user.label" => Entry(Tail(k), obj.config[k])

\* Running instances of the project a lister is bound to; "*" is all projects.
IncusLists(obj, project) == obj.status = IncusCfg.state /\ project \in {"*", obj.project}

\* Fault: takes the first address of an interface, whatever its family and scope.
IncusFirstIP(obj) ==
    LET all == FlattenSeq(MapSeq(LAMBDA f : f.addrs, obj.ifaces))
    IN  IF all = <<>> THEN "" ELSE all[1]

\* The first global IPv4 address in the order of the interface names.
IncusResolveIP(obj) ==
    LET usable == Filter(obj.ifaces, LAMBDA f : f.name # "lo")
        global == MapSeq(LAMBDA f : Filter(f.addrs, LAMBDA a : a \notin obj.scoped), usable)
    IN  FirstAddress(FlattenSeq(global))

\* toWorkload: config keys are labels, and an incus-compose label is also visible without
\* its prefix unless a label of that name exists.
IncusWorkload(i, obj) ==
    LET stripped == {Tail(k) : k \in {x \in DOMAIN obj.config : x[1] = "user.label"}} \ DOMAIN obj.config
        labels == [k \in DOMAIN obj.config \cup stripped |->
                      IF k \in DOMAIN obj.config THEN obj.config[k]
                      ELSE obj.config[<<"user.label">> \o k]]
    IN  [Workload("incus", i, labels) EXCEPT !.guest = obj.name, !.ip = IncusResolveIP(obj)]

\* The Incus listers of a configuration: one for all projects or one per project.
IncusListers ==
    MapSeq(LAMBDA p : <<"incus", p>>, IF IncusCfg.allProjects THEN <<"*">> ELSE IncusCfg.projects)
=============================================================================
