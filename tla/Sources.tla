------------------------------- MODULE Sources -------------------------------
(***************************************************************************)
(* The sources under sources/: what each reports for one workload.         *)
(*                                                                         *)
(* Labels and annotations are functions from keys to values.  A key is the *)
(* tuple of the parts that the parsers tell apart:                         *)
(*   <<"dnsweaver", "hostname">>      dnsweaver.hostname                   *)
(*   <<"dnsweaver", "records", r, f>> dnsweaver.records.<r>.<f>            *)
(*   <<"dnsweaver.dev", ...>>         the annotation of the same name      *)
(*   <<"traefik", r, "rule">>         traefik.http.routers.<r>.rule        *)
(*   <<"caddy", n>>                   caddy (n = 0) and caddy_<n>          *)
(*   <<"user.label", ...>>            an incus-compose label               *)
(* Name lists are sequences of written names; a number that does not parse *)
(* is 0 in a TTL and -1 in an SRV field.  Go iterates over a map in any    *)
(* order, so an extraction is the set of sequences that can come out.      *)
(***************************************************************************)
EXTENDS Hostnames, Integers, Functions

CONSTANTS
    Listed,              \* DNSWEAVER_SOURCES, in order
    DefaultEntryPoints,  \* of the Traefik source, a sequence
    ProxmoxCfg,          \* [domain, tagPrefix, targetMode, state, node, tag, prefer, allowed]
    IncusCfg             \* [domain, targetMode, state, allProjects, projects]

SourceNames == {"traefik", "caddy", "nginx-proxy", "dnsweaver", "kubernetes", "proxmox", "incus"}

ASSUME SourcesAssumption ==
    IsSeq(Listed) /\ ToSet(Listed) \subseteq SourceNames /\ IsSeq(DefaultEntryPoints)

\* The labels or annotations of an object: the value of a name or router key is a list.
ListValued(k) ==
    \/ k[1] \in {"traefik", "caddy", "VIRTUAL_HOST", "com.nginx-proxy.virtual_host"}
    \/ k[Len(k)] \in {"hostname", "hostnames"}

Entry(k, v) ==
    IsSeq(k) /\ k # <<>> /\ (k[1] = "traefik" => Len(k) = 3) /\ (ListValued(k) => IsSeq(v))

IsLabels(f) == IsFiniteSet(DOMAIN f) /\ \A k \in DOMAIN f : Entry(k, f[k])

Get(f, k, default) == IF k \in DOMAIN f THEN f[k] ELSE default

\* Keeps the first of equal elements (the seen maps of the parsers).
Dedup(s) == Chosen(s, {i \in DOMAIN s : \A j \in 1..(i - 1) : s[j] # s[i]})

MapSeq(Op(_), s) == [i \in DOMAIN s |-> Op(s[i])]

-----------------------------------------------------------------------------
(* sources/traefik *)

\* One router: every host of its rule once for every entrypoint, or once without.
\* An extraction is <<host, router, entrypoint>>.
RouterExtractions(router, hosts, declared) ==
    LET eps == IF declared # <<>> THEN declared
               ELSE IF DefaultEntryPoints # <<>> THEN DefaultEntryPoints
               ELSE <<"">>
    IN  FlattenSeq(MapSeq(LAMBDA h : MapSeq(LAMBDA ep : <<h, router, ep>>, eps), Dedup(hosts)))

\* The first extraction of each (host, entrypoint) pair.
FirstOfPair(es) ==
    Chosen(es, {i \in DOMAIN es : \A j \in 1..(i - 1) : ~(es[j][1] = es[i][1] /\ es[j][3] = es[i][3])})

\* ExtractHostnames: the rule labels come in any order.
TraefikLabels(labels) ==
    LET routers == {k[2] : k \in {x \in DOMAIN labels : x[1] = "traefik" /\ x[3] = "rule"}}
        of(r) == RouterExtractions(r, labels[<<"traefik", r, "rule">>],
                                   Get(labels, <<"traefik", r, "entrypoints">>, <<>>))
    IN  {FirstOfPair(FlattenSeq(MapSeq(of, order))) : order \in SetToSeqs(routers)}

TraefikHostname(e) == Hostname(e[1], "traefik", e[2], NoHints, e[3])

TraefikExtract(w) == {MapSeq(TraefikHostname, es) : es \in TraefikLabels(w.labels)}

\* extractFromConfig: the routers of one file, again in any order.
ExtractFromConfig(routers) ==
    {FlattenSeq(MapSeq(LAMBDA r : RouterExtractions(r, routers[r].rule, routers[r].entryPoints),
                       order)) : order \in SetToSeqs(DOMAIN routers)}

-----------------------------------------------------------------------------
(* sources/caddy and sources/nginxproxy: sorted keys, lower-cased names. *)

KeyedNames(source, keys, labels) ==
    LET names == FlattenSeq(MapSeq(LAMBDA k : MapSeq(LAMBDA h : <<LowerCase(h), k>>, labels[k]), keys))
        first == Chosen(names, {i \in DOMAIN names : \A j \in 1..(i - 1) : names[j][1] # names[i][1]})
    IN  MapSeq(LAMBDA e : Hostname(e[1], source, "", NoHints, ""), first)

CaddyExtract(w) ==
    {KeyedNames("caddy", keys, w.labels) :
        keys \in {ks \in SetToSeqs({k \in DOMAIN w.labels : k[1] = "caddy"}) :
                     \A i, j \in DOMAIN ks : i < j => ks[i][2] < ks[j][2]}}

NginxProxyExtract(w) ==
    {KeyedNames("nginx-proxy",
                Filter(<<<<"VIRTUAL_HOST">>, <<"com.nginx-proxy.virtual_host">>>>,
                       LAMBDA k : k \in DOMAIN w.labels), w.labels)}

-----------------------------------------------------------------------------
(* sources/dnsweaver: the native labels. *)

\* The annotations dnsweaver.dev/<key> of a Kubernetes object count as dnsweaver.<key>,
\* and a label of the same name wins.
EffectiveLabels(w) ==
    LET own == {k \in DOMAIN w.annotations : k[1] = "dnsweaver.dev"}
        converted == [k \in {<<"dnsweaver">> \o Tail(x) : x \in own} |->
                         w.annotations[<<"dnsweaver.dev">> \o Tail(k)]]
    IN  IF w.platform = "kubernetes"
        THEN [k \in DOMAIN w.labels \cup DOMAIN converted |->
                 IF k \in DOMAIN w.labels THEN w.labels[k] ELSE converted[k]]
        ELSE w.labels

Proxied(v) == IF v \in {"true", "false"} THEN v ELSE ""

\* dnsweaver.hostname and dnsweaver.hostnames share one TTL and one proxied flag.
SimpleExtractions(labels) ==
    LET hints == [NoHints EXCEPT !.ttl = Get(labels, <<"dnsweaver", "ttl">>, 0),
                                 !.proxied = Proxied(Get(labels, <<"dnsweaver", "proxied">>, ""))]
    IN  MapSeq(LAMBDA h : Hostname(h, "dnsweaver", "", hints, ""),
               Get(labels, <<"dnsweaver", "hostname">>, <<>>)
                   \o Get(labels, <<"dnsweaver", "hostnames">>, <<>>))

\* One named record; SRV data is kept when at least one of its numbers parses.
RecordExtraction(labels, r) ==
    LET field(f, default) == Get(labels, <<"dnsweaver", "records", r, f>>, default)
        srv == /\ field("type", "") = "SRV" \/ <<"dnsweaver", "records", r, "port">> \in DOMAIN labels
               /\ \E f \in {"port", "priority", "weight"} : field(f, -1) # -1
        hints == [type |-> field("type", ""), target |-> field("target", ""),
                  ttl |-> field("ttl", 0), provider |-> field("provider", ""),
                  srv |-> srv, proxied |-> Proxied(field("proxied", ""))]
    IN  MapSeq(LAMBDA h : Hostname(h, "dnsweaver", r, hints, ""), field("hostname", <<>>))

\* ExtractHostnames: the simple labels, then the named records in any order.
DNSWeaverExtract(w) ==
    LET labels == EffectiveLabels(w)
        records == {k[3] : k \in {x \in DOMAIN labels :
                                     Len(x) = 4 /\ x[1] = "dnsweaver" /\ x[2] = "records"}}
        on == {r \in records : Get(labels, <<"dnsweaver", "records", r, "enabled">>, "true") # "false"}
    IN  IF Get(labels, <<"dnsweaver", "enabled">>, "true") = "false" THEN {<<>>}
        ELSE {SimpleExtractions(labels) \o FlattenSeq(MapSeq(LAMBDA r : RecordExtraction(labels, r), order)) :
                 order \in SetToSeqs(on)}

-----------------------------------------------------------------------------
(* sources/kubernetes *)

\* parseRecordHints; the proxied annotation is passed on unread.
ParseRecordHints(a) ==
    [NoHints EXCEPT !.type = Get(a, <<"dnsweaver.dev", "record-type">>, ""),
                    !.target = Get(a, <<"dnsweaver.dev", "target">>, ""),
                    !.ttl = Get(a, <<"dnsweaver.dev", "ttl">>, 0),
                    !.provider = Get(a, <<"dnsweaver.dev", "provider">>, ""),
                    !.proxied = Get(a, <<"dnsweaver.dev", "proxied">>, "")]

IsEnabled(a) == Get(a, <<"dnsweaver.dev", "enabled">>, "true") # "false"

KubernetesExtract(w) ==
    {IF IsEnabled(w.annotations)
     THEN MapSeq(LAMBDA h : Hostname(h, "kubernetes", w.name, ParseRecordHints(w.annotations), ""),
                 w.hostnames)
     ELSE <<>>}

-----------------------------------------------------------------------------
(* sources/proxmox and sources/incus: one name per guest that has an address. *)

\* A guest name is a written name; one label alone takes the configured domain.
Qualify(name, domain) ==
    IF Len(name.labels) > 1 THEN <<name>>
    ELSE IF domain # <<>> THEN <<[name EXCEPT !.labels = @ \o domain]>>
    ELSE <<>>

\* The first tag <prefix>+<name>, which stands even when it cannot be qualified.
ResolveHostnameFromTags(w) ==
    LET mine == Filter(w.tags, LAMBDA t : t[1] = ProxmoxCfg.tagPrefix /\ t[2] # <<>>)
        named == MapSeq(LAMBDA t : [labels |-> t[2], form |-> "plain"], mine)
    IN  IF ProxmoxCfg.tagPrefix = "" \/ named = <<>> THEN <<>>
        ELSE IF Qualify(named[1], ProxmoxCfg.domain) # <<>> THEN Qualify(named[1], ProxmoxCfg.domain)
        ELSE <<named[1]>>

ProxmoxHostname(w) ==
    IF ResolveHostnameFromTags(w) # <<>> THEN ResolveHostnameFromTags(w)
    ELSE Qualify(w.guest, ProxmoxCfg.domain)

\* user.dnsweaver.hostname, then the compose label, then the name of the instance.
IncusHostname(w) ==
    LET native == Get(w.labels, <<"user", "dnsweaver", "hostname">>, <<>>)
        compose == Get(w.labels, <<"dnsweaver", "hostname">>, <<>>)
    IN  IF native # <<>> THEN native
        ELSE IF compose # <<>> THEN compose
        ELSE Qualify(w.guest, IncusCfg.domain)

GuestHints(mode, ip) ==
    IF mode = "guest-ip" THEN [NoHints EXCEPT !.type = "A", !.target = ip] ELSE NoHints

GuestExtract(source, w, names, mode) ==
    {IF w.ip = "" THEN <<>>
     ELSE MapSeq(LAMBDA h : Hostname(h, source, w.name, GuestHints(mode, w.ip), ""), names)}

ProxmoxExtract(w) == GuestExtract("proxmox", w, ProxmoxHostname(w), ProxmoxCfg.targetMode)

IncusExtract(w) == GuestExtract("incus", w, IncusHostname(w), IncusCfg.targetMode)

-----------------------------------------------------------------------------
(* pkg/source/registry.go and registerSources. *)

\* The listed sources, then those of the platforms in use that nobody listed.
RegisterSources(platforms) ==
    Listed \o Filter(<<"kubernetes", "proxmox", "incus">>,
                     LAMBDA s : s \in platforms /\ ~Contains(Listed, s))

Extract(src, w) ==
    CASE src = "traefik" -> TraefikExtract(w)
      [] src = "caddy" -> CaddyExtract(w)
      [] src = "nginx-proxy" -> NginxProxyExtract(w)
      [] src = "dnsweaver" -> DNSWeaverExtract(w)
      [] src = "kubernetes" -> KubernetesExtract(w)
      [] src = "proxmox" -> ProxmoxExtract(w)
      [] src = "incus" -> IncusExtract(w)

SourceSupports(src, platform) ==
    src \in {"kubernetes", "proxmox", "incus"} => src = platform

\* Fault: annotations are not read.
IsWorkloadDisabledByLabel(w) == Get(w.labels, <<"dnsweaver", "enabled">>, "true") = "false"

IsWorkloadDisabled(w) ==
    \/ Get(w.labels, <<"dnsweaver", "enabled">>, "true") = "false"
    \/ Get(w.annotations, <<"dnsweaver.dev", "enabled">>, "true") = "false"

\* ExtractAll: the reports of all sources in the order they were registered.
ExtractAll(w, registered) ==
    IF IsWorkloadDisabled(w) THEN {<<>>}
    ELSE LET srcs == Filter(registered, LAMBDA s : SourceSupports(s, w.platform))
             all[n \in 0..Len(srcs)] ==
                 IF n = 0 THEN {<<>>} ELSE {a \o b : a \in all[n - 1], b \in Extract(srcs[n], w)}
         IN  all[Len(srcs)]
=============================================================================
