----------------------------- MODULE MCDiscovery -----------------------------
(* Six objects on five platforms, a few shapes of each. *)
EXTENDS Discovery, TLC

MCWords == {"a", "b", "c", "g", "v", "lan", "eth1"}
MCUnderscored == {"_mc", "_tcp"}

N(labels, form) == [labels |-> labels, form |-> form]
A == N(<<"a", "lan">>, "plain")
B == N(<<"b", "lan">>, "plain")
C == N(<<"c", "lan">>, "plain")
Srv == N(<<"_mc", "_tcp", "lan">>, "plain")
Bad == N(<<"_mc", "lan">>, "plain")

NoEntryPoints == <<>>
MCFileOrder == <<"f">>
MCListed == <<"traefik", "dnsweaver", "caddy", "nginx-proxy">>
MCProxmoxCfg == [domain |-> <<"lan">>, tagPrefix |-> "dns", targetMode |-> "guest-ip", state |-> "running",
                 node |-> "", tag |-> "", prefer |-> "if", allowed |-> {}]
MCIncusCfg == [domain |-> <<"lan">>, targetMode |-> "guest-ip", state |-> "running",
               allProjects |-> FALSE, projects |-> <<"default", "web">>]
MCKubernetesCfg == [namespaces |-> {}, selector |-> {}, annotation |-> <<>>,
                    kinds |-> {"Ingress", "Service", "IngressRoute", "HTTPRoute"}]

Container(status, labels) == [kind |-> "container", status |-> status, labels |-> labels]
Routed == <<"traefik", "r", "rule">> :> <<A>> @@ <<"traefik", "r", "entrypoints">> :> <<"webA", "webB">>
Native == <<"dnsweaver", "hostname">> :> <<N(<<"a", "lan">>, "upper")>> @@ <<"dnsweaver", "ttl">> :> 60
          @@ <<"dnsweaver", "hostnames">> :> <<B, Bad>>
Named == <<"dnsweaver", "records", "m", "hostname">> :> <<Srv>> @@ <<"dnsweaver", "records", "m", "type">> :> "SRV"
         @@ <<"dnsweaver", "records", "m", "port">> :> 25565
         @@ <<"dnsweaver", "records", "n", "hostname">> :> <<A>> @@ <<"dnsweaver", "records", "n", "target">> :> "x"
         @@ <<"dnsweaver", "records", "o", "hostname">> :> <<A>>
Proxy == <<"caddy", 0>> :> <<A>> @@ <<"caddy", 1>> :> <<N(<<"a", "lan">>, "upper"), B>>
         @@ <<"VIRTUAL_HOST">> :> <<C>>
Off == <<"dnsweaver", "enabled">> :> "false" @@ Routed
Denied == <<"dnsweaver.dev", "enabled">> :> "false"

Object(kind, labels, annotations, rules, tls) ==
    [kind |-> kind, namespace |-> "web", labels |-> labels, annotations |-> annotations,
     rules |-> rules, tls |-> tls]
Hinted == <<"dnsweaver.dev", "record-type">> :> "A" @@ <<"dnsweaver.dev", "target">> :> "x"
Svc == <<"dnsweaver.dev", "hostname">> :> <<C>> @@ <<"external-dns", "hostname">> :> <<N(<<"c", "lan">>, "upper"), C>>

Iface(name, addrs) == [name |-> name, addrs |-> addrs]
Guest(type, agent, net0, ifaces, tags) ==
    [type |-> type, status |-> "running", node |-> "n1", name |-> N(<<"c">>, "plain"), tags |-> tags,
     agent |-> agent, net0 |-> net0, ifaces |-> ifaces]
Instance(project, config, ifaces) ==
    [status |-> "running", project |-> project, name |-> N(<<"v">>, "plain"), config |-> config,
     ifaces |-> ifaces, scoped |-> {"fe80"}]
File(torn, routers) == [torn |-> torn, routers |-> routers]
R1 == "r1" :> [rule |-> <<A>>, entryPoints |-> <<>>]
R2 == R1 @@ "r2" :> [rule |-> <<A, B>>, entryPoints |-> <<"webA">>]

MCVariants ==
    [d |-> {Container("running", l) : l \in {Routed, Native, Named, Proxy, Off}}
               \cup {Container("exited", Routed), [Container("running", Routed) EXCEPT !.kind = "service"]},
     k |-> {Absent, Object("Ingress", NoMap, Hinted, <<A>>, <<A, B>>), Object("Service", NoMap, Svc, <<>>, <<>>)},
     c |-> {Object("IngressRoute", NoMap, NoMap, <<B, C>>, <<>>),
            Object("HTTPRoute", Routed, Denied, <<C>>, <<>>)},
     g |-> {Absent, Guest("lxc", FALSE, "ip1", <<>>, <<<<"dns", <<"g">>>>>>),
            [Guest("lxc", FALSE, "ip1", <<>>, <<<<"dns", <<"g">>>>>>) EXCEPT !.node = "n2"],
            Guest("lxc", FALSE, "dhcp", <<>>, <<>>),
            Guest("qemu", TRUE, "", <<Iface("lo", <<"127">>), Iface("eth0", <<"169", "ip1">>), Iface("eth1", <<"ip2">>)>>,
                  <<<<"if", <<"eth1">>>>>>),
            Guest("qemu", FALSE, "", <<Iface("eth0", <<"ip1">>)>>, <<>>)},
     v |-> {Instance("web", NoMap, <<Iface("eth0", <<"fe80", "ip2">>)>>),
            Instance("default", NoMap, <<Iface("eth0", <<"ip2">>)>>),
            Instance("web", <<"user.label", "dnsweaver", "hostname">> :> <<A>>, <<Iface("eth0", <<"ip1">>)>>),
            Instance("other", NoMap, <<Iface("eth0", <<"ip2">>)>>)},
     f |-> {Absent, File(TRUE, R1), File(FALSE, R2)}]

MCItems == DOMAIN MCVariants
MCPlatformOf == [d |-> "docker", k |-> "kubernetes", c |-> "kubernetes", g |-> "proxmox", v |-> "incus", f |-> "file"]

\* Two worlds to start from: one with an object of every kind, one nearly empty.
Full == [d |-> Container("running", Routed), k |-> Object("Ingress", NoMap, Hinted, <<A>>, <<A, B>>),
         c |-> Object("IngressRoute", NoMap, NoMap, <<B, C>>, <<>>),
         g |-> Guest("lxc", FALSE, "ip1", <<>>, <<<<"dns", <<"g">>>>>>),
         v |-> Instance("web", NoMap, <<Iface("eth0", <<"fe80", "ip2">>)>>), f |-> File(FALSE, R2)]
Bare == [d |-> Container("running", Off), k |-> Absent,
         c |-> Object("HTTPRoute", Routed, Denied, <<C>>, <<>>),
         g |-> Absent, v |-> Instance("other", NoMap, <<Iface("eth0", <<"ip2">>)>>), f |-> Absent]
MCWorlds == {Full, Bare}

ASSUME PremisesHold == StableIdentity /\ LoopbackLocal

MCDaemons == {[active |-> FALSE, manager |-> FALSE], [active |-> TRUE, manager |-> TRUE],
              [active |-> TRUE, manager |-> FALSE]}

Everything == [includes |-> {<<"*", "lan">>}, excludes |-> {}, useRegex |-> FALSE]
MCInstances == [lan |-> [matcher |-> Everything, entryPoints |-> {"webA"}],
                vpn |-> [matcher |-> Everything, entryPoints |-> {"webB"}]]
=============================================================================
