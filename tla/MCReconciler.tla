---------------------------- MODULE MCReconciler ----------------------------
(***************************************************************************)
(* Small configurations of Reconciler for TLC.  Each run's cfg names the   *)
(* Cfg, Opt, Specs and initial records it takes from here.                 *)
(***************************************************************************)
EXTENDS Reconciler, TLC

\* A host name with no hints, from a workload.
Plain == [provider |-> "", type |-> "", target |-> "", srv |-> NoSRV, meta |-> NoMeta,
          label |-> "web", lower |-> TRUE, file |-> FALSE]

\* A provider instance of copy "c1" on an ordinary backend.
BaseProv == [owner |-> "c1", rank |-> 1, backend |-> "b1", identity |-> "b1", type |-> "A",
             target |-> "t1", pool |-> {"t1", "t2"}, mode |-> "managed", domain |-> Hosts,
             filter |-> Labels, caps |-> Types, txt |-> TRUE, native |-> FALSE,
             exact |-> TRUE]

\* The default options of a copy.
BaseCopy == [id |-> "id1", tracking |-> TRUE, adopt |-> FALSE, cleanup |-> TRUE,
             dryRun |-> FALSE]

A(h, t) == [host |-> h, type |-> "A", target |-> t, srv |-> NoSRV]
Mark(h, id) == [host |-> h, id |-> id, meta |-> NoMeta]

NoRecords == [b \in Backends |-> {}]
PlainOnly == {Plain}
ManualA == {A(h, t) : h \in Hosts, t \in Targets}
ManualT2 == {A(h, "t2") : h \in Hosts}
HostSymmetry == Permutations(Hosts)

\* One copy, one provider instance: default options, and variations of one of them.
SoloCfg == [p \in Prov |-> BaseProv]
SoloOpt == [i \in Copies |-> BaseCopy]
UntrackedOpt == [i \in Copies |-> [BaseCopy EXCEPT !.tracking = FALSE]]
DryUntrackedOpt == [i \in Copies |-> [BaseCopy EXCEPT !.tracking = FALSE, !.dryRun = TRUE]]
AuthoritativeCfg == [p \in Prov |-> [BaseProv EXCEPT !.mode = "authoritative"]]
AdditiveCfg == [p \in Prov |-> [BaseProv EXCEPT !.mode = "additive"]]

\* One copy that publishes to two backends.  Two of its instances are declared for the
\* same backend with different targets; the other backend updates in place.
SharedCfg == ("p1" :> BaseProv)
          @@ ("p2" :> [BaseProv EXCEPT !.rank = 2, !.target = "t2"])
          @@ ("p3" :> [BaseProv EXCEPT !.rank = 3, !.backend = "b2", !.identity = "b2",
                                       !.native = TRUE, !.mode = "additive"])

\* Two copies with their own instance ids on one backend: one managed and one
\* authoritative, or both managed and adopting.
FleetCfg == ("p1" :> BaseProv)
         @@ ("p2" :> [BaseProv EXCEPT !.owner = "c2", !.mode = "authoritative"])
FleetOpt == ("c1" :> BaseCopy) @@ ("c2" :> [BaseCopy EXCEPT !.id = "id2"])
TwinCfg == ("p1" :> BaseProv) @@ ("p2" :> [BaseProv EXCEPT !.owner = "c2"])
TwinOpt == ("c1" :> [BaseCopy EXCEPT !.adopt = TRUE])
        @@ ("c2" :> [BaseCopy EXCEPT !.id = "id2", !.adopt = TRUE])

\* One copy in dry-run mode with one provider instance for each way of deleting, restarted
\* on records and markers that it wrote before.
ModesCfg == ("p1" :> BaseProv)
         @@ ("p2" :> [BaseProv EXCEPT !.rank = 2, !.backend = "b2", !.identity = "b2",
                                      !.mode = "authoritative"])
         @@ ("p3" :> [BaseProv EXCEPT !.rank = 3, !.backend = "b3", !.identity = "b3",
                                      !.txt = FALSE])
DryOpt == [i \in Copies |-> [BaseCopy EXCEPT !.dryRun = TRUE]]
UsedZone == [b \in Backends |-> {A(h, "t1") : h \in Hosts}]
UsedTxt == [b \in Backends |-> IF b = "b3" THEN {} ELSE {Mark(h, "id1") : h \in Hosts}]

\* A and AAAA instances for the same names of one backend.
DualCfg == ("p1" :> BaseProv)
        @@ ("p2" :> [BaseProv EXCEPT !.rank = 2, !.type = "AAAA", !.target = "t6",
                                     !.pool = {"t6"}])

\* Hints: SRV records with changing data, metadata, an explicit provider, a name in mixed
\* case, a name from a file, a name of another entry point.
SrvHint(d) == [Plain EXCEPT !.type = "SRV", !.srv = d]
HintSpecs == {SrvHint("s1"), SrvHint("s2"), [Plain EXCEPT !.meta = "m1", !.lower = FALSE],
              [Plain EXCEPT !.provider = "p2", !.file = TRUE], [Plain EXCEPT !.label = "int"]}
HintCfg == ("p1" :> [BaseProv EXCEPT !.filter = {"web"}, !.native = TRUE])
        @@ ("p2" :> [BaseProv EXCEPT !.rank = 2, !.backend = "b2", !.identity = "b2",
                                     !.domain = {}, !.exact = FALSE, !.type = "CNAME"])
MetaSpecs == {[Plain EXCEPT !.meta = "m1"], Plain}
HintManual == {[host |-> h, type |-> "CNAME", target |-> "t1", srv |-> NoSRV] : h \in Hosts}
=============================================================================
