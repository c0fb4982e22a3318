------------------------------- MODULE Providers -------------------------------
(***************************************************************************)
(* The calls of the reconciler on one DNS provider of any kind, request by *)
(* request, with other clients of the backend between the requests and     *)
(* requests that fail before or after their effect; and the contract they  *)
(* implement, module RecordStore.                                          *)
(***************************************************************************)
EXTENDS Cloudflare, OVH, Technitium, Webhook, PowerDNS, AdGuard, Pihole, Dnsmasq,
        PfSense, OPNsense

(* What the reconciler is told of a provider: the types it may ask for (an *)
(* ownership marker is a TXT record, so SupportsOwnershipTXT counts as     *)
(* TXT) and whether to call Update. "stores" is what Create really keeps.  *)
Capabilities ==
  CASE kind = "cloudflare" -> CloudflareCapabilities
    [] kind = "ovh"        -> OvhCapabilities
    [] kind = "technitium" -> TechnitiumCapabilities
    [] kind = "webhook"    -> WebhookCapabilities
    [] kind = "powerdns"   -> PowerDNSCapabilities
    [] kind = "adguard"    -> AdGuardCapabilities
    [] kind \in {"pihole5", "pihole6"} -> PiholeCapabilities
    [] kind = "dnsmasq"    -> DnsmasqCapabilities
    [] kind = "opnsense"   -> OPNsenseCapabilities
    [] OTHER               -> PfSenseCapabilities

FirstStep(op) ==
  IF kind \in {"cloudflare", "ovh"} /\ once # "known" THEN "lookup"
  ELSE IF kind = "pihole6" /\ ~session THEN "login" ELSE op

(* The reconciler calls List, Create, Delete or Update.                    *)
Requested ==
  LET types == Capabilities.types
  IN  [op : {"list"}]
      \cup {[op |-> o, rec |-> Key(Target, t, v)] : o \in {"create", "delete"}, t \in types, v \in Vals}
      \cup {c \in {[op |-> "update", rec |-> Key(Target, t, v), old |-> Key(Target, t, w)] :
                       t \in types, v \in Vals, w \in Vals} : Capabilities.update /\ c.rec # c.old}
Invoke(c) ==
  /\ call = NoCall
  /\ call' = c
  /\ pc' = FirstStep(c.op)
  /\ result' = "none" /\ listed' = {}
  /\ UNCHANGED <<kind, backend, client, progress, outside>>

(* Another client adds or removes a record of the backend.                 *)
MayInterfere == /\ outside < MaxOutside
                /\ call = NoCall \/ kind \in Interference
OutsideTags == CASE kind \in {"powerdns", "adguard"} -> {"on", "off"}
                 [] kind = "pihole6" -> IF SharedLines THEN {"on", "shared"} ELSE {"on"}
                 [] kind \in {"pfsense", "pfsenseForwarder", "opnsense"} -> {"me", "peer", "foreign"}
                 [] OTHER -> {"on"}
OutsideAdd(n, t, v, g) ==
  LET k == Key(n, t, v)
  IN  /\ MayInterfere /\ ~Full /\ ~Clash(k) /\ RowsAt(k) = {}
      /\ t \in Capabilities.stores /\ g \in OutsideTags
      /\ n = Other => t = "A"
      /\ Positional => \A r \in rows : r.name = n => r.tag = g
      /\ kind = "pfsenseForwarder" => \A r \in rows : r.name # n
      /\ rows' = Accept(k, g)
      /\ outside' = outside + 1
OutsideRemove(r) ==
  /\ MayInterfere
  /\ rows' = Renumbered(rows \ {r})
  /\ outside' = outside + 1
Outside ==
  /\ \/ \E n \in {Target, Other}, t \in Types, v \in Vals, g \in OutsideTags : OutsideAdd(n, t, v, g)
     \/ \E r \in rows : OutsideRemove(r)
  /\ UNCHANGED <<kind, served, client, call, pc, progress, result, listed>>

-----------------------------------------------------------------------------
(* The contract.                                                           *)
Zone == {Stored(r) : r \in rows}
Wide == kind \in {"technitium", "pfsense", "pfsenseForwarder"}
Precise == kind \notin {"cloudflare", "ovh", "webhook"}
Exact == kind \notin {"cloudflare", "ovh", "opnsense"}
Torn == kind = "dnsmasq"

Contract == INSTANCE RecordStore WITH
  zone <- Zone, wide <- Wide, precise <- Precise, exact <- Exact, torn <- Torn, stores <- Capabilities.stores

(* History of the call, for the contract.                                  *)
Remember ==
  IF call' = NoCall THEN past' = {} /\ kept' = {} /\ done' = FALSE
  ELSE IF call = NoCall
  THEN past' = Zone /\ kept' = Zone /\ done' = Contract!Goal(call', {}, Zone)
  ELSE /\ past' = past \cup Zone'
       /\ kept' = kept \cap Zone'
       /\ done' = (done \/ Contract!Goal(call, past, Zone'))

Step ==
  \/ \E c \in Requested : Invoke(c)
  \/ CloudflareNext \/ OvhNext \/ TechnitiumNext \/ WebhookNext \/ PowerDNSNext
  \/ AdGuardNext \/ PiholeNext \/ DnsmasqNext \/ PfSenseNext \/ OPNsenseNext
  \/ Outside

Next == Step /\ Remember

Spec == Init /\ [][Next]_vars

-----------------------------------------------------------------------------
(* Type invariant: ids name at most one row where the backend numbers its  *)
(* rows, and positions have no gaps where they are array indices.          *)
TypeOK ==
  /\ kind \in Kinds
  /\ \A r \in rows : r.name \in {Target, Other} /\ r.id \in 0..MaxRows
  /\ Numbered => \A r, s \in rows : r.id = s.id => r = s
  /\ Positional => /\ {r.id : r \in rows} = 1..Cardinality({r.name : r \in rows})
                   /\ \A r, s \in rows : (r.id = s.id) <=> (r.name = s.name)
  /\ once \in {"unknown", "known", "failed"} /\ session \in BOOLEAN
  /\ result \in Results \cup {"none"} /\ tries \in 0..Retries
  /\ (call = NoCall) <=> (pc = "idle")

(* Every kind of provider keeps the contract the reconciler relies on:     *)
(* List, Create, Delete and Update touch the record set of the call only   *)
(* (the other records of the set survive read-modify-write), "ok" means    *)
(* what it says, and a listing taken in several requests omits no record   *)
(* that was there throughout.                                              *)
Implements == Contract!Spec

(* Host overrides without dnsweaver's description are the operator's: no   *)
(* call changes or removes one (pfsense and opnsense, Create and Delete).  *)
ForeignRows == {KeyOf(r) : r \in {x \in rows : x.tag = "foreign"}}
OperatorRowsKept ==
  [][call # NoCall /\ outside' = outside => ForeignRows \subseteq ForeignRows']_vars

(* With reconfiguration after every write, a firewall provider that says   *)
(* it created a record serves it: the apply request of maybeApply and      *)
(* maybeReconfigure comes after the change and its failure is the call's.  *)
(* A record that was stored before the call is excepted (Create then       *)
(* returns without applying).                                              *)
AppliedWhenOk ==
  [][/\ Positional \/ kind = "opnsense"
     /\ PerWrite /\ call # NoCall /\ call' = NoCall /\ result' = "ok" /\ call.op = "create"
     /\ \A x \in kept : Key(x.name, x.type, x.val) # call.rec
     /\ RowsAt(call.rec) # {}
     => call.rec \in served']_vars
=============================================================================
