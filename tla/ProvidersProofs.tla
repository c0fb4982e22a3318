---------------------------- MODULE ProvidersProofs ----------------------------
(***************************************************************************)
(* Proofs about Providers: the backend's rows keep their numbering, no call*)
(* touches an operator's host override, a firewall provider that says it   *)
(* created a record serves it, and every kind of provider implements the   *)
(* contract RecordStore, under the configuration SoundConfig.              *)
(***************************************************************************)
EXTENDS Providers, FiniteSetTheorems, TLAPS

(* The overrides of a pfSense are addressed by their position, so nobody   *)
(* else changes them while a call is under way.                            *)
FirewallAlone == Interference \cap {"pfsense", "pfsenseForwarder"} = {}

(* What the contract needs of an instance. Each conjunct excludes a        *)
(* behaviour that really breaks it (see the README): two writers of one    *)
(* dnsmasq file, the zone's own name at OVH, a Pi-hole reply that is not   *)
(* the expected JSON, a hosts line with several names, a target that is a  *)
(* prefix of another, more records of a type than Cloudflare's first page  *)
(* holds. The last one is about the values: an address is of one family.   *)
SoundConfig ==
  /\ FirewallAlone
  /\ "dnsmasq" \notin Interference
  /\ ~Apex /\ ~OddReplies /\ ~SharedLines
  /\ Prefixes = {}
  /\ PageSize >= MaxRows
  /\ ~({"A", "AAAA"} \subseteq Types)

Ops == {"list", "create", "delete", "update"}
ZoneOf(s) == {Stored(r) : r \in s}
RowSet == [name : {Target, Other}, type : Types \cup {"HTTPS"}, val : Vals \cup {"companion"},
           id : 0..MaxRows, tag : {"on", "off", "shared", "me", "peer", "foreign"}]

-----------------------------------------------------------------------------
(* The inductive invariant, in parts.                                      *)

(* Rows, and the rows a call has read: tags and types that the kind has.   *)
GoodRow(r) ==
  /\ r \in RowSet
  /\ kind \notin {"powerdns", "adguard"} => r.tag # "off"
  /\ kind \notin {"pfsense", "pfsenseForwarder", "opnsense"} => r.tag # "foreign"
  /\ ~SharedLines => r.tag # "shared"
  /\ r.type \in Capabilities.stores \/ (kind = "technitium" /\ r.type = "HTTPS")
RowInv ==
  /\ kind \in Kinds
  /\ IsFiniteSet(rows) /\ IsFiniteSet(found)
  /\ \A r \in rows \cup found : GoodRow(r)
  /\ kind = "cloudflare" => Cardinality(rows) <= MaxRows

(* Ids: unique, or positions 1 and 2 without a gap, one for each name.     *)
Unique(s) == \A r, q \in s : r.id = q.id => r = q
Positions(s) ==
  /\ \A r, q \in s : (r.id = q.id) <=> (r.name = q.name)
  /\ \A r \in s : r.id \in {1, 2}
  /\ s # {} => \E r \in s : r.id = 1
IdInv ==
  /\ Numbered => Unique(rows)
  /\ Positional => Positions(rows)
  /\ kind = "pfsenseForwarder" => \A r, q \in rows : r.name = q.name => r = q

CallInv ==
  /\ call = NoCall \/ call \in Requested
  /\ (call = NoCall) <=> (pc = "idle")
  /\ pc \in Ops => pc = call.op
  /\ once \in {"unknown", "known", "failed"} /\ session \in BOOLEAN
  /\ result \in Results \cup {"none"} /\ tries \in 0..Retries
  /\ outside \in Nat

HistoryInv ==
  /\ done \in BOOLEAN
  /\ call = NoCall => past = {} /\ kept = {} /\ done = FALSE
  /\ call # NoCall => Zone \subseteq past /\ kept \subseteq Zone

-----------------------------------------------------------------------------
(* What a call in progress knows, kind by kind.                            *)
SetFound == \A r \in found : r.name = call.rec.name /\ r.type = call.rec.type

(* A listing in several requests: what was there throughout is read or     *)
(* still to be read.                                                       *)
ListedSoFar ==
  /\ ZoneOf(found) \subseteq past
  /\ \A x \in kept : \/ x \in ZoneOf(found)
                     \/ Item(x.type, 0) \in todo \/ Item(x.type, x.copy) \in todo

CloudflareInv ==
  kind = "cloudflare" =>
  /\ pc = "listType" => /\ call.op = "list" /\ \A y \in todo : y.id = 0
                        /\ PageSize >= MaxRows => ListedSoFar
  /\ pc = "deleteId" => call.op = "delete"
  /\ pc \in {"patch", "srvDelete", "srvCreate"} => call.op = "update"
  /\ pc \in {"deleteId", "patch", "srvDelete"} => SetFound /\ \E r \in RowSet : found = {r}

OvhInv ==
  kind = "ovh" =>
  /\ pc = "listNext" => call.op = "list" /\ ListedSoFar
  /\ pc \in {"get", "deleteId", "put"} =>
       /\ call.op \in {"delete", "update"} /\ (~Apex => SetFound)
  /\ pc \in {"deleteId", "put"} => \E r \in RowSet : found = {r}
  /\ pc = "refresh" => call.op # "list" /\ (~Apex => done)

TechnitiumInv ==
  kind = "technitium" =>
  /\ pc \in {"companionCheck", "companionAdd"} => call.op = "create" /\ done
  /\ pc = "companionDelete" => call.op = "delete" /\ done
  /\ pc = "add" => call.op = "update"

(* The record set as it was read: the rest of it is written back.          *)
PowerDNSInv ==
  kind = "powerdns" /\ pc = "patch" =>
      /\ call.op \in {"create", "delete", "update"}
      /\ SetFound /\ ZoneOf(found) \subseteq past
      /\ \A x \in kept : x.name = call.rec.name /\ x.type = call.rec.type => x \in ZoneOf(found)

PiholeInv ==
  kind = "pihole5" /\ pc = "listCNAME" =>
      /\ call.op = "list"
      /\ ZoneOf(found) \subseteq past
      /\ \A x \in kept : x.type \in {"A", "AAAA"} => x \in ZoneOf(found)

DnsmasqInv ==
  kind = "dnsmasq" =>
  /\ pc = "write" => /\ call.op \in {"create", "delete"}
                     /\ "dnsmasq" \notin Interference => found = rows
  /\ pc = "reload" => /\ call.op \in {"create", "delete"}
                      /\ "dnsmasq" \notin Interference /\ Prefixes = {} => done

(* The override of the call's name is as it was read, and its owner's.     *)
PfSenseInv ==
  Positional =>
  /\ pc = "create" => kept = Zone
  /\ pc = "post" => call.op = "create"
  /\ pc = "patch" => /\ kind = "pfsense" /\ call.op \in {"create", "delete"}
                     /\ FindOverride # {} /\ IsOwnedBy(FindOverride)
  /\ pc = "patch" /\ call.op = "create" =>
       found = {[r EXCEPT !.tag = "me"] : r \in FindOverride} \cup {Row(call.rec, PositionOf(Target), "me")}
  /\ pc = "patch" /\ call.op = "delete" => found = WithoutIP(FindOverride, call.rec.val) /\ found # {}
  /\ pc = "remove" =>
       /\ call.op = "delete" /\ found = FindOverride /\ found # {} /\ IsOwnedBy(found)
       /\ \A r \in found : r.val = call.rec.val
  /\ pc = "apply" => call.op \in {"create", "delete"} /\ done

OPNsenseInv ==
  kind = "opnsense" =>
  /\ pc = "remove" => /\ call.op = "delete"
                      /\ \E r \in RowSet : found = {r} /\ KeyOf(r) = call.rec /\ r.tag \in {"me", "peer"}
  /\ pc = "reconfigure" => call.op \in {"create", "delete"} /\ done

StepInv == /\ CloudflareInv /\ OvhInv /\ TechnitiumInv /\ PowerDNSInv /\ PiholeInv
           /\ DnsmasqInv /\ PfSenseInv /\ OPNsenseInv

Inv == RowInv /\ IdInv /\ CallInv /\ HistoryInv /\ StepInv

-----------------------------------------------------------------------------
(* Basic facts.                                                            *)

LEMMA Caps ==
  /\ kind \in {"cloudflare", "ovh", "technitium", "webhook", "powerdns"} =>
       Capabilities.types = Types /\ Capabilities.stores = Types
  /\ kind = "adguard" => /\ Capabilities.types = Types \cap {"A", "AAAA", "CNAME"}
                         /\ Capabilities.stores = Types \cap {"A", "AAAA", "CNAME"}
  /\ kind \in {"pihole5", "pihole6"} => /\ Capabilities.types = Types \cap {"A", "CNAME", "TXT"}
                                        /\ Capabilities.stores = Types \cap {"A", "AAAA", "CNAME"}
                                        /\ ~Capabilities.update
  /\ kind = "dnsmasq" => /\ Capabilities.types = Types \cap {"A", "CNAME"}
                         /\ Capabilities.stores = Types \cap {"A", "CNAME"}
                         /\ ~Capabilities.update
  /\ kind \in {"pfsense", "pfsenseForwarder", "opnsense"} =>
       /\ Capabilities.types = Types \cap {"A", "AAAA"}
       /\ Capabilities.stores = Types \cap {"A", "AAAA"}
       /\ ~Capabilities.update
  BY DEF Capabilities, CloudflareCapabilities, OvhCapabilities, TechnitiumCapabilities,
         WebhookCapabilities, PowerDNSCapabilities, AdGuardCapabilities, PiholeCapabilities,
         DnsmasqCapabilities, OPNsenseCapabilities, PfSenseCapabilities

LEMMA StoresAreTypes == Capabilities.stores \subseteq Types
  BY DEF Capabilities, CloudflareCapabilities, OvhCapabilities, TechnitiumCapabilities,
         WebhookCapabilities, PowerDNSCapabilities, AdGuardCapabilities, PiholeCapabilities,
         DnsmasqCapabilities, OPNsenseCapabilities, PfSenseCapabilities

LEMMA TypesOfCalls == Capabilities.types \subseteq Types
  BY DEF Capabilities, CloudflareCapabilities, OvhCapabilities, TechnitiumCapabilities,
         WebhookCapabilities, PowerDNSCapabilities, AdGuardCapabilities, PiholeCapabilities,
         DnsmasqCapabilities, OPNsenseCapabilities, PfSenseCapabilities

LEMMA CapsKept ==
  ASSUME kind' = kind
  PROVE  Capabilities' = Capabilities
  BY DEF Capabilities, CloudflareCapabilities, OvhCapabilities, TechnitiumCapabilities,
         WebhookCapabilities, PowerDNSCapabilities, AdGuardCapabilities, PiholeCapabilities,
         DnsmasqCapabilities, OPNsenseCapabilities, PfSenseCapabilities

(* The calls.                                                              *)
LEMMA CallShape ==
  ASSUME NEW c \in Requested
  PROVE  /\ c.op \in Ops
         /\ c.op # "list" => /\ c.rec \in [name : {Target}, type : Types, val : Vals]
                             /\ c.rec.type \in Capabilities.types
         /\ c.op = "update" => /\ c.old \in [name : {Target}, type : Types, val : Vals]
                               /\ c.old.type = c.rec.type /\ c.rec # c.old
                               /\ Capabilities.update
  BY TypesOfCalls DEF Requested, Key, Ops

LEMMA NotNoCall ==
  ASSUME NEW c \in Requested
  PROVE  c # NoCall
<1>. DEFINE records == [name : {Target}, type : Types, val : Vals]
<1>1. c \in [op : {"list"}] \cup [op : {"create", "delete"}, rec : records]
            \cup [op : {"update"}, rec : records, old : records]
  <2>1. CASE c \in [op : {"list"}]
    BY <2>1
  <2>2. CASE c \in {[op |-> o, rec |-> Key(Target, t, v)] :
                      o \in {"create", "delete"}, t \in Capabilities.types, v \in Vals}
    BY <2>2, TypesOfCalls DEF Key
  <2>3. CASE c \in {[op |-> "update", rec |-> Key(Target, t, v), old |-> Key(Target, t, w)] :
                      t \in Capabilities.types, v \in Vals, w \in Vals}
    BY <2>3, TypesOfCalls DEF Key
  <2>4. QED
    BY <2>1, <2>2, <2>3 DEF Requested
<1>2. QED
  BY <1>1, NoCallAssumption

(* Zones.                                                                  *)
LEMMA StoredFields ==
  ASSUME NEW r
  PROVE  /\ Stored(r).name = r.name /\ Stored(r).type = r.type /\ Stored(r).val = r.val
         /\ Stored(r).copy = (IF Numbered THEN r.id ELSE 0)
         /\ Stored(r).hidden <=> r.tag \in {"off", "foreign"}
  BY DEF Stored

LEMMA ZoneIs == Zone = ZoneOf(rows)
  BY DEF Zone, ZoneOf

LEMMA ZonePrime ==
  ASSUME kind' = kind
  PROVE  /\ Zone' = ZoneOf(rows')
         /\ ZoneOf(found)' = ZoneOf(found')
         /\ Numbered' = Numbered /\ Positional' = Positional
  BY DEF Zone, ZoneOf, Stored, Numbered, Positional

LEMMA ListingVisible ==
  ASSUME NEW s
  PROVE  Listing(s) = Contract!Visible(ZoneOf(s))
  BY DEF Listing, ZoneOf, Contract!Visible

-----------------------------------------------------------------------------
(* When the goal of a call is reached.                                     *)
LEMMA GoalList ==
  ASSUME call.op = "list", NEW B, NEW z
  PROVE  Contract!Goal(call, B, z)
  BY DEF Contract!Goal

LEMMA GoalThere ==
  ASSUME call \in Requested, call.op \in {"create", "update"},
         NEW B, NEW s, NEW r \in s,
         KeyOf(r) = call.rec, r.tag \notin {"off", "foreign"}
  PROVE  Contract!Goal(call, B, ZoneOf(s))
<1>1. Stored(r) \in Contract!Visible(ZoneOf(s))
  BY StoredFields DEF Contract!Visible, ZoneOf
<1>2. <<Stored(r).name, Stored(r).type, Stored(r).val>> = <<call.rec.name, call.rec.type, call.rec.val>>
  BY StoredFields DEF KeyOf, Key
<1>3. QED
  BY <1>1, <1>2 DEF Contract!Goal

LEMMA GoalIgnored ==
  ASSUME call.op \in {"create", "delete"}, call.rec.type \notin Capabilities.stores, NEW B, NEW z
  PROVE  Contract!Goal(call, B, z)
  BY DEF Contract!Goal

LEMMA GoalGone ==
  ASSUME call \in Requested, call.op = "delete", Exact,
         NEW B, NEW s, \A r \in s : r.tag \in {"off", "foreign"} \/ KeyOf(r) # call.rec
  PROVE  Contract!Goal(call, B, ZoneOf(s))
<1>1. ASSUME NEW x \in Contract!Visible(ZoneOf(s)),
             <<x.name, x.type, x.val>> = <<call.rec.name, call.rec.type, call.rec.val>>
      PROVE  FALSE
  <2>1. PICK r \in s : x = Stored(r)
    BY <1>1 DEF Contract!Visible, ZoneOf
  <2>2. r.tag \notin {"off", "foreign"}
    BY <1>1, <2>1, StoredFields DEF Contract!Visible
  <2>3. r.name = call.rec.name /\ r.type = call.rec.type /\ r.val = call.rec.val
    BY <1>1, <2>1, StoredFields
  <2>4. KeyOf(r) = call.rec
    BY <2>3, CallShape DEF KeyOf, Key
  <2>5. QED
    BY <2>2, <2>4
<1>2. QED
  BY <1>1 DEF Contract!Goal

LEMMA GoalEmpty ==
  ASSUME call.op = "delete", ~Exact,
         NEW B, NEW s, \A r \in s : ~(r.name = call.rec.name /\ r.type = call.rec.type)
  PROVE  Contract!Goal(call, B, ZoneOf(s))
<1>1. {x \in ZoneOf(s) : x.name = call.rec.name /\ x.type = call.rec.type} = {}
  BY StoredFields DEF ZoneOf
<1>2. QED
  BY <1>1 DEF Contract!Goal

LEMMA GoalFewer ==
  ASSUME call.op = "delete", ~Exact,
         NEW B, NEW s, NEW x \in B, x \notin ZoneOf(s),
         x.name = call.rec.name, x.type = call.rec.type
  PROVE  Contract!Goal(call, B, ZoneOf(s))
  BY DEF Contract!Goal

-----------------------------------------------------------------------------
(* One request of a call, in the terms of the contract.                    *)

(* What it may change.                                                     *)
InSet(x) == x.name = call.rec.name /\ (Wide \/ x.type = call.rec.type)
MayGo(x) ==
  /\ InSet(x)
  /\ Precise /\ x \in kept => \/ x.type \in {"CNAME", "HTTPS"}
                              \/ x.val = call.rec.val
                              \/ call.op = "update" /\ x.val = call.old.val
MayCome(x) ==
  /\ InSet(x)
  /\ \/ x \in past
     \/ /\ call.op \in {"create", "update"}
        /\ \/ <<x.name, x.type, x.val>> = <<call.rec.name, call.rec.type, call.rec.val>>
           \/ Wide /\ x.type = "HTTPS"
Scope ==
  /\ call.op = "list" => rows' = rows
  /\ \A x \in ZoneOf(rows) \ ZoneOf(rows') : MayGo(x)
  /\ \A x \in ZoneOf(rows') \ ZoneOf(rows) : MayCome(x)

(* How it ends: the call goes on, or returns.                              *)
Proceeds ==
  /\ call' = call /\ UNCHANGED <<result, listed>>
  /\ pc' # "idle" /\ (pc' \in Ops => pc' = call.op)
  /\ tries' \in 0..Retries
Returns ==
  /\ call' = NoCall /\ pc' = "idle" /\ result' \in Results
  /\ found' = {} /\ tries' = 0
Honest ==
  /\ result' = "ok" => done \/ Contract!Goal(call, past, ZoneOf(rows'))
  /\ IF call.op = "list" /\ result' = "ok"
     THEN Contract!Visible(kept) \subseteq listed' /\ listed' \subseteq Contract!Visible(past)
     ELSE listed' = {}

LEMMA ScopeKept ==
  ASSUME kind' = kind, Scope
  PROVE  Contract!WithinScope
<1>. USE ZoneIs, ZonePrime
<1>1. CASE call.op = "list"
  BY <1>1 DEF Contract!WithinScope, Scope
<1>2. CASE call.op # "list"
  <2>1. {r \in Zone : ~Contract!SameSet(r, call)} = {r \in Zone' : ~Contract!SameSet(r, call)}
    BY DEF Scope, MayGo, MayCome, InSet, Contract!SameSet
  <2>2. \A r \in Zone' \ (Zone \cup past) :
          /\ call.op \in {"create", "update"}
          /\ \/ <<r.name, r.type, r.val>> = <<call.rec.name, call.rec.type, call.rec.val>>
             \/ Wide /\ r.type = "HTTPS"
    BY DEF Scope, MayCome
  <2>3. Precise => \A r \in (Zone \ Zone') \cap kept :
          \/ r.type \in {"CNAME", "HTTPS"}
          \/ r.val = call.rec.val
          \/ call.op = "update" /\ r.val = call.old.val
    BY DEF Scope, MayGo
  <2>4. QED
    BY <1>2, <2>1, <2>2, <2>3 DEF Contract!WithinScope
<1>3. QED
  BY <1>1, <1>2

(* A request that keeps within its scope and ends honestly is a step of    *)
(* the contract.                                                           *)
LEMMA RequestImplements ==
  ASSUME kind' = kind, outside' = outside, call # NoCall, Remember,
         Proceeds \/ (Returns /\ Honest),
         Scope \/ (Torn /\ Returns /\ Honest /\ rows' \subseteq rows /\ result' # "ok")
  PROVE  Contract!Next
<1>. USE ZoneIs, ZonePrime
<1>1. UNCHANGED <<Wide, Precise, Exact, Torn, Capabilities.stores>>
  BY CapsKept DEF Wide, Precise, Exact, Torn
<1>2. CASE Proceeds
  <2>1. call' = call /\ call' # NoCall /\ call # NoCall /\ UNCHANGED <<result, listed>>
    BY <1>2 DEF Proceeds
  <2>2. Scope
    BY <2>1 DEF Returns
  <2>3. Contract!WithinScope
    BY <2>2, ScopeKept
  <2>4. Contract!Remember
    BY <2>1 DEF Remember, Contract!Remember
  <2>5. QED
    BY <1>1, <2>1, <2>3, <2>4 DEF Contract!Next, Contract!Work
<1>3. CASE Returns /\ Honest
  <2>1. call' = NoCall /\ past' = {} /\ kept' = {} /\ done' = FALSE
    BY <1>3 DEF Returns, Remember
  <2>2. Contract!WithinScope \/ (Torn /\ Zone' \subseteq Zone /\ result' # "ok")
    BY ScopeKept DEF ZoneOf
  <2>3. QED
    BY <1>1, <1>3, <2>1, <2>2 DEF Contract!Next, Contract!Return, Returns, Honest
<1>4. QED
  BY <1>2, <1>3

(* The history stays right over any step that goes on or returns.          *)
LEMMA HistoryKept ==
  ASSUME HistoryInv, kind' = kind, call # NoCall, call' \in {call, NoCall}, Remember
  PROVE  HistoryInv'
<1>. USE ZoneIs, ZonePrime
<1>1. CASE call' = NoCall
  BY <1>1 DEF HistoryInv, Remember
<1>2. CASE call' # NoCall
  <2>1. past' = past \cup Zone' /\ kept' = kept \cap Zone' /\ done' \in BOOLEAN
    <3>1. past' = past \cup Zone' /\ kept' = kept \cap Zone'
          /\ done' = (done \/ Contract!Goal(call, past, Zone'))
      BY <1>2 DEF Remember
    <3>2. (done \/ Contract!Goal(call, past, Zone')) \in BOOLEAN
      OBVIOUS
    <3>3. QED
      BY <3>1, <3>2
  <2>2. QED
    BY <1>2, <2>1 DEF HistoryInv
<1>3. QED
  BY <1>1, <1>2

(* During a call: what happened to the history.                            *)
LEMMA HistoryGrows ==
  ASSUME HistoryInv, kind' = kind, call # NoCall, call' = call, Remember
  PROVE  /\ past \subseteq past' /\ ZoneOf(rows) \subseteq past /\ ZoneOf(rows') \subseteq past'
         /\ kept' \subseteq kept /\ kept \subseteq ZoneOf(rows) /\ kept' \subseteq ZoneOf(rows')
         /\ rows' = rows => kept' = kept
         /\ done => done'
         /\ Contract!Goal(call, past, ZoneOf(rows')) => done'
<1>. USE ZoneIs, ZonePrime
<1>1. past' = past \cup Zone' /\ kept' = kept \cap Zone'
      /\ done' = (done \/ Contract!Goal(call, past, Zone'))
  BY DEF Remember
<1>2. QED
  BY <1>1 DEF HistoryInv

LEMMA CallKept ==
  ASSUME CallInv, kind' = kind, outside' = outside, call # NoCall,
         once' \in {"unknown", "known", "failed"}, session' \in BOOLEAN,
         Proceeds \/ Returns
  PROVE  CallInv'
<1>1. Requested' = Requested
  BY CapsKept DEF Requested
<1>2. CASE Proceeds
  BY <1>1, <1>2 DEF Proceeds, CallInv
<1>3. CASE Returns
  BY <1>1, <1>3, BoundsAssumption DEF Returns, CallInv, Ops
<1>4. QED
  BY <1>2, <1>3

-----------------------------------------------------------------------------
(* The ways a request ends.                                                *)
LEMMA GoesOn ==
  ASSUME NEW p, NEW f, NEW td, GotoWith(p, f, td),
         CallInv, p # "idle", p \in Ops => p = call.op
  PROVE  Proceeds
  BY DEF GotoWith, Proceeds, CallInv

LEMMA ReturnsError ==
  ASSUME NEW res \in Results \ {"ok"}, Return(res)
  PROVE  Returns /\ Honest /\ result' # "ok"
  BY DEF Return, ReturnWith, Returns, Honest

LEMMA ReturnsOk ==
  ASSUME Return("ok")
  PROVE  /\ Returns
         /\ call.op # "list" /\ (done \/ Contract!Goal(call, past, ZoneOf(rows'))) => Honest
  BY DEF Return, ReturnWith, Returns, Honest, Results

LEMMA ReturnsListing ==
  ASSUME NEW s, ReturnWith("ok", Listing(s)), call.op = "list"
  PROVE  /\ Returns
         /\ Contract!Visible(kept) \subseteq Listing(s) /\ ZoneOf(s) \subseteq past => Honest
  BY ListingVisible, GoalList DEF ReturnWith, Returns, Honest, Results, Contract!Visible

(* A listing in one request.                                               *)
LEMMA ReturnsZone ==
  ASSUME HistoryInv, call # NoCall, ReturnWith("ok", Listing(rows)), call.op = "list"
  PROVE  Returns /\ Honest
<1>1. ZoneOf(rows) \subseteq past /\ kept \subseteq ZoneOf(rows)
  BY ZoneIs DEF HistoryInv
<1>2. Contract!Visible(kept) \subseteq Listing(rows)
  BY <1>1, ListingVisible DEF Contract!Visible
<1>3. QED
  BY <1>1, <1>2, ReturnsListing

(* What a request of a call is allowed and what it leaves behind.          *)
Request ==
  /\ Proceeds \/ Returns
  /\ once' \in {"unknown", "known", "failed"} /\ session' \in BOOLEAN
  /\ SoundConfig => /\ Returns => Honest
                    /\ Scope \/ (Torn /\ Returns /\ rows' \subseteq rows /\ result' # "ok")

LEMMA RequestKeeps ==
  ASSUME CallInv, HistoryInv, kind' = kind, outside' = outside, call # NoCall, Remember, Request
  PROVE  /\ CallInv' /\ HistoryInv'
         /\ SoundConfig => Contract!Next
<1>1. CallInv'
  BY CallKept DEF Request
<1>2. HistoryInv'
  BY HistoryKept DEF Request, Proceeds, Returns
<1>3. SoundConfig => Contract!Next
  BY RequestImplements DEF Request
<1>4. QED
  BY <1>1, <1>2, <1>3

-----------------------------------------------------------------------------
(* Scope, row by row.                                                      *)
LEMMA NoChange ==
  ASSUME rows' = rows
  PROVE  Scope
  BY DEF Scope

LEMMA RowScope ==
  ASSUME call.op # "list",
         \A r \in rows \ rows' : Stored(r) \in ZoneOf(rows') \/ MayGo(Stored(r)),
         \A r \in rows' \ rows : MayCome(Stored(r))
  PROVE  Scope
<1>1. ASSUME NEW x \in ZoneOf(rows) \ ZoneOf(rows')
      PROVE  MayGo(x)
  <2>1. PICK r \in rows : x = Stored(r)
    BY DEF ZoneOf
  <2>2. r \notin rows'
    BY <2>1 DEF ZoneOf
  <2>3. QED
    BY <2>1, <2>2
<1>2. ASSUME NEW x \in ZoneOf(rows') \ ZoneOf(rows)
      PROVE  MayCome(x)
  <2>1. PICK r \in rows' : x = Stored(r)
    BY DEF ZoneOf
  <2>2. r \notin rows
    BY <2>1 DEF ZoneOf
  <2>3. QED
    BY <2>1, <2>2
<1>3. QED
  BY <1>1, <1>2 DEF Scope

LEMMA RowGoes ==
  ASSUME NEW r, r.name = call.rec.name, Wide \/ r.type = call.rec.type,
         \/ ~Precise
         \/ r.type \in {"CNAME", "HTTPS"}
         \/ r.val = call.rec.val
         \/ call.op = "update" /\ r.val = call.old.val
  PROVE  MayGo(Stored(r))
  BY StoredFields DEF MayGo, InSet

LEMMA RecGoes ==
  ASSUME NEW r, KeyOf(r) = call.rec
  PROVE  MayGo(Stored(r))
<1>1. r.name = call.rec.name /\ r.type = call.rec.type /\ r.val = call.rec.val
  BY DEF KeyOf, Key
<1>2. QED
  BY <1>1, RowGoes

LEMMA OldGoes ==
  ASSUME NEW r, call \in Requested, call.op = "update", KeyOf(r) = call.old
  PROVE  MayGo(Stored(r))
<1>1. r.name = call.old.name /\ r.type = call.old.type /\ r.val = call.old.val
  BY DEF KeyOf, Key
<1>2. call.old.name = call.rec.name /\ call.old.type = call.rec.type
  BY CallShape
<1>3. QED
  BY <1>1, <1>2, RowGoes

LEMMA RowComes ==
  ASSUME NEW r, call.op \in {"create", "update"},
         \/ KeyOf(r) = call.rec
         \/ Wide /\ r.name = call.rec.name /\ r.type = "HTTPS"
  PROVE  MayCome(Stored(r))
  BY StoredFields DEF MayCome, InSet, KeyOf, Key

LEMMA RowBack ==
  ASSUME NEW r, r.name = call.rec.name, Wide \/ r.type = call.rec.type, Stored(r) \in past
  PROVE  MayCome(Stored(r))
  BY StoredFields DEF MayCome, InSet

-----------------------------------------------------------------------------
(* Rows that stay as they should be.                                       *)
LEMMA GoodKept ==
  ASSUME NEW r, GoodRow(r), kind' = kind
  PROVE  GoodRow(r)'
  BY CapsKept DEF GoodRow

LEMMA RecRow ==
  ASSUME call \in Requested, call.op # "list", call.rec.type \in Capabilities.stores,
         NEW i \in 0..MaxRows, NEW g,
         g = "on" \/ (g = "me" /\ kind \in {"pfsense", "pfsenseForwarder", "opnsense"})
  PROVE  GoodRow(Row(call.rec, i, g)) /\ KeyOf(Row(call.rec, i, g)) = call.rec
<1>1. Row(call.rec, i, g) \in RowSet
  BY CallShape DEF Row, RowSet
<1>2. KeyOf(Row(call.rec, i, g)) = call.rec
  BY CallShape DEF Row, KeyOf, Key
<1>3. QED
  BY <1>1, <1>2 DEF GoodRow, Row

LEMMA RowsKept ==
  ASSUME RowInv, kind' = kind,
         NEW S, IsFiniteSet(S), \A r \in S : GoodRow(r),
         rows' \subseteq rows \cup found \cup S,
         found' \subseteq rows \cup found \cup S,
         kind = "cloudflare" => Cardinality(rows') <= MaxRows
  PROVE  RowInv'
<1>1. IsFiniteSet(rows \cup found \cup S)
  BY FS_Union DEF RowInv
<1>2. IsFiniteSet(rows') /\ IsFiniteSet(found')
  BY <1>1, FS_Subset
<1>3. \A r \in rows' \cup found' : GoodRow(r)'
  BY GoodKept DEF RowInv
<1>4. QED
  BY <1>2, <1>3 DEF RowInv

LEMMA RowsPlus ==
  ASSUME RowInv, kind' = kind, kind # "cloudflare", NEW r, GoodRow(r),
         rows' \subseteq rows \cup found \cup {r}, found' \subseteq rows \cup found
  PROVE  RowInv'
<1>1. IsFiniteSet({r})
  BY FS_Singleton
<1>2. QED
  BY <1>1, RowsKept

LEMMA RowsSame ==
  ASSUME RowInv, kind' = kind, rows' = rows, found' \subseteq rows \cup found
  PROVE  RowInv'
  BY RowsKept, FS_EmptySet DEF RowInv

(* Kinds whose rows have no numbers.                                       *)
LEMMA PlainIds ==
  ASSUME kind' = kind, kind \notin {"cloudflare", "ovh", "opnsense", "pfsense", "pfsenseForwarder"}
  PROVE  IdInv'
  BY DEF IdInv, Numbered, Positional

LEMMA IdsSame ==
  ASSUME IdInv, kind' = kind, rows' = rows
  PROVE  IdInv'
  BY DEF IdInv, Numbered, Positional, Unique, Positions

-----------------------------------------------------------------------------
(* AdGuard Home.                                                           *)
LEMMA AdGuardStep ==
  ASSUME Inv, AdGuardNext
  PROVE  Request /\ RowInv' /\ IdInv'
<1>. DEFINE R == Row(call.rec, 0, "on")
<1>1. /\ kind = "adguard" /\ kind' = kind /\ call # NoCall /\ call \in Requested
      /\ UNCHANGED <<once, session>>
  BY DEF AdGuardNext, Inv, CallInv, client
<1>2. IdInv'
  BY <1>1, PlainIds
<1>3. once' \in {"unknown", "known", "failed"} /\ session' \in BOOLEAN
  BY <1>1 DEF Inv, CallInv
<1>4. ASSUME call.op # "list"
      PROVE  GoodRow(R) /\ KeyOf(R) = call.rec /\ R.tag = "on"
  <2>1. call.rec.type \in Capabilities.stores
    BY <1>1, <1>4, Caps, CallShape
  <2>2. QED
    BY <1>1, <1>4, <2>1, RecRow, BoundsAssumption DEF Row
<1>5. ASSUME rows' \subseteq rows \cup {R}, call.op # "list", found' = {}
      PROVE  RowInv'
  BY <1>1, <1>4, <1>5, RowsKept, FS_Singleton DEF Inv
<1>6. ASSUME rows' = rows, found' = {}
      PROVE  RowInv'
  BY <1>1, <1>6, RowsSame DEF Inv
<1>. USE DEF Request
<1>7. CASE AdGuardList
  <2>1. call.op = "list" /\ rows' = rows
    BY <1>7 DEF AdGuardList, RewriteList, AdGuardRequest, Write, Inv, CallInv, Ops
  <2>2. Returns /\ Honest
    BY <1>1, <1>7, <2>1, ReturnsZone, ReturnsError
       DEF AdGuardList, RewriteList, AdGuardRequest, Write, Inv, Results
  <2>3. QED
    BY <1>2, <1>3, <1>6, <2>1, <2>2, NoChange DEF Returns
<1>8. CASE AdGuardCreate
  <2>1. call.op = "create"
    BY <1>8 DEF AdGuardCreate, Inv, CallInv, Ops
  <2>2. rows' \in {rows, rows \cup {R}}
    BY <1>8 DEF AdGuardCreate, RewriteAdd, AdGuardRequest, Write, Answer
  <2>3. Scope
    BY <2>1, <2>2, <1>4, RowScope, RowComes, NoChange
  <2>4. Returns /\ Honest
    <3>1. CASE Return("error")
      BY <3>1, ReturnsError DEF Results
    <3>2. CASE Return("ok") /\ rows' = rows \cup {R}
      BY <1>1, <2>1, <1>4, <3>2, ReturnsOk, GoalThere
    <3>3. QED
      BY <1>8, <3>1, <3>2 DEF AdGuardCreate, RewriteAdd, AdGuardRequest, Write, Answer
  <2>5. QED
    BY <1>2, <1>3, <1>5, <2>1, <2>2, <2>3, <2>4 DEF Returns
<1>9. CASE AdGuardDelete
  <2>1. call.op = "delete"
    BY <1>9 DEF AdGuardDelete, Inv, CallInv, Ops
  <2>2. rows' \in {rows, rows \ RowsAt(call.rec)}
    BY <1>9 DEF AdGuardDelete, RewriteDelete, AdGuardRequest, Write
  <2>3. \A r \in rows \ rows' : MayGo(Stored(r))
    BY <2>2, RecGoes DEF RowsAt
  <2>4. Scope
    BY <2>1, <2>2, <2>3, RowScope
  <2>5. Returns /\ Honest
    <3>1. CASE Return("error")
      BY <3>1, ReturnsError DEF Results
    <3>2. CASE Return("ok") /\ rows' = rows \ RowsAt(call.rec)
      <4>1. \A r \in rows' : KeyOf(r) # call.rec
        BY <3>2 DEF RowsAt
      <4>2. Exact
        BY <1>1 DEF Exact
      <4>3. QED
        BY <1>1, <2>1, <3>2, <4>1, <4>2, ReturnsOk, GoalGone
    <3>3. QED
      BY <1>9, <3>1, <3>2 DEF AdGuardDelete, RewriteDelete, AdGuardRequest, Write
  <2>6. QED
    BY <1>2, <1>3, <1>5, <2>1, <2>2, <2>4, <2>5 DEF Returns
<1>10. CASE AdGuardUpdate
  <2>1. call.op = "update"
    BY <1>10 DEF AdGuardUpdate, Inv, CallInv, Ops
  <2>2. rows' \in {rows, (rows \ RowsAt(call.old)) \cup {R}}
    BY <1>10 DEF AdGuardUpdate, RewriteUpdate, AdGuardRequest, Write, Answer
  <2>3. \A r \in rows \ rows' : MayGo(Stored(r))
    BY <1>1, <2>1, <2>2, OldGoes DEF RowsAt
  <2>4. Scope
    BY <2>1, <2>2, <2>3, <1>4, RowScope, RowComes
  <2>5. Returns /\ Honest
    <3>1. CASE Return("error")
      BY <3>1, ReturnsError DEF Results
    <3>2. CASE Return("ok") /\ R \in rows'
      BY <1>1, <2>1, <1>4, <3>2, ReturnsOk, GoalThere
    <3>3. QED
      BY <1>10, <3>1, <3>2 DEF AdGuardUpdate, RewriteUpdate, AdGuardRequest, Write, Answer
  <2>6. QED
    BY <1>2, <1>3, <1>5, <2>1, <2>2, <2>4, <2>5 DEF Returns
<1>11. QED
  BY <1>7, <1>8, <1>9, <1>10 DEF AdGuardNext

-----------------------------------------------------------------------------
(* The webhook.                                                            *)
LEMMA PlainAccept ==
  ASSUME kind \notin {"cloudflare", "ovh", "opnsense", "pfsense", "pfsenseForwarder"}, NEW k, NEW g
  PROVE  Accept(k, g) = rows \cup {Row(k, 0, g)}
  BY DEF Accept, IdFor, Numbered, Positional

LEMMA RetryGoesOn ==
  ASSUME CallInv, call # NoCall, tries < Retries, Retry
  PROVE  Proceeds /\ found' = found
  BY BoundsAssumption DEF Retry, Proceeds, CallInv

LEMMA WebhookStep ==
  ASSUME Inv, WebhookNext
  PROVE  Request /\ RowInv' /\ IdInv'
<1>. DEFINE R == Row(call.rec, 0, "on")
<1>1. /\ kind = "webhook" /\ kind' = kind /\ call # NoCall /\ call \in Requested
      /\ UNCHANGED <<once, session>>
  BY DEF WebhookNext, Inv, CallInv, client
<1>2. IdInv'
  BY <1>1, PlainIds
<1>3. once' \in {"unknown", "known", "failed"} /\ session' \in BOOLEAN
  BY <1>1 DEF Inv, CallInv
<1>4. ASSUME call.op # "list"
      PROVE  GoodRow(R) /\ KeyOf(R) = call.rec /\ R.tag = "on"
  <2>1. call.rec.type \in Capabilities.stores
    BY <1>1, <1>4, Caps, CallShape
  <2>2. QED
    BY <1>1, <1>4, <2>1, RecRow, BoundsAssumption DEF Row
<1>5. ASSUME rows' \subseteq rows \cup {R}, call.op # "list", found' \in {{}, found}
      PROVE  RowInv'
  BY <1>1, <1>4, <1>5, RowsKept, FS_Singleton DEF Inv
<1>6. ASSUME rows' = rows, found' \in {{}, found}
      PROVE  RowInv'
  BY <1>1, <1>6, RowsSame DEF Inv
(* The ways doRequest ends, by what a good reply means.                    *)
<1>7. ASSUME NEW new, NEW ok, DoRequest(new, ok)
      PROVE  /\ rows' \in {rows, new}
             /\ \/ rows' = new /\ ok
                \/ Proceeds /\ found' = found
                \/ Returns /\ Honest /\ found' = {}
  <2>1. CASE rows' = new /\ ok
    BY <2>1
  <2>2. CASE rows' \in {rows, new} /\ tries < Retries /\ Retry
    BY <1>1, <2>2, RetryGoesOn DEF Inv
  <2>3. CASE rows' \in {rows, new} /\ Return("error")
    BY <2>3, ReturnsError DEF Results, Returns
  <2>4. QED
    BY <1>7, <2>1, <2>2, <2>3 DEF DoRequest
<1>8. ~Precise /\ Exact
  BY <1>1 DEF Precise, Exact
<1>9. \A r \in rows : r.tag \notin {"off", "foreign"}
  BY <1>1 DEF Inv, RowInv, GoodRow
<1>10. ASSUME call.op # "list", \A r \in rows \ rows' : r.name = call.rec.name /\ r.type = call.rec.type,
              rows' \subseteq rows \/ (call.op # "delete" /\ rows' \subseteq rows \cup {R})
       PROVE  Scope
  <2>1. \A r \in rows \ rows' : MayGo(Stored(r))
    BY <1>8, <1>10, RowGoes
  <2>2. \A r \in rows' \ rows : MayCome(Stored(r))
    BY <1>1, <1>4, <1>10, RowComes, CallShape DEF Ops
  <2>3. QED
    BY <1>10, <2>1, <2>2, RowScope
<1>. USE DEF Request
<1>11. CASE WebhookList
  <2>1. call.op = "list" /\ DoRequest(rows, ReturnWith("ok", Listing(rows)))
    BY <1>11 DEF WebhookList, ServiceList, Inv, CallInv, Ops
  <2>2. ReturnWith("ok", Listing(rows)) => Returns /\ Honest
    BY <1>1, <2>1, ReturnsZone DEF Inv
  <2>3. /\ rows' = rows
        /\ \/ Proceeds /\ found' = found
           \/ Returns /\ Honest /\ found' = {}
    BY <1>7, <2>1, <2>2 DEF Returns
  <2>4. QED
    BY <1>1, <1>2, <1>3, <1>6, <2>3, NoChange DEF Proceeds, Returns
<1>12. CASE WebhookCreate
  <2>1. call.op = "create"
    BY <1>12 DEF WebhookCreate, Inv, CallInv, Ops
  <2>2. /\ rows' \in {rows, rows \cup {R}}
        /\ \/ Proceeds /\ found' = found
           \/ Returns /\ Honest /\ found' = {}
    <3>1. CASE DoRequest(rows, Return("error"))
      BY <1>7, <3>1, ReturnsError DEF Results, Returns
    <3>2. CASE RowsAt(call.rec) # {} /\ DoRequest(rows, Return("ok"))
      <4>1. PICK r \in rows : KeyOf(r) = call.rec
        BY <3>2 DEF RowsAt
      <4>2. rows' = rows
        BY <1>7, <3>2
      <4>3. Return("ok") => Returns /\ Honest
        BY <1>1, <1>9, <2>1, <4>1, <4>2, ReturnsOk, GoalThere
      <4>4. QED
        BY <1>7, <3>2, <4>2, <4>3 DEF Returns
    <3>3. CASE DoRequest(rows \cup {R}, Return("ok"))
      <4>1. R \in rows' /\ Return("ok") => Returns /\ Honest
        BY <1>1, <1>4, <2>1, ReturnsOk, GoalThere
      <4>2. QED
        BY <1>7, <3>3, <4>1 DEF Returns
    <3>4. QED
      BY <1>1, <1>12, <3>1, <3>2, <3>3, PlainAccept DEF WebhookCreate, ServiceCreate
  <2>3. QED
    BY <1>1, <1>2, <1>3, <1>5, <1>10, <2>1, <2>2 DEF Proceeds, Returns
<1>13. CASE WebhookDelete
  <2>1. call.op = "delete" /\ DoRequest(rows \ CallRows, Return("ok"))
    BY <1>13 DEF WebhookDelete, ServiceDelete, Inv, CallInv, Ops
  <2>2. rows' = rows \ CallRows /\ Return("ok") => Returns /\ Honest
    <3>1. rows' = rows \ CallRows => \A r \in rows' : KeyOf(r) # call.rec
      BY DEF CallRows, RowsOf, KeyOf, Key
    <3>2. QED
      BY <1>1, <1>8, <2>1, <3>1, ReturnsOk, GoalGone
  <2>3. /\ rows' \in {rows, rows \ CallRows}
        /\ \/ Proceeds /\ found' = found
           \/ Returns /\ Honest /\ found' = {}
    BY <1>7, <2>1, <2>2 DEF Returns
  <2>4. Scope
    BY <1>10, <2>1, <2>3 DEF CallRows, RowsOf
  <2>5. QED
    BY <1>1, <1>2, <1>3, <1>5, <2>1, <2>3, <2>4 DEF Proceeds, Returns
<1>14. CASE WebhookUpdate
  <2>1. call.op = "update"
    BY <1>14 DEF WebhookUpdate, Inv, CallInv, Ops
  <2>2. /\ rows' \in {rows, (rows \ RowsAt(call.old)) \cup {R}}
        /\ \/ Proceeds /\ found' = found
           \/ Returns /\ Honest /\ found' = {}
    <3>1. CASE DoRequest(rows, Return("error"))
      BY <1>7, <3>1, ReturnsError DEF Results, Returns
    <3>2. CASE DoRequest((rows \ RowsAt(call.old)) \cup {R}, Return("ok"))
      <4>1. R \in rows' /\ Return("ok") => Returns /\ Honest
        BY <1>1, <1>4, <2>1, ReturnsOk, GoalThere
      <4>2. QED
        BY <1>7, <3>2, <4>1 DEF Returns
    <3>3. QED
      BY <1>14, <3>1, <3>2 DEF WebhookUpdate, ServiceUpdate
  <2>3. \A r \in rows \ rows' : r.name = call.rec.name /\ r.type = call.rec.type
    <3>1. call.old.name = call.rec.name /\ call.old.type = call.rec.type
      BY <1>1, <2>1, CallShape
    <3>2. \A r \in RowsAt(call.old) : r.name = call.old.name /\ r.type = call.old.type
      BY DEF RowsAt, KeyOf, Key
    <3>3. QED
      BY <2>2, <3>1, <3>2
  <2>4. Scope
    BY <1>10, <2>1, <2>2, <2>3
  <2>5. QED
    BY <1>1, <1>2, <1>3, <1>5, <2>1, <2>2, <2>4 DEF Proceeds, Returns
<1>15. QED
  BY <1>11, <1>12, <1>13, <1>14 DEF WebhookNext

-----------------------------------------------------------------------------
(* PowerDNS.                                                               *)
LEMMA PowerDNSStep ==
  ASSUME Inv, PowerDNSNext
  PROVE  Request /\ RowInv' /\ IdInv'
<1>. DEFINE R == Row(call.rec, 0, "on")
<1>1. /\ kind = "powerdns" /\ kind' = kind /\ call # NoCall /\ call \in Requested
      /\ UNCHANGED <<once, session>>
  BY DEF PowerDNSNext, Inv, CallInv, client
<1>2. IdInv'
  BY <1>1, PlainIds
<1>3. once' \in {"unknown", "known", "failed"} /\ session' \in BOOLEAN
  BY <1>1 DEF Inv, CallInv
<1>4. ASSUME call.op # "list"
      PROVE  GoodRow(R) /\ KeyOf(R) = call.rec /\ R.tag = "on" /\ R = Active(call.rec)
  <2>1. call.rec.type \in Capabilities.stores
    BY <1>1, <1>4, Caps, CallShape
  <2>2. QED
    BY <1>1, <1>4, <2>1, RecRow, BoundsAssumption DEF Row, Active
<1>5. ASSUME rows' \subseteq rows \cup found \cup {R}, call.op # "list", found' \subseteq rows \cup found
      PROVE  RowInv'
  <2>1. GoodRow(R) /\ kind' = kind /\ kind # "cloudflare" /\ RowInv
    BY <1>1, <1>4, <1>5 DEF Inv
  <2>2. QED
    BY <1>5, <2>1, RowsPlus
<1>6. ASSUME rows' = rows, found' \subseteq rows \cup found
      PROVE  RowInv'
  BY <1>1, <1>6, RowsSame DEF Inv
<1>7. Precise /\ Exact
  BY <1>1 DEF Precise, Exact
<1>. USE DEF Request
(* The second request of a change writes the set back.                     *)
<1>8. ASSUME NEW set, PatchRRset(set), pc = "patch", set \subseteq found \cup {R},
             call.op = "delete" => set \subseteq found,
             \A q \in found \ set : \/ q.val = call.rec.val
                                    \/ call.op = "update" /\ q.val = call.old.val,
             rows' = (rows \ CallRows) \cup set => Contract!Goal(call, past, ZoneOf(rows'))
      PROVE  Request /\ RowInv'
  <2>1. /\ call.op \in {"create", "delete", "update"}
        /\ SetFound /\ ZoneOf(found) \subseteq past
        /\ \A x \in kept : x.name = call.rec.name /\ x.type = call.rec.type => x \in ZoneOf(found)
    BY <1>1, <1>8 DEF Inv, StepInv, PowerDNSInv
  <2>2. /\ rows' \in {rows, (rows \ CallRows) \cup set}
        /\ Return("error") \/ (Return("ok") /\ rows' = (rows \ CallRows) \cup set)
    BY <1>8 DEF PatchRRset, PowerDNSRequest, Write, Answer
  <2>3. Returns /\ Honest
    BY <1>8, <2>1, <2>2, ReturnsError, ReturnsOk DEF Results
  <2>4. ASSUME NEW r \in rows \ rows'
        PROVE  Stored(r) \in ZoneOf(rows') \/ MayGo(Stored(r))
    <3>1. r.name = call.rec.name /\ r.type = call.rec.type /\ rows' = (rows \ CallRows) \cup set
      BY <2>2, <2>4 DEF CallRows, RowsOf
    <3>2. CASE Stored(r) \notin kept
      BY <3>1, <3>2, StoredFields DEF MayGo, InSet
    <3>3. CASE Stored(r) \in kept
      <4>1. PICK q \in found : Stored(q) = Stored(r)
        BY <2>1, <3>1, <3>3, StoredFields DEF ZoneOf
      <4>2. CASE q \in set
        BY <3>1, <4>1, <4>2 DEF ZoneOf
      <4>3. CASE q \notin set
        <5>1. r.val = q.val
          BY <4>1, StoredFields
        <5>2. QED
          BY <1>8, <3>1, <4>3, <5>1, RowGoes
      <4>4. QED
        BY <4>2, <4>3
    <3>4. QED
      BY <3>2, <3>3
  <2>5. ASSUME NEW r \in rows' \ rows
        PROVE  MayCome(Stored(r))
    <3>1. r \in set
      BY <2>2, <2>5
    <3>2. CASE r = R /\ call.op # "delete"
      BY <1>4, <2>1, <3>2, RowComes
    <3>3. CASE r \in found
      BY <2>1, <3>3, RowBack DEF SetFound, ZoneOf
    <3>4. QED
      BY <1>8, <3>1, <3>2, <3>3
  <2>6. Scope
    BY <2>1, <2>4, <2>5, RowScope
  <2>7. RowInv'
    BY <1>5, <1>8, <2>1, <2>2, <2>3 DEF Returns
  <2>8. QED
    BY <1>3, <2>3, <2>6, <2>7
<1>9. CASE PowerDNSList
  <2>1. call.op = "list" /\ rows' = rows
    BY <1>9 DEF PowerDNSList, GetZone, PowerDNSRequest, Write, Inv, CallInv, Ops
  <2>2. Returns /\ Honest
    BY <1>1, <1>9, <2>1, ReturnsZone, ReturnsError
       DEF PowerDNSList, GetZone, PowerDNSRequest, Write, Inv, Results
  <2>3. QED
    BY <1>2, <1>3, <1>6, <2>1, <2>2, NoChange DEF Returns
<1>10. CASE CurrentRRset
  <2>1. call.op = pc /\ call.op # "list" /\ rows' = rows
    BY <1>10 DEF CurrentRRset, GetZone, PowerDNSRequest, Write, Inv, CallInv, Ops
  <2>2. \/ Returns /\ Honest
        \/ Proceeds /\ found' = CallRows
    <3>1. CASE Return("error") \/ Return("notFound")
      BY <3>1, ReturnsError DEF Results
    <3>2. CASE pc = "create" /\ Active(call.rec) \in rows /\ Return("ok")
      BY <1>1, <1>4, <2>1, <3>2, ReturnsOk, GoalThere
    <3>3. CASE pc = "delete" /\ RowsAt(call.rec) = {} /\ Return("ok")
      <4>1. \A r \in rows' : KeyOf(r) # call.rec
        BY <2>1, <3>3 DEF RowsAt
      <4>2. QED
        BY <1>1, <1>7, <2>1, <3>3, <4>1, ReturnsOk, GoalGone
    <3>4. CASE GotoWith("patch", CallRows, {})
      <4>1. Proceeds
        BY <3>4, GoesOn DEF Inv, Ops
      <4>2. QED
        BY <3>4, <4>1 DEF GotoWith
    <3>5. QED
      BY <1>10, <3>1, <3>2, <3>3, <3>4 DEF CurrentRRset, GetZone, PowerDNSRequest, Write
  <2>3. QED
    BY <1>1, <1>2, <1>3, <1>6, <2>1, <2>2, NoChange DEF Proceeds, Returns, CallRows, RowsOf
<1>11. CASE PowerDNSCreate
  <2>. DEFINE set == (found \ Having(call.rec)) \cup {Active(call.rec)}
  <2>1. call.op = "create" /\ pc = "patch" /\ PatchRRset(set)
    BY <1>11 DEF PowerDNSCreate
  <2>2. R \in set /\ set \subseteq found \cup {R}
    BY <1>4, <2>1
  <2>3. \A q \in found \ set : q.val = call.rec.val
    BY DEF Having, KeyOf, Key
  <2>4. R \in rows' => Contract!Goal(call, past, ZoneOf(rows'))
    BY <1>1, <1>4, <2>1, GoalThere
  <2>5. QED
    BY <1>2, <1>8, <2>1, <2>2, <2>3, <2>4
<1>12. CASE PowerDNSDelete
  <2>. DEFINE set == found \ Having(call.rec)
  <2>1. call.op = "delete" /\ pc = "patch" /\ PatchRRset(set)
    BY <1>12 DEF PowerDNSDelete
  <2>2. \A q \in found \ set : q.val = call.rec.val
    BY DEF Having, KeyOf, Key
  <2>3. \A r \in (rows \ CallRows) \cup set : KeyOf(r) # call.rec
    BY DEF Having, CallRows, RowsOf, KeyOf, Key
  <2>4. rows' = (rows \ CallRows) \cup set => Contract!Goal(call, past, ZoneOf(rows'))
    BY <1>1, <1>7, <2>1, <2>3, GoalGone
  <2>5. QED
    BY <1>2, <1>8, <2>1, <2>2, <2>4
<1>13. CASE PowerDNSUpdate
  <2>. DEFINE set == (found \ (Having(call.old) \cup Having(call.rec))) \cup {Active(call.rec)}
  <2>1. call.op = "update" /\ pc = "patch" /\ PatchRRset(set)
    BY <1>13 DEF PowerDNSUpdate
  <2>2. R \in set /\ set \subseteq found \cup {R}
    BY <1>4, <2>1
  <2>3. \A q \in found \ set : q.val = call.rec.val \/ q.val = call.old.val
    BY DEF Having, KeyOf, Key
  <2>4. R \in rows' => Contract!Goal(call, past, ZoneOf(rows'))
    BY <1>1, <1>4, <2>1, GoalThere
  <2>5. QED
    BY <1>2, <1>8, <2>1, <2>2, <2>3, <2>4
<1>14. QED
  BY <1>9, <1>10, <1>11, <1>12, <1>13 DEF PowerDNSNext

LEMMA PowerDNSKeeps ==
  ASSUME Inv, PowerDNSNext, Remember, call' = call, pc' = "patch"
  PROVE  PowerDNSInv'
<1>1. /\ kind = "powerdns" /\ kind' = kind /\ call # NoCall /\ HistoryInv
  BY DEF PowerDNSNext, Inv
<1>2. /\ CurrentRRset /\ rows' = rows /\ found' = CallRows
      /\ call.op \in {"create", "delete", "update"}
  BY <1>1 DEF PowerDNSNext, PowerDNSList, CurrentRRset, PowerDNSCreate, PowerDNSDelete, PowerDNSUpdate,
     PatchRRset, GetZone, PowerDNSRequest, Write, Answer, Return, ReturnWith, GotoWith,
     Inv, CallInv, Ops
<1>3. /\ ZoneOf(rows) \subseteq past' /\ kept' \subseteq ZoneOf(rows)
  BY <1>1, <1>2, HistoryGrows
<1>4. ZoneOf(found') \subseteq ZoneOf(rows)
  BY <1>2 DEF ZoneOf, CallRows, RowsOf
<1>5. \A x \in kept' : x.name = call.rec.name /\ x.type = call.rec.type => x \in ZoneOf(found')
  BY <1>2, <1>3, StoredFields DEF ZoneOf, CallRows, RowsOf
<1>6. SetFound'
  BY <1>2 DEF SetFound, CallRows, RowsOf
<1>7. QED
  BY <1>1, <1>2, <1>3, <1>4, <1>5, <1>6, ZonePrime DEF PowerDNSInv

-----------------------------------------------------------------------------
(* Technitium.                                                             *)
LEMMA GotoIs ==
  ASSUME NEW p, Goto(p)
  PROVE  GotoWith(p, found, todo) /\ found' = found /\ pc' = p /\ call' = call
  BY DEF Goto, GotoWith

LEMMA TechnitiumStep ==
  ASSUME Inv, TechnitiumNext
  PROVE  /\ Request /\ RowInv' /\ IdInv'
         /\ pc' \in {"companionCheck", "companionDelete"} /\ call' = call /\ pc' # pc =>
              Contract!Goal(call, past, ZoneOf(rows'))
<1>. DEFINE R == Row(call.rec, 0, "on")
            C == Row(CompanionKey, 0, "on")
<1>1. /\ kind = "technitium" /\ kind' = kind /\ call # NoCall /\ call \in Requested
      /\ UNCHANGED <<once, session>>
  BY DEF TechnitiumNext, Inv, CallInv, client
<1>2. IdInv'
  BY <1>1, PlainIds
<1>3. once' \in {"unknown", "known", "failed"} /\ session' \in BOOLEAN
  BY <1>1 DEF Inv, CallInv
<1>4. ASSUME call.op # "list"
      PROVE  GoodRow(R) /\ KeyOf(R) = call.rec /\ R.tag = "on"
  <2>1. call.rec.type \in Capabilities.stores
    BY <1>1, <1>4, Caps, CallShape
  <2>2. QED
    BY <1>1, <1>4, <2>1, RecRow, BoundsAssumption DEF Row
<1>5. ASSUME call.op # "list"
      PROVE  GoodRow(C) /\ C.name = call.rec.name /\ C.type = "HTTPS"
  <2>1. C = [name |-> Target, type |-> "HTTPS", val |-> "companion", id |-> 0, tag |-> "on"]
    BY <1>1, <1>5, CallShape DEF CompanionKey, Key, Row
  <2>2. C \in RowSet
    BY <2>1, BoundsAssumption DEF RowSet
  <2>3. QED
    BY <1>1, <1>5, <2>1, <2>2, CallShape DEF GoodRow
<1>6. ASSUME \/ rows' = rows
             \/ call.op # "list" /\ rows' \subseteq rows \cup {R}
             \/ call.op # "list" /\ rows' \subseteq rows \cup {C},
             found' \subseteq found
      PROVE  RowInv'
  BY <1>1, <1>4, <1>5, <1>6, RowsKept, RowsSame, FS_Singleton DEF Inv
<1>7. Precise /\ Exact /\ Wide
  BY <1>1 DEF Precise, Exact, Wide
<1>8. \A r \in rows : r.tag \notin {"off", "foreign"}
  BY <1>1 DEF Inv, RowInv, GoodRow
<1>9. ASSUME NEW p \in {"companionCheck", "companionDelete"}, Finish(p),
             call.op # "list", Contract!Goal(call, past, ZoneOf(rows'))
      PROVE  (Proceeds \/ (Returns /\ Honest)) /\ found' \subseteq found
  <2>1. CASE Goto(p)
    BY <1>9, <2>1, GotoIs, GoesOn DEF Inv, Ops
  <2>2. CASE Return("ok")
    BY <1>9, <2>2, ReturnsOk DEF Returns
  <2>3. QED
    BY <1>9, <2>1, <2>2 DEF Finish
(* Adding the record, and removing one.                                    *)
<1>10. ASSUME NEW next, TechnitiumAdd(next), call.op \in {"create", "update"}
       PROVE  /\ rows' \in {rows, rows \cup {R}} /\ Scope
              /\ \/ Returns /\ Honest /\ found' = {}
                 \/ next /\ rows' = rows \cup {R} /\ Contract!Goal(call, past, ZoneOf(rows'))
  <2>1. /\ rows' \in {rows, rows \cup {R}}
        /\ \/ Return("conflict") \/ Return("typeConflict") \/ Return("error")
           \/ next /\ rows' = rows \cup {R}
    BY <1>1, <1>10, PlainAccept
       DEF TechnitiumAdd, TechnitiumRefusal, TechnitiumRequest, Write, Answer
  <2>2. Scope
    BY <1>4, <1>10, <2>1, RowScope, RowComes
  <2>3. Contract!Goal(call, past, ZoneOf(rows')) \/ R \notin rows'
    BY <1>1, <1>4, <1>10, GoalThere
  <2>4. QED
    BY <2>1, <2>2, <2>3, ReturnsError DEF Results, Returns
<1>11. ASSUME NEW k, NEW next, TechnitiumRemove(k, next), call.op # "list",
              \A r \in RowsAt(k) : MayGo(Stored(r))
       PROVE  /\ rows' \in {rows, rows \ RowsAt(k)} /\ Scope
              /\ \/ Returns /\ Honest /\ found' = {}
                 \/ next /\ rows' = rows \ RowsAt(k)
  <2>1. /\ rows' \in {rows, rows \ RowsAt(k)}
        /\ Return("error") \/ (next /\ rows' = rows \ RowsAt(k))
    BY <1>11 DEF TechnitiumRemove, TechnitiumRequest, Write, Answer
  <2>2. Scope
    BY <1>11, <2>1, RowScope DEF RowsAt
  <2>3. QED
    BY <2>1, <2>2, ReturnsError DEF Results, Returns
<1>12. \A r \in RowsAt(call.rec) : MayGo(Stored(r))
  BY RecGoes DEF RowsAt
<1>. USE DEF Request
<1>13. CASE TechnitiumList
  <2>1. call.op = "list" /\ rows' = rows
    BY <1>13 DEF TechnitiumList, ListZoneRecords, TechnitiumRequest, Write, Inv, CallInv, Ops
  <2>2. Returns /\ Honest
    BY <1>1, <1>13, <2>1, ReturnsZone, ReturnsError
       DEF TechnitiumList, ListZoneRecords, TechnitiumRequest, Write, Inv, Results
  <2>3. QED
    BY <1>1, <1>2, <1>3, <1>6, <2>1, <2>2, NoChange DEF Returns
<1>14. CASE TechnitiumCreate
  <2>1. call.op = "create" /\ TechnitiumAdd(Finish("companionCheck"))
    BY <1>14 DEF TechnitiumCreate, Inv, CallInv, Ops
  <2>2. /\ rows' \in {rows, rows \cup {R}} /\ Scope
        /\ \/ Returns /\ Honest /\ found' = {}
           \/ Finish("companionCheck") /\ Contract!Goal(call, past, ZoneOf(rows'))
    BY <1>10, <2>1
  <2>3. (Proceeds \/ (Returns /\ Honest)) /\ found' \subseteq found
    BY <1>9, <2>1, <2>2
  <2>4. pc' # "idle" => Contract!Goal(call, past, ZoneOf(rows'))
    BY <2>2 DEF Returns
  <2>5. QED
    BY <1>1, <1>2, <1>3, <1>6, <2>1, <2>2, <2>3, <2>4 DEF Proceeds, Returns
<1>15. CASE CreateCompanionHTTPS
  <2>1. call.op = "create" /\ done
    BY <1>1, <1>15 DEF CreateCompanionHTTPS, Inv, StepInv, TechnitiumInv
  <2>2. /\ rows' \in {rows, rows \cup {C}}
        /\ Return("ok") \/ Goto("companionAdd")
    BY <1>1, <1>15, PlainAccept DEF CreateCompanionHTTPS, CompanionRequest, Write, Answer
  <2>3. Scope
    BY <1>5, <1>7, <2>1, <2>2, RowScope, RowComes
  <2>4. (Returns /\ Honest /\ found' = {}) \/ (Proceeds /\ found' = found /\ pc' = "companionAdd")
    BY <2>1, <2>2, ReturnsOk, GotoIs, GoesOn DEF Returns, Inv, Ops
  <2>5. QED
    BY <1>1, <1>2, <1>3, <1>6, <2>1, <2>2, <2>3, <2>4 DEF Proceeds, Returns
<1>16. CASE TechnitiumDelete
  <2>1. call.op = "delete" /\ TechnitiumRemove(call.rec, Finish("companionDelete"))
    BY <1>16 DEF TechnitiumDelete, Inv, CallInv, Ops
  <2>2. /\ rows' \in {rows, rows \ RowsAt(call.rec)} /\ Scope
        /\ \/ Returns /\ Honest /\ found' = {}
           \/ Finish("companionDelete") /\ rows' = rows \ RowsAt(call.rec)
    BY <1>11, <1>12, <2>1
  <2>3. rows' = rows \ RowsAt(call.rec) => Contract!Goal(call, past, ZoneOf(rows'))
    <3>1. \A r \in rows \ RowsAt(call.rec) : KeyOf(r) # call.rec
      BY DEF RowsAt
    <3>2. QED
      BY <1>1, <1>7, <2>1, <3>1, GoalGone
  <2>4. (Proceeds \/ (Returns /\ Honest)) /\ found' \subseteq found
    BY <1>9, <2>1, <2>2, <2>3
  <2>5. pc' # "idle" => Contract!Goal(call, past, ZoneOf(rows'))
    BY <2>2, <2>3 DEF Returns
  <2>6. QED
    BY <1>1, <1>2, <1>3, <1>6, <2>1, <2>2, <2>4, <2>5 DEF Proceeds, Returns
<1>17. CASE DeleteCompanionHTTPS
  <2>1. call.op = "delete" /\ done
    BY <1>1, <1>17 DEF DeleteCompanionHTTPS, Inv, StepInv, TechnitiumInv
  <2>2. rows' \in {rows, rows \ RowsAt(CompanionKey)} /\ Return("ok")
    BY <1>17 DEF DeleteCompanionHTTPS, CompanionRequest, Write
  <2>3. Scope
    <3>1. \A r \in RowsAt(CompanionKey) : r.name = call.rec.name /\ r.type = "HTTPS"
      BY DEF RowsAt, CompanionKey, KeyOf, Key
    <3>2. \A r \in RowsAt(CompanionKey) : MayGo(Stored(r))
      BY <1>7, <3>1, RowGoes
    <3>3. QED
      BY <2>1, <2>2, <3>2, RowScope
  <2>4. Returns /\ Honest
    BY <2>1, <2>2, ReturnsOk
  <2>5. QED
    BY <1>1, <1>2, <1>3, <1>6, <2>1, <2>2, <2>3, <2>4 DEF Returns
<1>18. CASE TechnitiumUpdate
  <2>1. call.op = "update"
    BY <1>1, <1>18 DEF TechnitiumUpdate, Inv, CallInv, Ops, StepInv, TechnitiumInv
  <2>2. \A r \in RowsAt(call.old) : MayGo(Stored(r))
    BY <1>1, <2>1, OldGoes DEF RowsAt
  <2>3. CASE pc = "update" /\ TechnitiumReplace
    <3>. DEFINE old == IF call.rec.type = "CNAME" THEN CallRows ELSE RowsAt(call.old)
    <3>1. \A r \in old : MayGo(Stored(r))
      <4>1. ASSUME call.rec.type = "CNAME", NEW r \in CallRows
            PROVE  MayGo(Stored(r))
        BY <4>1, RowGoes DEF CallRows, RowsOf
      <4>2. QED
        BY <2>2, <4>1
    <3>2. /\ rows' \in {rows, (rows \ old) \cup {R}}
          /\ Return("error") \/ (Return("ok") /\ R \in rows')
      BY <2>3 DEF TechnitiumReplace, TechnitiumRequest, Write, Answer
    <3>3. Scope
      BY <1>4, <2>1, <3>1, <3>2, RowScope, RowComes
    <3>4. Returns /\ Honest
      BY <1>1, <1>4, <2>1, <3>2, ReturnsError, ReturnsOk, GoalThere DEF Results
    <3>5. QED
      BY <1>1, <1>2, <1>3, <1>6, <2>1, <3>2, <3>3, <3>4 DEF Returns
  <2>4. CASE pc = "update" /\ TechnitiumRemove(call.old, Goto("add"))
    <3>1. /\ rows' \in {rows, rows \ RowsAt(call.old)} /\ Scope
          /\ (Returns /\ Honest /\ found' = {}) \/ Goto("add")
      BY <1>11, <2>1, <2>2, <2>4
    <3>2. Goto("add") => Proceeds /\ found' = found /\ pc' = "add"
      BY GotoIs, GoesOn DEF Inv, Ops
    <3>3. QED
      BY <1>1, <1>2, <1>3, <1>6, <2>1, <3>1, <3>2 DEF Proceeds, Returns
  <2>5. CASE pc = "add" /\ TechnitiumAdd(Return("ok"))
    <3>1. /\ rows' \in {rows, rows \cup {R}} /\ Scope
          /\ \/ Returns /\ Honest /\ found' = {}
             \/ Return("ok") /\ Contract!Goal(call, past, ZoneOf(rows'))
      BY <1>10, <2>1, <2>5
    <3>2. Returns /\ Honest
      BY <2>1, <3>1, ReturnsOk
    <3>3. QED
      BY <1>1, <1>2, <1>3, <1>6, <2>1, <3>1, <3>2 DEF Returns
  <2>6. QED
    BY <1>18, <2>3, <2>4, <2>5 DEF TechnitiumUpdate
<1>19. QED
  BY <1>13, <1>14, <1>15, <1>16, <1>17, <1>18 DEF TechnitiumNext

LEMMA TechnitiumKeeps ==
  ASSUME Inv, TechnitiumNext, Remember, call' = call
  PROVE  TechnitiumInv'
<1>1. kind = "technitium" /\ kind' = kind /\ call # NoCall /\ HistoryInv
  BY DEF TechnitiumNext, Inv
<1>2. /\ pc' = "companionCheck" => call.op = "create" /\ pc' # pc
      /\ pc' = "companionAdd" => pc = "companionCheck"
      /\ pc' = "companionDelete" => call.op = "delete" /\ pc' # pc
      /\ pc' = "add" => call.op = "update"
  BY <1>1 DEF TechnitiumNext, TechnitiumList, ListZoneRecords, TechnitiumRequest, TechnitiumCreate,
     TechnitiumAdd, TechnitiumRemove, Finish, CreateCompanionHTTPS, CompanionRequest, TechnitiumDelete,
     DeleteCompanionHTTPS, TechnitiumUpdate, TechnitiumReplace, Write, Answer, Return, ReturnWith,
     Goto, GotoWith, Inv, CallInv, Ops
<1>3. pc' \in {"companionCheck", "companionDelete"} => done'
  BY <1>1, <1>2, TechnitiumStep, HistoryGrows
<1>4. pc' = "companionAdd" => call.op = "create" /\ done'
  BY <1>1, <1>2, HistoryGrows DEF Inv, StepInv, TechnitiumInv
<1>5. QED
  BY <1>1, <1>2, <1>3, <1>4 DEF TechnitiumInv

-----------------------------------------------------------------------------
(* Pi-hole, both versions.                                                 *)
LEMMA PiholeStep ==
  ASSUME Inv, PiholeNext
  PROVE  Request /\ RowInv' /\ IdInv'
<1>. DEFINE R == Row(call.rec, 0, "on")
<1>1. /\ kind \in {"pihole5", "pihole6"} /\ kind' = kind /\ call # NoCall /\ call \in Requested
      /\ once' = once
  BY DEF PiholeNext, Inv, CallInv
<1>2. IdInv'
  BY <1>1, PlainIds
<1>3. once' \in {"unknown", "known", "failed"} /\ session \in BOOLEAN
  BY <1>1 DEF Inv, CallInv
<1>4. ASSUME call.op # "list", call.rec.type # "TXT"
      PROVE  GoodRow(R) /\ KeyOf(R) = call.rec /\ R.tag = "on"
  <2>1. call.rec.type \in Capabilities.stores
    BY <1>1, <1>4, Caps, CallShape
  <2>2. QED
    BY <1>1, <1>4, <2>1, RecRow, BoundsAssumption DEF Row
<1>5. ASSUME \/ rows' = rows /\ found' \subseteq rows \cup found
             \/ /\ call.op # "list" /\ call.rec.type # "TXT"
                /\ rows' \subseteq rows \cup {R} /\ found' \subseteq found
      PROVE  RowInv'
  BY <1>1, <1>4, <1>5, RowsKept, RowsSame, FS_Singleton DEF Inv
<1>6. Precise /\ Exact
  BY <1>1 DEF Precise, Exact
<1>7. \A r \in rows : r.tag \notin {"off", "foreign"} /\ (SoundConfig => r.tag # "shared")
  BY <1>1 DEF Inv, RowInv, GoodRow, SoundConfig
(* The ways a request ends, by what a good reply means.                    *)
<1>8. ASSUME NEW new, NEW ok, V5Request(new, ok) \/ V6Request(new, ok)
      PROVE  /\ rows' \in {rows, new} /\ session' \in BOOLEAN
             /\ \/ rows' = new /\ ok
                \/ Returns /\ found' = {} /\ (SoundConfig => Honest)
  <2>1. CASE rows' = new /\ ok /\ session' = session
    BY <1>3, <2>1
  <2>2. CASE rows' \in {rows, new} /\ Return("error") /\ session' \in {session, FALSE}
    BY <1>3, <2>2, ReturnsError DEF Results, Returns
  <2>3. CASE OddReplies /\ rows' = rows /\ Return("ok") /\ session' = session
    BY <1>3, <2>3, ReturnsOk DEF Returns, SoundConfig
  <2>4. QED
    BY <1>8, <2>1, <2>2, <2>3 DEF V5Request, V6Request, Write, Answer
<1>. USE DEF Request
<1>9. CASE Authenticate
  <2>1. rows' = rows /\ session' \in BOOLEAN /\ (Goto(call.op) \/ Return("error"))
    BY <1>9 DEF Authenticate, Answer
  <2>2. (Proceeds /\ found' = found) \/ (Returns /\ Honest /\ found' = {})
    BY <1>1, <2>1, CallShape, GotoIs, GoesOn, ReturnsError DEF Inv, Results, Returns, Ops
  <2>3. QED
    BY <1>1, <1>2, <1>3, <1>5, <2>1, <2>2, NoChange DEF Proceeds, Returns
<1>10. CASE V6List
  <2>1. call.op = "list" /\ V6Request(rows, ReturnWith("ok", Listing(rows)))
    BY <1>10 DEF V6List, Inv, CallInv, Ops
  <2>2. ReturnWith("ok", Listing(rows)) => Returns /\ Honest
    BY <1>1, <2>1, ReturnsZone DEF Inv
  <2>3. rows' = rows /\ session' \in BOOLEAN /\ Returns /\ found' = {} /\ (SoundConfig => Honest)
    BY <1>8, <2>1, <2>2 DEF Returns
  <2>4. QED
    BY <1>2, <1>3, <1>5, <2>3, NoChange
<1>11. CASE ListCustomDNS
  <2>. DEFINE read == {r \in rows : r.type \in {"A", "AAAA"}}
  <2>1. V5Request(rows, GotoWith("listCNAME", read, {}))
    BY <1>11 DEF ListCustomDNS
  <2>2. GotoWith("listCNAME", read, {}) => Proceeds /\ found' \subseteq rows
    <3>1. GotoWith("listCNAME", read, {}) => Proceeds
      BY GoesOn DEF Inv, Ops
    <3>2. QED
      BY <3>1 DEF GotoWith
  <2>3. /\ rows' = rows /\ session' \in BOOLEAN
        /\ (Proceeds /\ found' \subseteq rows) \/ (Returns /\ found' = {} /\ (SoundConfig => Honest))
    BY <1>8, <2>1, <2>2
  <2>4. QED
    BY <1>1, <1>2, <1>3, <1>5, <2>3, NoChange DEF Proceeds, Returns
<1>12. CASE ListCNAME
  <2>. DEFINE read == found \cup {r \in rows : r.type = "CNAME"}
  <2>1. kind = "pihole5" /\ pc = "listCNAME" /\ V5Request(rows, ReturnWith("ok", Listing(read)))
    BY <1>12 DEF ListCNAME, V5Request
  <2>2. /\ call.op = "list" /\ ZoneOf(found) \subseteq past
        /\ \A x \in kept : x.type \in {"A", "AAAA"} => x \in ZoneOf(found)
    BY <2>1 DEF Inv, StepInv, PiholeInv
  <2>3. ZoneOf(rows) \subseteq past /\ kept \subseteq ZoneOf(rows)
    BY <1>1, ZoneIs DEF Inv, HistoryInv
  <2>4. ZoneOf(read) \subseteq past
    BY <2>2, <2>3 DEF ZoneOf
  <2>5. \A r \in rows : r.type \in {"A", "AAAA", "CNAME"}
    BY <1>1, Caps DEF Inv, RowInv, GoodRow
  <2>6. kept \subseteq ZoneOf(read)
    <3>1. ASSUME NEW x \in kept
          PROVE  x \in ZoneOf(read)
      <4>1. PICK r \in rows : x = Stored(r)
        BY <2>3, <3>1 DEF ZoneOf
      <4>2. CASE r.type = "CNAME"
        BY <4>1, <4>2 DEF ZoneOf
      <4>3. CASE r.type \in {"A", "AAAA"}
        <5>1. x \in ZoneOf(found)
          BY <2>2, <3>1, <4>1, <4>3, StoredFields
        <5>2. QED
          BY <5>1 DEF ZoneOf
      <4>4. QED
        BY <2>5, <4>2, <4>3
    <3>2. QED
      BY <3>1
  <2>7. Contract!Visible(kept) \subseteq Listing(read)
    BY <2>6, ListingVisible DEF Contract!Visible
  <2>8. ReturnWith("ok", Listing(read)) => Returns /\ Honest
    BY <2>2, <2>4, <2>7, ReturnsListing
  <2>9. rows' = rows /\ session' \in BOOLEAN /\ Returns /\ found' = {} /\ (SoundConfig => Honest)
    BY <1>8, <2>1, <2>8 DEF Returns
  <2>10. QED
    BY <1>2, <1>3, <1>5, <2>9, NoChange
<1>13. CASE PiholeCreate
  <2>1. call.op = "create"
    BY <1>13 DEF PiholeCreate, Inv, CallInv, Ops
  <2>2. CASE Ignored
    <3>1. rows' = rows /\ session' \in BOOLEAN /\ Return("ok") /\ call.rec.type \notin Capabilities.stores
      BY <1>1, <1>3, <2>2, Caps DEF Ignored, Answer
    <3>2. Returns /\ Honest
      BY <2>1, <3>1, ReturnsOk, GoalIgnored
    <3>3. QED
      BY <1>2, <1>3, <1>5, <3>1, <3>2, NoChange DEF Returns
  <2>3. CASE call.rec.type # "TXT" /\ (V5Create(call.rec) \/ V6Create(call.rec))
    <3>1. \/ V5Request(rows, Return("error")) \/ V6Request(rows, Return("error"))
          \/ V5Request(Added(call.rec), Return("ok")) \/ V6Request(Added(call.rec), Return("ok"))
      BY <2>3 DEF V5Create, V6Create
    <3>2. Added(call.rec) \in {rows, rows \cup {R}}
      BY <1>1, PlainAccept DEF Added
    <3>3. \E r \in Added(call.rec) : KeyOf(r) = call.rec /\ r.tag \notin {"off", "foreign"}
      <4>1. CASE RowsAt(call.rec) # {}
        BY <1>7, <4>1 DEF Added, RowsAt
      <4>2. CASE RowsAt(call.rec) = {}
        <5>1. R \in Added(call.rec)
          BY <1>1, <4>2, PlainAccept DEF Added
        <5>2. QED
          BY <1>4, <2>1, <2>3, <5>1
      <4>3. QED
        BY <4>1, <4>2
    <3>4. rows' = Added(call.rec) /\ Return("ok") => Returns /\ Honest
      BY <1>1, <2>1, <3>3, ReturnsOk, GoalThere
    <3>5. Return("error") => Returns /\ Honest
      BY ReturnsError DEF Results
    <3>6. /\ rows' \in {rows, rows \cup {R}} /\ session' \in BOOLEAN
          /\ Returns /\ found' = {} /\ (SoundConfig => Honest)
      <4>1. CASE V5Request(rows, Return("error")) \/ V6Request(rows, Return("error"))
        BY <1>8, <3>5, <4>1 DEF Returns
      <4>2. CASE V5Request(Added(call.rec), Return("ok")) \/ V6Request(Added(call.rec), Return("ok"))
        BY <1>8, <3>2, <3>4, <4>2 DEF Returns
      <4>3. QED
        BY <3>1, <4>1, <4>2
    <3>7. Scope
      BY <1>4, <2>1, <2>3, <3>6, RowScope, RowComes
    <3>8. QED
      BY <1>2, <1>3, <1>5, <2>1, <2>3, <3>6, <3>7
  <2>4. QED
    BY <1>13, <2>2, <2>3 DEF PiholeCreate
<1>14. CASE PiholeDelete
  <2>1. call.op = "delete"
    BY <1>14 DEF PiholeDelete, Inv, CallInv, Ops
  <2>2. CASE Ignored
    <3>1. rows' = rows /\ session' \in BOOLEAN /\ Return("ok") /\ call.rec.type \notin Capabilities.stores
      BY <1>1, <1>3, <2>2, Caps DEF Ignored, Answer
    <3>2. Returns /\ Honest
      BY <2>1, <3>1, ReturnsOk, GoalIgnored
    <3>3. QED
      BY <1>2, <1>3, <1>5, <3>1, <3>2, NoChange DEF Returns
  <2>3. CASE call.rec.type # "TXT" /\ (V5Delete(call.rec) \/ V6Delete(call.rec))
    <3>1. PICK gone \in SUBSET RowsAt(call.rec) :
            /\ V5Request(rows \ gone, Return("ok")) \/ V6Request(rows \ gone, Return("ok"))
            /\ SoundConfig => gone = RowsAt(call.rec)
      <4>1. CASE V5Delete(call.rec)
        BY <4>1 DEF V5Delete
      <4>2. CASE V6Delete(call.rec)
        <5>. DEFINE gone == {r \in RowsAt(call.rec) : r.tag # "shared"}
        <5>1. V6Request(rows \ gone, Return("ok"))
          BY <4>2 DEF V6Delete
        <5>2. SoundConfig => gone = RowsAt(call.rec)
          BY <1>7 DEF RowsAt
        <5>3. QED
          BY <5>1, <5>2
      <4>3. QED
        BY <2>3, <4>1, <4>2
    <3>2. SoundConfig /\ rows' = rows \ gone => \A r \in rows' : KeyOf(r) # call.rec
      BY <3>1 DEF RowsAt
    <3>3. rows' = rows \ gone /\ Return("ok") => Returns /\ (SoundConfig => Honest)
      BY <1>1, <1>6, <2>1, <3>2, ReturnsOk, GoalGone
    <3>4. /\ rows' \in {rows, rows \ gone} /\ session' \in BOOLEAN
          /\ Returns /\ found' = {} /\ (SoundConfig => Honest)
      BY <1>8, <3>1, <3>3 DEF Returns
    <3>5. \A r \in rows \ rows' : KeyOf(r) = call.rec
      BY <3>1, <3>4 DEF RowsAt
    <3>6. Scope
      BY <2>1, <3>4, <3>5, RowScope, RecGoes
    <3>7. QED
      BY <1>2, <1>3, <1>5, <2>1, <2>3, <3>4, <3>6
  <2>4. QED
    BY <1>14, <2>2, <2>3 DEF PiholeDelete
<1>15. QED
  BY <1>9, <1>10, <1>11, <1>12, <1>13, <1>14 DEF PiholeNext, PiholeList

LEMMA PiholeKeeps ==
  ASSUME Inv, PiholeNext, Remember, call' = call
  PROVE  PiholeInv'
<1>1. kind \in {"pihole5", "pihole6"} /\ kind' = kind /\ call # NoCall /\ HistoryInv
  BY DEF PiholeNext, Inv
<1>2. ASSUME kind = "pihole5", pc' = "listCNAME"
      PROVE  /\ call.op = "list" /\ rows' = rows
             /\ found' = {r \in rows : r.type \in {"A", "AAAA"}}
  BY <1>1, <1>2, CallShape DEF PiholeNext, Authenticate, PiholeList, V6List, ListCustomDNS, ListCNAME,
     PiholeCreate, PiholeDelete, Ignored, V5Create, V5Delete, V6Create, V6Delete, V5Request, V6Request,
     V6, Write, Answer, Return, ReturnWith, Goto, GotoWith, Inv, CallInv, Ops
<1>3. ASSUME kind = "pihole5", pc' = "listCNAME"
      PROVE  /\ ZoneOf(found') \subseteq past'
             /\ \A x \in kept' : x.type \in {"A", "AAAA"} => x \in ZoneOf(found')
  <2>1. ZoneOf(rows) \subseteq past' /\ kept' \subseteq ZoneOf(rows)
    BY <1>1, <1>2, <1>3, HistoryGrows
  <2>2. ZoneOf(found') \subseteq ZoneOf(rows)
    BY <1>2, <1>3 DEF ZoneOf
  <2>3. \A x \in kept' : x.type \in {"A", "AAAA"} => x \in ZoneOf(found')
    BY <1>2, <1>3, <2>1, StoredFields DEF ZoneOf
  <2>4. QED
    BY <2>1, <2>2, <2>3
<1>4. QED
  BY <1>1, <1>2, <1>3, ZonePrime DEF PiholeInv

-----------------------------------------------------------------------------
(* dnsmasq.                                                                *)
LEMMA DnsmasqStep ==
  ASSUME Inv, DnsmasqNext
  PROVE  /\ Request /\ RowInv' /\ IdInv'
         /\ "dnsmasq" \notin Interference /\ Prefixes = {} /\ pc' = "reload" =>
              Contract!Goal(call, past, ZoneOf(rows'))
<1>. DEFINE R == Row(call.rec, 0, "on")
            Alone == "dnsmasq" \notin Interference /\ Prefixes = {}
<1>1. /\ kind = "dnsmasq" /\ kind' = kind /\ call # NoCall /\ call \in Requested
      /\ UNCHANGED <<once, session>>
  BY DEF DnsmasqNext, Inv, CallInv, client
<1>2. IdInv'
  BY <1>1, PlainIds
<1>3. once' \in {"unknown", "known", "failed"} /\ session' \in BOOLEAN
  BY <1>1 DEF Inv, CallInv
<1>4. ASSUME call.op # "list"
      PROVE  GoodRow(R) /\ KeyOf(R) = call.rec /\ R.tag = "on"
  <2>1. call.rec.type \in Capabilities.stores
    BY <1>1, <1>4, Caps, CallShape
  <2>2. QED
    BY <1>1, <1>4, <2>1, RecRow, BoundsAssumption DEF Row
<1>5. ASSUME found' \subseteq rows \cup found,
             \/ rows' = rows
             \/ call.op # "list" /\ rows' \subseteq rows \cup found \cup {R}
      PROVE  RowInv'
  <2>1. kind' = kind /\ kind # "cloudflare" /\ RowInv
    BY <1>1 DEF Inv
  <2>2. CASE rows' = rows
    BY <1>5, <2>1, <2>2, RowsSame
  <2>3. CASE call.op # "list" /\ rows' \subseteq rows \cup found \cup {R}
    <3>1. GoodRow(R)
      BY <1>4, <2>3
    <3>2. QED
      BY <1>5, <2>1, <2>3, <3>1, RowsPlus
  <2>4. QED
    BY <1>5, <2>2, <2>3
<1>6. Precise /\ Exact /\ Torn /\ (SoundConfig => Alone)
  BY <1>1 DEF Precise, Exact, Torn, SoundConfig
<1>7. \A r \in rows : r.tag \notin {"off", "foreign"}
  BY <1>1 DEF Inv, RowInv, GoodRow
<1>8. ASSUME Goto("reload")
      PROVE  Proceeds /\ found' = found /\ pc' = "reload"
  BY <1>8, GotoIs, GoesOn DEF Inv, Ops
<1>9. ASSUME Return("error")
      PROVE  Returns /\ Honest /\ found' = {} /\ pc' = "idle" /\ result' # "ok"
  BY <1>9, ReturnsError DEF Results, Returns
<1>10. ASSUME GotoWith("write", rows, {})
       PROVE  Proceeds /\ found' = rows /\ pc' = "write"
  <2>1. Proceeds
    BY <1>10, GoesOn DEF Inv, Ops
  <2>2. QED
    BY <1>10, <2>1 DEF GotoWith
<1>. USE DEF Request
<1>11. CASE DnsmasqList
  <2>1. /\ call.op = "list" /\ rows' = rows
        /\ ReturnWith("ok", Listing(rows)) \/ Return("error")
    BY <1>11 DEF DnsmasqList, ClientList, ParseConfigContent, Read, Inv, CallInv, Ops
  <2>2. Returns /\ Honest
    BY <1>1, <1>9, <2>1, ReturnsZone DEF Inv
  <2>3. QED
    BY <1>2, <1>3, <1>5, <2>1, <2>2, NoChange DEF Returns
(* Writing the file.                                                       *)
<1>12. ASSUME NEW new, WriteFile(new), pc = "write", call.op \in {"create", "delete"},
              new \subseteq found \cup {R},
              Alone /\ rows' = new => Scope /\ Contract!Goal(call, past, ZoneOf(rows'))
       PROVE  Request /\ RowInv' /\ (Alone /\ pc' = "reload" => Contract!Goal(call, past, ZoneOf(rows')))
  <2>1. \/ rows' = new /\ Proceeds /\ found' = found /\ pc' = "reload"
        \/ rows' = new /\ Returns /\ Honest /\ found' = {} /\ pc' = "idle"
        \/ rows' \subseteq rows /\ Returns /\ Honest /\ found' = {} /\ pc' = "idle" /\ result' # "ok"
    BY <1>8, <1>9, <1>12 DEF WriteFile
  <2>2. RowInv'
    BY <1>5, <1>12, <2>1
  <2>3. Alone => Scope \/ (Torn /\ Returns /\ rows' \subseteq rows /\ result' # "ok")
    BY <1>6, <1>12, <2>1
  <2>4. QED
    BY <1>1, <1>3, <1>6, <1>12, <2>1, <2>2, <2>3 DEF Proceeds, Returns
<1>13. CASE pc = "create" /\ ClientCreate
  <2>1. call.op = "create" /\ rows' = rows
    BY <1>13 DEF ClientCreate, Read, Inv, CallInv, Ops
  <2>2. \/ Return("error") \/ GotoWith("write", rows, {})
        \/ HasLine(call.rec) /\ Goto("reload")
    BY <1>13 DEF ClientCreate, Read
  <2>3. Alone /\ HasLine(call.rec) => Contract!Goal(call, past, ZoneOf(rows'))
    <3>1. ASSUME Alone, HasLine(call.rec)
          PROVE  Contract!Goal(call, past, ZoneOf(rows'))
      <4>1. PICK r \in rows : r.name = call.rec.name /\ r.type = call.rec.type /\ r.val = call.rec.val
        BY <3>1 DEF HasLine
      <4>2. KeyOf(r) = call.rec
        BY <1>1, <2>1, <4>1, CallShape DEF KeyOf, Key
      <4>3. QED
        BY <1>1, <1>7, <2>1, <4>2, GoalThere
    <3>2. QED
      BY <3>1
  <2>4. (Proceeds /\ found' \subseteq rows \cup found) \/ (Returns /\ Honest /\ found' = {})
    BY <1>8, <1>9, <1>10, <2>2
  <2>5. Alone /\ pc' = "reload" => Contract!Goal(call, past, ZoneOf(rows'))
    BY <1>9, <1>10, <2>2, <2>3
  <2>6. QED
    BY <1>1, <1>2, <1>3, <1>5, <2>1, <2>4, <2>5, NoChange DEF Proceeds, Returns
<1>14. CASE pc = "delete" /\ ClientDelete
  <2>1. call.op = "delete" /\ rows' = rows
    BY <1>14 DEF ClientDelete, Read, Inv, CallInv, Ops
  <2>2. \/ Return("error") \/ GotoWith("write", rows, {})
        \/ RowsAt(call.rec) = {} /\ Goto("reload")
    BY <1>14 DEF ClientDelete, Read
  <2>3. RowsAt(call.rec) = {} => Contract!Goal(call, past, ZoneOf(rows'))
    <3>1. RowsAt(call.rec) = {} => \A r \in rows : KeyOf(r) # call.rec
      BY DEF RowsAt
    <3>2. QED
      BY <1>1, <1>6, <2>1, <3>1, GoalGone
  <2>4. (Proceeds /\ found' \subseteq rows \cup found) \/ (Returns /\ Honest /\ found' = {})
    BY <1>8, <1>9, <1>10, <2>2
  <2>5. pc' = "reload" => Contract!Goal(call, past, ZoneOf(rows'))
    BY <1>9, <1>10, <2>2, <2>3
  <2>6. QED
    BY <1>1, <1>2, <1>3, <1>5, <2>1, <2>4, <2>5, NoChange DEF Proceeds, Returns
<1>15. pc = "write" => (Alone => found = rows)
  BY <1>1 DEF Inv, StepInv, DnsmasqInv
<1>16. CASE pc = "write" /\ call.op = "create" /\ ClientCreate
  <2>1. CASE rows' = rows /\ Return("error")
    BY <1>1, <1>2, <1>3, <1>5, <1>9, <2>1, NoChange DEF Returns
  <2>2. CASE WriteFile(found \cup {R})
    <3>1. Alone /\ rows' = found \cup {R} => Scope /\ Contract!Goal(call, past, ZoneOf(rows'))
      BY <1>1, <1>4, <1>15, <1>16, RowScope, RowComes, GoalThere
    <3>2. QED
      BY <1>2, <1>12, <1>16, <2>2, <3>1
  <2>3. QED
    BY <1>16, <2>1, <2>2 DEF ClientCreate, Answer
<1>17. CASE pc = "write" /\ call.op = "delete" /\ ClientDelete
  <2>. DEFINE new == {r \in found : KeyOf(r) # call.rec}
  <2>1. WriteFile(new)
    BY <1>17 DEF ClientDelete
  <2>2. Alone /\ rows' = new => Scope /\ Contract!Goal(call, past, ZoneOf(rows'))
    <3>1. ASSUME Alone, rows' = new
          PROVE  Scope /\ Contract!Goal(call, past, ZoneOf(rows'))
      <4>1. \A r \in rows \ rows' : MayGo(Stored(r))
        BY <1>15, <1>17, <3>1, RecGoes
      <4>2. rows' \subseteq rows /\ \A r \in rows' : KeyOf(r) # call.rec
        BY <1>15, <1>17, <3>1
      <4>3. QED
        BY <1>1, <1>6, <1>17, <4>1, <4>2, RowScope, GoalGone
    <3>2. QED
      BY <3>1
  <2>3. QED
    BY <1>2, <1>12, <1>17, <2>1, <2>2
<1>18. CASE call.op \in {"create", "delete"} /\ DnsmasqReload
  <2>1. rows' = rows /\ Return("ok") /\ (Alone => done)
    BY <1>1, <1>18 DEF DnsmasqReload, Answer, Inv, StepInv, DnsmasqInv
  <2>2. Returns /\ (Alone => Honest) /\ pc' = "idle"
    BY <1>18, <2>1, ReturnsOk DEF Returns
  <2>3. QED
    BY <1>2, <1>3, <1>5, <1>6, <2>1, <2>2, NoChange DEF Returns
<1>19. QED
  BY <1>11, <1>13, <1>14, <1>16, <1>17, <1>18
     DEF DnsmasqNext, DnsmasqCreate, DnsmasqDelete, ClientCreate, ClientDelete

LEMMA DnsmasqKeeps ==
  ASSUME Inv, DnsmasqNext, Remember, call' = call
  PROVE  DnsmasqInv'
<1>1. kind = "dnsmasq" /\ kind' = kind /\ call # NoCall /\ HistoryInv
  BY DEF DnsmasqNext, Inv
<1>2. /\ pc' = "write" => rows' = rows /\ found' = rows /\ call.op \in {"create", "delete"}
      /\ pc' = "reload" => call.op \in {"create", "delete"}
  BY <1>1 DEF DnsmasqNext, DnsmasqList, ClientList, DnsmasqCreate, DnsmasqDelete, ClientCreate, ClientDelete,
     DnsmasqReload, WriteFile, Read, Answer, Return, ReturnWith, Goto, GotoWith, Inv, CallInv, Ops
<1>3. "dnsmasq" \notin Interference /\ Prefixes = {} /\ pc' = "reload" => done'
  BY <1>1, DnsmasqStep, HistoryGrows
<1>4. QED
  BY <1>1, <1>2, <1>3 DEF DnsmasqInv

-----------------------------------------------------------------------------
(* Backends that number their rows.                                        *)
LEMMA FreshId ==
  ASSUME RowInv, ~Full
  PROVE  NewId \in 1..MaxRows /\ \A r \in rows : r.id # NewId
<1>. DEFINE ids == {r.id : r \in rows}
            f == [r \in rows |-> r.id]
<1>1. f \in Surjection(rows, ids)
  BY DEF Surjection
<1>2. IsFiniteSet(rows) /\ Cardinality(rows) \in Nat
  BY FS_CardinalityType DEF RowInv
<1>3. IsFiniteSet(ids) /\ Cardinality(ids) <= Cardinality(rows)
  BY <1>1, <1>2, FS_Surjection
<1>4. Cardinality(ids) \in Nat
  BY <1>3, FS_CardinalityType
<1>5. Cardinality(rows) < MaxRows
  BY <1>2, BoundsAssumption DEF Full
<1>6. Cardinality(1..MaxRows) = MaxRows
  BY <1>2, <1>5, BoundsAssumption, FS_Interval
<1>7. ~(1..MaxRows \subseteq ids)
  <2>1. ASSUME 1..MaxRows \subseteq ids
        PROVE  Cardinality(1..MaxRows) <= Cardinality(ids)
    BY <1>3, <2>1, FS_Subset
  <2>2. QED
    BY <1>2, <1>3, <1>4, <1>5, <1>6, <2>1, BoundsAssumption
<1>8. \E i \in 1..MaxRows : \A r \in rows : r.id # i
  BY <1>7
<1>9. QED
  BY <1>8 DEF NewId

LEMMA NumberedAccept ==
  ASSUME RowInv, IdInv, Numbered, ~Full, call \in Requested, call.op # "list",
         call.rec.type \in Capabilities.stores,
         NEW g, g = "on" \/ (g = "me" /\ kind \in {"pfsense", "pfsenseForwarder", "opnsense"})
  PROVE  LET R == Row(call.rec, NewId, g)
         IN  /\ Accept(call.rec, g) = rows \cup {R}
             /\ GoodRow(R) /\ KeyOf(R) = call.rec /\ R.tag = g
             /\ Unique(rows \cup {R})
             /\ Cardinality(rows \cup {R}) <= MaxRows
<1>. DEFINE R == Row(call.rec, NewId, g)
<1>1. NewId \in 1..MaxRows /\ \A r \in rows : r.id # NewId
  BY FreshId
<1>2. NewId \in 0..MaxRows
  BY <1>1, BoundsAssumption
<1>3. GoodRow(R) /\ KeyOf(R) = call.rec
  BY <1>2, RecRow
<1>4. R.tag = g /\ R.id = NewId
  BY DEF Row
<1>5. Unique(rows \cup {R})
  BY <1>1, <1>4 DEF Unique, IdInv
<1>6. Accept(call.rec, g) = rows \cup {R}
  BY DEF Accept, IdFor, Numbered, Positional
<1>7. Cardinality(rows \cup {R}) <= MaxRows
  <2>1. IsFiniteSet(rows) /\ Cardinality(rows) \in Nat
    BY FS_CardinalityType DEF RowInv
  <2>2. Cardinality(rows) < MaxRows
    BY <2>1, BoundsAssumption DEF Full
  <2>3. Cardinality(rows \cup {R}) = IF R \in rows THEN Cardinality(rows) ELSE Cardinality(rows) + 1
    BY <2>1, FS_AddElement
  <2>4. QED
    BY <2>1, <2>2, <2>3, BoundsAssumption
<1>8. QED
  BY <1>3, <1>4, <1>5, <1>6, <1>7

LEMMA NumberedIds ==
  ASSUME kind' = kind, Numbered, Unique(rows')
  PROVE  IdInv'
  BY ZonePrime DEF IdInv, Numbered, Positional, Unique

(* A row's copy in the zone goes with the row.                             *)
LEMMA CopyGone ==
  ASSUME IdInv, Numbered, NEW r \in rows, NEW s \in SUBSET rows, r \notin s
  PROVE  Stored(r) \notin ZoneOf(s)
<1>1. ASSUME NEW q \in s, Stored(q) = Stored(r)
      PROVE  FALSE
  <2>1. q.id = r.id
    BY <1>1, StoredFields
  <2>2. QED
    BY <1>1, <2>1 DEF IdInv, Unique
<1>2. QED
  BY <1>1 DEF ZoneOf

-----------------------------------------------------------------------------
(* OPNsense.                                                               *)
LEMMA OPNsenseStep ==
  ASSUME Inv, OPNsenseNext
  PROVE  /\ Request /\ RowInv' /\ IdInv'
         /\ pc' = "reconfigure" => Contract!Goal(call, past, ZoneOf(rows'))
         /\ ForeignRows \subseteq ForeignRows'
<1>. DEFINE R == Row(call.rec, NewId, "me")
<1>1. /\ kind = "opnsense" /\ kind' = kind /\ call # NoCall /\ call \in Requested
      /\ UNCHANGED <<once, session>> /\ Numbered
  BY DEF OPNsenseNext, Inv, CallInv, client, Numbered
<1>2. once' \in {"unknown", "known", "failed"} /\ session' \in BOOLEAN
  BY <1>1 DEF Inv, CallInv
<1>3. ASSUME rows' = rows, found' \subseteq rows \cup found
      PROVE  RowInv' /\ IdInv' /\ Scope /\ ForeignRows' = ForeignRows
  BY <1>1, <1>3, RowsSame, IdsSame, NoChange DEF Inv, ForeignRows
<1>4. Precise /\ ~Exact
  BY <1>1 DEF Precise, Exact
<1>5. ASSUME Goto("reconfigure")
      PROVE  Proceeds /\ found' = found /\ pc' = "reconfigure"
  BY <1>5, GotoIs, GoesOn DEF Inv, Ops
<1>6. ASSUME Return("error") \/ Return("notFound")
      PROVE  Returns /\ Honest /\ found' = {} /\ pc' = "idle" /\ result' # "ok"
  BY <1>6, ReturnsError DEF Results, Returns
<1>. USE DEF Request
<1>7. CASE OPNsenseList
  <2>1. /\ call.op = "list" /\ rows' = rows
        /\ ReturnWith("ok", Listing(rows)) \/ Return("error")
    BY <1>7 DEF OPNsenseList, SearchHosts, OPNsenseRequest, Write, Inv, CallInv, Ops
  <2>2. Returns /\ Honest
    BY <1>1, <1>6, <2>1, ReturnsZone DEF Inv
  <2>3. QED
    BY <1>2, <1>3, <2>1, <2>2 DEF Returns
<1>8. CASE OPNsenseCreate
  <2>1. call.op = "create" /\ AddHost(call.rec)
    BY <1>8 DEF OPNsenseCreate, Inv, CallInv, Ops
  <2>2. CASE rows' = rows /\ Return("error")
    BY <1>1, <1>2, <1>3, <1>6, <2>2 DEF Returns
  <2>3. CASE ~Full /\ OPNsenseRequest(Accept(call.rec, "me"), Goto("reconfigure"))
    <3>1. call.rec.type \in Capabilities.stores
      BY <1>1, <2>1, Caps, CallShape
    <3>2. /\ Accept(call.rec, "me") = rows \cup {R}
          /\ GoodRow(R) /\ KeyOf(R) = call.rec /\ R.tag = "me"
          /\ Unique(rows \cup {R})
      BY <1>1, <2>1, <2>3, <3>1, NumberedAccept DEF Inv
    <3>3. /\ rows' \in {rows, rows \cup {R}}
          /\ \/ rows' = rows \cup {R} /\ Proceeds /\ found' = found /\ pc' = "reconfigure"
             \/ Returns /\ Honest /\ found' = {} /\ pc' = "idle"
      BY <1>5, <1>6, <2>3, <3>2 DEF OPNsenseRequest, Write
    <3>4. Scope
      BY <2>1, <3>2, <3>3, RowScope, RowComes
    <3>5. R \in rows' => Contract!Goal(call, past, ZoneOf(rows'))
      BY <1>1, <2>1, <3>2, GoalThere
    <3>6. RowInv'
      BY <1>1, <3>2, <3>3, RowsPlus DEF Inv
    <3>7. IdInv'
      <4>1. Unique(rows')
        BY <1>1, <3>2, <3>3 DEF Inv, IdInv
      <4>2. QED
        BY <1>1, <4>1, NumberedIds
    <3>8. ForeignRows \subseteq ForeignRows'
      BY <3>3 DEF ForeignRows
    <3>9. QED
      BY <1>1, <1>2, <3>3, <3>4, <3>5, <3>6, <3>7, <3>8 DEF Proceeds, Returns
  <2>4. QED
    BY <2>1, <2>2, <2>3 DEF AddHost, Answer
<1>9. CASE OPNsenseDelete /\ pc = "delete"
  <2>1. rows' = rows
    BY <1>9 DEF OPNsenseDelete, DeleteByProviderID, FindUUID, SearchHosts, OPNsenseRequest, Write, Answer
  <2>2. \/ Return("error") \/ Return("notFound")
        \/ \E r \in rows : GotoWith("remove", {r}, {})
    BY <1>9 DEF OPNsenseDelete, DeleteByProviderID, FindUUID, SearchHosts, OPNsenseRequest, Write, Answer, RowsAt
  <2>3. ASSUME NEW r \in rows, GotoWith("remove", {r}, {})
        PROVE  Proceeds /\ found' \subseteq rows /\ pc' = "remove"
    <3>1. Proceeds
      BY <2>3, GoesOn DEF Inv, Ops
    <3>2. QED
      BY <2>3, <3>1 DEF GotoWith
  <2>4. \/ Returns /\ Honest /\ found' = {} /\ pc' = "idle"
        \/ Proceeds /\ found' \subseteq rows /\ pc' = "remove"
    BY <1>6, <2>2, <2>3
  <2>5. QED
    BY <1>1, <1>2, <1>3, <2>1, <2>4 DEF Proceeds, Returns
<1>10. CASE OPNsenseDelete /\ pc = "remove"
  <2>1. PICK r \in RowSet : found = {r} /\ KeyOf(r) = call.rec /\ r.tag \in {"me", "peer"}
    BY <1>1, <1>10 DEF Inv, StepInv, OPNsenseInv
  <2>2. call.op = "delete" /\ DelHost
    BY <1>1, <1>10 DEF OPNsenseDelete, Inv, StepInv, OPNsenseInv
  <2>3. CASE rows' = rows /\ Return("error")
    BY <1>1, <1>2, <1>3, <1>6, <2>3 DEF Returns
  <2>4. CASE r \in rows /\ OPNsenseRequest(rows \ {r}, Goto("reconfigure"))
    <3>1. /\ rows' \in {rows, rows \ {r}}
          /\ \/ rows' = rows \ {r} /\ Proceeds /\ found' = found /\ pc' = "reconfigure"
             \/ Returns /\ Honest /\ found' = {} /\ pc' = "idle"
      BY <1>5, <1>6, <2>4 DEF OPNsenseRequest, Write
    <3>2. Scope
      BY <2>1, <2>2, <3>1, RowScope, RecGoes
    <3>3. rows' = rows \ {r} => Contract!Goal(call, past, ZoneOf(rows'))
      <4>1. Stored(r) \in past
        BY <1>1, <2>4, ZoneIs DEF Inv, HistoryInv, ZoneOf
      <4>2. Stored(r) \notin ZoneOf(rows \ {r})
        BY <1>1, <2>4, CopyGone DEF Inv
      <4>3. Stored(r).name = call.rec.name /\ Stored(r).type = call.rec.type
        BY <2>1, StoredFields DEF KeyOf, Key
      <4>4. QED
        BY <1>4, <2>2, <4>1, <4>2, <4>3, GoalFewer
    <3>4. RowInv'
      BY <1>1, <3>1, RowsKept, FS_EmptySet DEF Inv
    <3>5. IdInv'
      <4>1. Unique(rows')
        BY <1>1, <3>1 DEF Inv, IdInv, Unique
      <4>2. QED
        BY <1>1, <4>1, NumberedIds
    <3>6. ForeignRows \subseteq ForeignRows'
      BY <2>1, <3>1 DEF ForeignRows
    <3>7. QED
      BY <1>1, <1>2, <3>1, <3>2, <3>3, <3>4, <3>5, <3>6 DEF Proceeds, Returns
  <2>5. QED
    BY <2>1, <2>2, <2>3, <2>4 DEF DelHost, Answer
<1>11. CASE MaybeReconfigure
  <2>1. /\ rows' = rows /\ (Return("ok") \/ Return("error"))
        /\ call.op # "list" /\ done
    BY <1>1, <1>11 DEF MaybeReconfigure, Answer, Inv, StepInv, OPNsenseInv
  <2>2. Returns /\ Honest /\ pc' = "idle"
    BY <1>6, <2>1, ReturnsOk DEF Returns
  <2>3. QED
    BY <1>1, <1>2, <1>3, <2>1, <2>2 DEF Returns
<1>12. QED
  BY <1>7, <1>8, <1>9, <1>10, <1>11 DEF OPNsenseNext, OPNsenseDelete

LEMMA OPNsenseKeeps ==
  ASSUME Inv, OPNsenseNext, Remember, call' = call
  PROVE  OPNsenseInv'
<1>1. kind = "opnsense" /\ kind' = kind /\ call # NoCall /\ HistoryInv
  BY DEF OPNsenseNext, Inv
<1>2. /\ pc' = "remove" => /\ call.op = "delete"
                           /\ \E r \in rows : found' = {r} /\ KeyOf(r) = call.rec /\ r.tag \in {"me", "peer"}
      /\ pc' = "reconfigure" => call.op \in {"create", "delete"}
  BY <1>1 DEF OPNsenseNext, OPNsenseList, OPNsenseCreate, OPNsenseDelete, DeleteByProviderID, FindUUID,
     MaybeReconfigure, AddHost, DelHost, SearchHosts, OPNsenseRequest, Write, Answer, Return, ReturnWith,
     Goto, GotoWith, RowsAt, Inv, CallInv, Ops, StepInv, OPNsenseInv
<1>3. rows \subseteq RowSet
  BY DEF Inv, RowInv, GoodRow
<1>4. pc' = "reconfigure" => done'
  BY <1>1, OPNsenseStep, HistoryGrows
<1>5. QED
  BY <1>1, <1>2, <1>3, <1>4 DEF OPNsenseInv

-----------------------------------------------------------------------------
(* OVH.                                                                    *)
LEMMA OvhStep ==
  ASSUME Inv, OvhNext
  PROVE  /\ Request /\ RowInv' /\ IdInv'
         /\ ~Apex /\ pc' = "refresh" => Contract!Goal(call, past, ZoneOf(rows'))
<1>1. /\ kind = "ovh" /\ kind' = kind /\ call # NoCall /\ call \in Requested
      /\ session' = session /\ Numbered
  BY DEF OvhNext, Inv, CallInv, Numbered
<1>2. once' \in {"unknown", "known", "failed"} /\ session' \in BOOLEAN
  BY <1>1 DEF OvhNext, OvhTimeDelta, OvhList, OvhCreate, OvhDelete, OvhUpdate, OvhRefresh, Inv, CallInv
<1>3. ASSUME rows' = rows, found' \subseteq rows \cup found
      PROVE  RowInv' /\ IdInv' /\ Scope
  BY <1>1, <1>3, RowsSame, IdsSame, NoChange DEF Inv
<1>4. ~Precise /\ ~Exact /\ (SoundConfig => ~Apex)
  BY <1>1 DEF Precise, Exact, SoundConfig
<1>5. ASSUME Goto("refresh")
      PROVE  Proceeds /\ found' = found /\ pc' = "refresh"
  BY <1>5, GotoIs, GoesOn DEF Inv, Ops
<1>6. ASSUME Return("error") \/ Return("notFound")
      PROVE  Returns /\ Honest /\ found' = {} /\ pc' = "idle" /\ result' # "ok"
  BY <1>6, ReturnsError DEF Results, Returns
<1>7. ASSUME NEW p \in {"listNext", "get", "deleteId", "put"}, NEW f \in SUBSET (rows \cup found), NEW td,
             GotoWith(p, f, td), rows' = rows
      PROVE  Request /\ RowInv' /\ IdInv' /\ pc' # "refresh"
  <2>1. Proceeds
    BY <1>7, GoesOn DEF Inv, Ops
  <2>2. found' \subseteq rows \cup found /\ pc' # "refresh"
    BY <1>7 DEF GotoWith
  <2>3. QED
    BY <1>1, <1>2, <1>3, <1>7, <2>1, <2>2 DEF Request, Proceeds, Returns
<1>8. ASSUME rows' = rows, Returns /\ Honest
      PROVE  Request /\ RowInv' /\ IdInv' /\ pc' # "refresh"
  BY <1>2, <1>3, <1>8 DEF Request, Returns
<1>9. ASSUME rows' = rows, Return("error") \/ Return("notFound")
      PROVE  Request /\ RowInv' /\ IdInv' /\ pc' # "refresh"
  BY <1>6, <1>8, <1>9
<1>10. CASE OvhTimeDelta
  <2>1. rows' = rows /\ (Goto(call.op) \/ Return("error"))
    BY <1>10 DEF OvhTimeDelta, Answer
  <2>2. CASE Goto(call.op)
    <3>1. Proceeds /\ found' = found /\ pc' = call.op
      BY <1>1, <2>2, CallShape, GotoIs, GoesOn DEF Inv, Ops
    <3>2. QED
      BY <1>1, <1>2, <1>3, <2>1, <3>1, CallShape DEF Request, Proceeds, Returns, Ops
  <2>3. QED
    BY <1>9, <2>1, <2>2
<1>11. CASE OvhList
  <2>1. CASE pc = "list" /\ Answer(GotoWith("listNext", {}, AllTypes))
    BY <1>7, <2>1 DEF Answer
  <2>2. CASE OvhRequest(rows, GotoWith("listNext", found,
               (todo \ {NextItem}) \cup
                 {Item(r.type, r.id) : r \in {x \in rows : x.type = NextItem.type}}))
    BY <1>7, <1>9, <2>2 DEF OvhRequest, Write
  <2>3. CASE OvhGetRecord
    BY <1>7, <1>9, <2>3 DEF OvhGetRecord, OvhRequest, Write, Answer
  <2>4. CASE pc = "listNext" /\ todo = {} /\ Answer(ReturnWith("ok", Listing(found)))
    <3>1. call.op = "list" /\ ListedSoFar
      BY <1>1, <2>4 DEF Inv, StepInv, OvhInv
    <3>2. ZoneOf(found) \subseteq past /\ kept \subseteq ZoneOf(found)
      BY <2>4, <3>1 DEF ListedSoFar
    <3>3. Contract!Visible(kept) \subseteq Listing(found)
      BY <3>2, ListingVisible DEF Contract!Visible
    <3>4. Returns /\ Honest /\ rows' = rows
      BY <2>4, <3>1, <3>2, <3>3, ReturnsListing DEF Answer
    <3>5. QED
      BY <1>8, <3>4
  <2>5. QED
    BY <1>11, <2>1, <2>2, <2>3, <2>4 DEF OvhList
<1>12. CASE OvhCreate
  <2>. DEFINE R == Row(call.rec, NewId, "on")
  <2>1. call.op = "create" /\ OvhPost(call.rec)
    BY <1>12 DEF OvhCreate, Inv, CallInv, Ops
  <2>2. CASE rows' = rows /\ Return("error")
    BY <1>9, <2>2
  <2>3. CASE ~Full /\ OvhRequest(Accept(call.rec, "on"), Goto("refresh"))
    <3>1. call.rec.type \in Capabilities.stores
      BY <1>1, <2>1, Caps, CallShape
    <3>2. /\ Accept(call.rec, "on") = rows \cup {R}
          /\ GoodRow(R) /\ KeyOf(R) = call.rec /\ R.tag = "on"
          /\ Unique(rows \cup {R})
      BY <1>1, <2>1, <2>3, <3>1, NumberedAccept DEF Inv
    <3>3. /\ rows' \in {rows, rows \cup {R}}
          /\ \/ rows' = rows \cup {R} /\ Proceeds /\ found' = found /\ pc' = "refresh"
             \/ Returns /\ Honest /\ found' = {} /\ pc' = "idle"
      BY <1>5, <1>6, <2>3, <3>2 DEF OvhRequest, Write
    <3>4. Scope
      BY <2>1, <3>2, <3>3, RowScope, RowComes
    <3>5. R \in rows' => Contract!Goal(call, past, ZoneOf(rows'))
      BY <1>1, <2>1, <3>2, GoalThere
    <3>6. RowInv'
      BY <1>1, <3>2, <3>3, RowsPlus DEF Inv
    <3>7. IdInv'
      <4>1. Unique(rows')
        BY <1>1, <3>2, <3>3 DEF Inv, IdInv
      <4>2. QED
        BY <1>1, <4>1, NumberedIds
    <3>8. QED
      BY <1>1, <1>2, <3>3, <3>4, <3>5, <3>6, <3>7 DEF Request, Proceeds, Returns
  <2>4. QED
    BY <2>1, <2>2, <2>3 DEF OvhPost, Answer
(* The lookup before a deletion or an update.                              *)
<1>13. ASSUME NEW k, NEW missing, NEW next \in {"deleteId", "put"}, OvhFindRecord(k, missing, next),
              rows' = rows /\ OvhIds(k) = {} /\ Return(missing) => Returns /\ Honest
       PROVE  Request /\ RowInv' /\ IdInv' /\ pc' # "refresh"
  <2>1. CASE OvhRequest(rows, IF OvhIds(k) = {} THEN Return(missing) ELSE GotoWith("get", OvhIds(k), {}))
    <3>1. OvhIds(k) \subseteq rows
      BY DEF OvhIds
    <3>2. rows' = rows
      BY <2>1 DEF OvhRequest, Write
    <3>3. CASE OvhIds(k) = {} /\ Return(missing)
      BY <1>8, <1>13, <3>2, <3>3
    <3>4. CASE GotoWith("get", OvhIds(k), {})
      BY <1>7, <3>1, <3>2, <3>4
    <3>5. QED
      BY <1>9, <2>1, <3>2, <3>3, <3>4 DEF OvhRequest, Write
  <2>2. ASSUME NEW r \in OvhChoices(k) \cap rows, Answer(GotoWith(next, {r}, {}))
        PROVE  Request /\ RowInv' /\ IdInv' /\ pc' # "refresh"
    BY <1>7, <1>13, <2>2 DEF Answer
  <2>3. CASE Answer(Return("error"))
    BY <1>9, <2>3 DEF Answer
  <2>4. QED
    BY <1>13, <2>1, <2>2, <2>3 DEF OvhFindRecord
(* The row that was looked up goes, and what takes its place comes.        *)
<1>14. ASSUME NEW r \in rows, NEW new, pc \in {"deleteId", "put"}, found = {r},
              OvhRequest(new, Goto("refresh")),
              \/ new = rows \ {r}
              \/ new = (rows \ {r}) \cup {Row(call.rec, r.id, "on")} /\ call.op = "update",
              ~Apex /\ rows' = new => Contract!Goal(call, past, ZoneOf(rows'))
       PROVE  /\ Request /\ RowInv' /\ IdInv'
              /\ ~Apex /\ pc' = "refresh" => Contract!Goal(call, past, ZoneOf(rows'))
  <2>. DEFINE R == Row(call.rec, r.id, "on")
  <2>1. call.op \in {"delete", "update"} /\ (~Apex => SetFound)
    BY <1>1, <1>14 DEF Inv, StepInv, OvhInv
  <2>2. r.id \in 0..MaxRows /\ call.rec.type \in Capabilities.stores
    BY <1>1, <2>1, Caps, CallShape DEF Inv, RowInv, GoodRow, RowSet
  <2>3. GoodRow(R) /\ KeyOf(R) = call.rec /\ R.id = r.id
    <3>1. R.id = r.id
      BY DEF Row
    <3>2. QED
      BY <1>1, <2>1, <2>2, <3>1, RecRow
  <2>4. /\ rows' \in {rows, new}
        /\ \/ rows' = new /\ Proceeds /\ found' = found /\ pc' = "refresh"
           \/ Returns /\ Honest /\ found' = {} /\ pc' = "idle"
    BY <1>5, <1>6, <1>14 DEF OvhRequest, Write
  <2>5. SoundConfig => Scope
    <3>1. ASSUME SoundConfig
          PROVE  MayGo(Stored(r))
      BY <1>4, <1>14, <2>1, <3>1, RowGoes DEF SetFound
    <3>2. call.op = "update" => MayCome(Stored(R))
      BY <2>3, RowComes
    <3>3. QED
      BY <1>14, <2>1, <2>4, <3>1, <3>2, RowScope
  <2>6. RowInv'
    BY <1>1, <1>14, <2>3, <2>4, RowsPlus DEF Inv
  <2>7. IdInv'
    <3>1. Unique(rows)
      BY <1>1 DEF Inv, IdInv
    <3>2. Unique(rows')
      BY <1>14, <2>3, <2>4, <3>1 DEF Unique
    <3>3. QED
      BY <1>1, <3>2, NumberedIds
  <2>8. QED
    BY <1>1, <1>2, <1>14, <2>4, <2>5, <2>6, <2>7 DEF Request, Proceeds, Returns
<1>15. CASE OvhDelete
  <2>1. call.op = "delete"
    BY <1>15 DEF OvhDelete
  <2>2. CASE OvhFindRecord(call.rec, "ok", "deleteId")
    <3>1. ASSUME rows' = rows, OvhIds(call.rec) = {}, Return("ok")
          PROVE  Returns /\ Honest
      <4>1. \A r \in rows' : ~(r.name = call.rec.name /\ r.type = call.rec.type)
        BY <3>1 DEF OvhIds
      <4>2. QED
        BY <1>4, <2>1, <3>1, <4>1, GoalEmpty, ReturnsOk
    <3>2. QED
      BY <1>13, <2>2, <3>1
  <2>3. CASE pc = "deleteId" /\ OvhDeleteById
    <3>1. PICK r \in RowSet : found = {r}
      BY <1>1, <2>3 DEF Inv, StepInv, OvhInv
    <3>2. CASE r \in rows /\ OvhRequest(rows \ {r}, Goto("refresh"))
      <4>1. ASSUME ~Apex, rows' = rows \ {r}
            PROVE  Contract!Goal(call, past, ZoneOf(rows'))
        <5>1. r.name = call.rec.name /\ r.type = call.rec.type
          BY <1>1, <2>3, <3>1, <4>1 DEF Inv, StepInv, OvhInv, SetFound
        <5>2. Stored(r) \in past
          BY <1>1, <3>2, ZoneIs DEF Inv, HistoryInv, ZoneOf
        <5>3. Stored(r) \notin ZoneOf(rows \ {r})
          BY <1>1, <3>2, CopyGone DEF Inv
        <5>4. Stored(r).name = call.rec.name /\ Stored(r).type = call.rec.type
          BY <5>1, StoredFields
        <5>5. QED
          BY <1>4, <2>1, <4>1, <5>2, <5>3, <5>4, GoalFewer
      <4>2. QED
        BY <1>14, <2>3, <3>1, <3>2, <4>1
    <3>3. CASE rows' = rows /\ Return("error")
      BY <1>9, <3>3
    <3>4. QED
      BY <2>3, <3>1, <3>2, <3>3 DEF OvhDeleteById, Answer
  <2>4. QED
    BY <1>15, <2>2, <2>3 DEF OvhDelete
<1>16. CASE OvhUpdate
  <2>1. call.op = "update"
    BY <1>16 DEF OvhUpdate
  <2>2. CASE OvhFindRecord(call.old, "notFound", "put")
    BY <1>6, <1>13, <2>2
  <2>3. CASE pc = "put" /\ OvhPut(call.rec)
    <3>1. PICK r \in RowSet : found = {r}
      BY <1>1, <2>3 DEF Inv, StepInv, OvhInv
    <3>. DEFINE R == Row(call.rec, r.id, "on")
    <3>2. {Row(call.rec, q.id, "on") : q \in found} = {R}
      BY <3>1
    <3>3. CASE r \in rows /\ OvhRequest((rows \ {r}) \cup {R}, Goto("refresh"))
      <4>1. KeyOf(R) = call.rec /\ R.tag = "on"
        BY <1>1, <2>1, CallShape DEF KeyOf, Key, Row
      <4>2. R \in rows' => Contract!Goal(call, past, ZoneOf(rows'))
        BY <1>1, <2>1, <4>1, GoalThere
      <4>3. QED
        BY <1>14, <2>1, <2>3, <3>1, <3>3, <4>2
    <3>4. CASE rows' = rows /\ Return("error")
      BY <1>9, <3>4
    <3>5. QED
      BY <2>3, <3>1, <3>2, <3>3, <3>4 DEF OvhPut, Answer
  <2>4. QED
    BY <1>16, <2>2, <2>3 DEF OvhUpdate
<1>17. CASE OvhRefresh
  <2>1. call.op # "list" /\ (~Apex => done) /\ rows' = rows /\ (Return("ok") \/ Return("error"))
    BY <1>1, <1>17 DEF OvhRefresh, OvhRequest, Write, Inv, StepInv, OvhInv
  <2>2. Returns /\ (~Apex => Honest) /\ pc' = "idle"
    BY <1>6, <2>1, ReturnsOk DEF Returns
  <2>3. QED
    BY <1>2, <1>3, <1>4, <2>1, <2>2 DEF Request, Returns
<1>18. QED
  BY <1>10, <1>11, <1>12, <1>15, <1>16, <1>17 DEF OvhNext

(* A listing that has read more, with more still to read.                  *)
LEMMA ListingGrows ==
  ASSUME HistoryInv, kind' = kind, call # NoCall, call' = call, Remember, rows' = rows,
         ZoneOf(found') \subseteq past,
         \A x \in kept : \/ x \in ZoneOf(found')
                         \/ Item(x.type, 0) \in todo' \/ Item(x.type, x.copy) \in todo'
  PROVE  ListedSoFar'
<1>1. past \subseteq past' /\ kept' = kept
  BY HistoryGrows
<1>2. QED
  BY <1>1, ZonePrime DEF ListedSoFar, Item

LEMMA ListingStarts ==
  ASSUME Inv, kind \in {"cloudflare", "ovh"}, call # NoCall, found' = {}, todo' = AllTypes
  PROVE  /\ ZoneOf(found') \subseteq past
         /\ \A x \in kept : Item(x.type, 0) \in todo'
<1>1. kept \subseteq ZoneOf(rows)
  BY ZoneIs DEF Inv, HistoryInv
<1>2. \A r \in rows : r.type \in Types
  BY Caps DEF Inv, RowInv, GoodRow
<1>3. \A x \in kept : x.type \in Types
  BY <1>1, <1>2, StoredFields DEF ZoneOf
<1>4. QED
  BY <1>3 DEF ZoneOf, AllTypes

LEMMA OvhKeeps ==
  ASSUME Inv, OvhNext, Remember, call' = call
  PROVE  OvhInv'
<1>1. kind = "ovh" /\ kind' = kind /\ call # NoCall /\ HistoryInv /\ call \in Requested /\ Numbered
  BY DEF OvhNext, Inv, CallInv, Numbered
<1>2. rows \subseteq RowSet
  BY DEF Inv, RowInv, GoodRow
(* Who goes where.                                                         *)
<1>3. /\ pc' = "listNext" => OvhList
      /\ pc' = "get" => /\ OvhDelete \/ OvhUpdate
                        /\ found' = OvhIds(IF call.op = "delete" THEN call.rec ELSE call.old)
      /\ pc' \in {"deleteId", "put"} => /\ OvhDelete \/ OvhUpdate
                                        /\ pc = "get" /\ \E r \in rows \cap found : found' = {r}
      /\ pc' = "refresh" => OvhCreate \/ OvhDelete \/ OvhUpdate
  <2>1. CASE OvhTimeDelta
    BY <1>1, <2>1, CallShape DEF OvhTimeDelta, Answer, Return, ReturnWith, Goto, GotoWith, Ops
  <2>2. CASE OvhList
    BY <1>1, <2>2 DEF OvhList, OvhGetRecord, OvhRequest, Write, Answer, Return, ReturnWith, GotoWith
  <2>3. CASE OvhCreate
    BY <1>1, <2>3 DEF OvhCreate, OvhPost, OvhRequest, Write, Answer, Return, ReturnWith, Goto, GotoWith
  <2>4. CASE OvhDelete
    BY <1>1, <2>4 DEF OvhDelete, OvhFindRecord, OvhChoices, OvhDeleteById, OvhRequest, Write, Answer,
       Return, ReturnWith, Goto, GotoWith
  <2>5. CASE OvhUpdate
    BY <1>1, <2>5 DEF OvhUpdate, OvhFindRecord, OvhChoices, OvhPut, OvhRequest, Write, Answer,
       Return, ReturnWith, Goto, GotoWith
  <2>6. CASE OvhRefresh
    BY <1>1, <2>6 DEF OvhRefresh, OvhRequest, Write, Return, ReturnWith
  <2>7. QED
    BY <2>1, <2>2, <2>3, <2>4, <2>5, <2>6 DEF OvhNext
<1>4. ASSUME pc' = "listNext"
      PROVE  call.op = "list" /\ ListedSoFar'
  <2>1. CASE pc = "list" /\ Answer(GotoWith("listNext", {}, AllTypes))
    <3>1. rows' = rows /\ found' = {} /\ todo' = AllTypes /\ call.op = "list"
      BY <2>1 DEF Answer, GotoWith, Inv, CallInv, Ops
    <3>2. QED
      BY <1>1, <3>1, ListingStarts, ListingGrows
  <2>2. CASE pc = "listNext"
    <3>1. /\ call.op = "list" /\ ZoneOf(found) \subseteq past
          /\ \A x \in kept : \/ x \in ZoneOf(found)
                             \/ Item(x.type, 0) \in todo \/ Item(x.type, x.copy) \in todo
      BY <1>1, <2>2 DEF Inv, StepInv, OvhInv, ListedSoFar
    <3>2. kept \subseteq ZoneOf(rows) /\ ZoneOf(rows) \subseteq past
      BY <1>1, ZoneIs DEF HistoryInv
    <3>3. CASE /\ NextItem.id = 0 /\ rows' = rows /\ found' = found
               /\ todo' = (todo \ {NextItem}) \cup
                            {Item(r.type, r.id) : r \in {x \in rows : x.type = NextItem.type}}
      <4>1. ASSUME NEW x \in kept
            PROVE  \/ x \in ZoneOf(found')
                   \/ Item(x.type, 0) \in todo' \/ Item(x.type, x.copy) \in todo'
        <5>1. PICK r \in rows : x = Stored(r)
          BY <3>2, <4>1 DEF ZoneOf
        <5>2. x.type = r.type /\ x.copy = r.id
          BY <1>1, <5>1, StoredFields
        <5>3. CASE r.type = NextItem.type
          BY <3>3, <5>2, <5>3
        <5>4. CASE r.type # NextItem.type
          BY <3>1, <3>3, <4>1, <5>2, <5>4, SMTT(30) DEF Item
        <5>5. QED
          BY <5>3, <5>4
      <4>2. QED
        BY <1>1, <3>1, <3>3, <4>1, ListingGrows
    <3>4. CASE /\ NextItem.id # 0 /\ rows' = rows /\ todo' = todo \ {NextItem}
               /\ found' = found \cup {r \in rows : r.id = NextItem.id /\ r.type = NextItem.type}
      <4>1. ASSUME NEW x \in kept
            PROVE  \/ x \in ZoneOf(found')
                   \/ Item(x.type, 0) \in todo' \/ Item(x.type, x.copy) \in todo'
        <5>1. PICK r \in rows : x = Stored(r)
          BY <3>2, <4>1 DEF ZoneOf
        <5>2. x.type = r.type /\ x.copy = r.id
          BY <1>1, <5>1, StoredFields
        <5>3. CASE r.type = NextItem.type /\ r.id = NextItem.id
          BY <3>4, <5>1, <5>3 DEF ZoneOf
        <5>4. CASE r.type # NextItem.type \/ r.id # NextItem.id
          BY <3>1, <3>4, <4>1, <5>2, <5>4 DEF Item, ZoneOf
        <5>5. QED
          BY <5>3, <5>4
      <4>2. ZoneOf(found') \subseteq past
        BY <3>1, <3>2, <3>4 DEF ZoneOf
      <4>3. QED
        BY <1>1, <3>1, <3>4, <4>1, <4>2, ListingGrows
    <3>5. QED
      BY <1>1, <1>3, <1>4, <2>2, <3>3, <3>4
         DEF OvhList, OvhGetRecord, OvhRequest, Write, Answer, Return, ReturnWith, GotoWith
  <2>3. QED
    BY <1>3, <1>4, <2>1, <2>2 DEF OvhList
<1>5. ASSUME pc' \in {"get", "deleteId", "put"}
      PROVE  call.op \in {"delete", "update"} /\ (~Apex => SetFound')
  <2>1. call.op \in {"delete", "update"}
    BY <1>3, <1>5 DEF OvhDelete, OvhUpdate
  <2>2. CASE pc' = "get"
    <3>1. call.op = "update" => call.old.name = call.rec.name /\ call.old.type = call.rec.type
      BY <1>1, CallShape
    <3>2. QED
      BY <1>3, <2>1, <2>2, <3>1 DEF SetFound, OvhIds
  <2>3. CASE pc' \in {"deleteId", "put"}
    BY <1>1, <1>3, <2>1, <2>3 DEF SetFound, Inv, StepInv, OvhInv
  <2>4. QED
    BY <1>5, <2>1, <2>2, <2>3
<1>6. pc' \in {"deleteId", "put"} => \E r \in RowSet : found' = {r}
  BY <1>2, <1>3
<1>7. pc' = "refresh" => call.op # "list" /\ (~Apex => done')
  <2>1. pc' = "refresh" => call.op # "list"
    BY <1>3 DEF OvhCreate, OvhDelete, OvhUpdate, Inv, CallInv, Ops
  <2>2. ~Apex /\ pc' = "refresh" => done'
    BY <1>1, OvhStep, HistoryGrows
  <2>3. QED
    BY <2>1, <2>2
<1>8. QED
  BY <1>1, <1>4, <1>5, <1>6, <1>7 DEF OvhInv

-----------------------------------------------------------------------------
(* Cloudflare.                                                             *)
LEMMA FirstPageIsAll ==
  ASSUME RowInv, kind = "cloudflare", NEW t, NEW page \in FirstPage(t)
  PROVE  /\ page \subseteq {r \in rows : r.type = t}
         /\ PageSize >= MaxRows => page = {r \in rows : r.type = t}
<1>. DEFINE all == {r \in rows : r.type = t}
<1>1. page \subseteq all /\ Cardinality(page) = Min({PageSize, Cardinality(all)})
  BY DEF FirstPage
<1>2. IsFiniteSet(rows) /\ Cardinality(rows) <= MaxRows
  BY DEF RowInv
<1>3. IsFiniteSet(all) /\ Cardinality(all) <= Cardinality(rows)
  BY <1>2, FS_Subset
<1>4. Cardinality(all) \in Nat /\ Cardinality(rows) \in Nat
  BY <1>2, <1>3, FS_CardinalityType
<1>5. ASSUME PageSize >= MaxRows
      PROVE  page = all
  <2>1. Cardinality(all) <= PageSize
    BY <1>2, <1>3, <1>4, <1>5, BoundsAssumption
  <2>2. \A y \in {PageSize, Cardinality(all)} : Cardinality(all) <= y
    BY <1>4, <2>1
  <2>3. Min({PageSize, Cardinality(all)}) = Cardinality(all)
    BY <1>4, <2>2, BoundsAssumption DEF Min
  <2>4. QED
    BY <1>1, <1>3, <2>3, FS_Subset
<1>6. QED
  BY <1>1, <1>5

(* A row goes, and another may take its place.                             *)
LEMMA CardinalityKept ==
  ASSUME RowInv, kind = "cloudflare", NEW r \in rows, NEW q
  PROVE  /\ Cardinality(rows \ {r}) <= MaxRows
         /\ Cardinality((rows \ {r}) \cup {q}) <= MaxRows
<1>1. IsFiniteSet(rows) /\ Cardinality(rows) <= MaxRows /\ Cardinality(rows) \in Nat
  BY FS_CardinalityType DEF RowInv
<1>2. IsFiniteSet(rows \ {r}) /\ Cardinality(rows \ {r}) = Cardinality(rows) - 1
  BY <1>1, FS_RemoveElement
<1>3. Cardinality((rows \ {r}) \cup {q}) \in {Cardinality(rows) - 1, Cardinality(rows)}
  <2>1. Cardinality((rows \ {r}) \cup {q}) =
          IF q \in rows \ {r} THEN Cardinality(rows \ {r}) ELSE Cardinality(rows \ {r}) + 1
    BY <1>2, FS_AddElement
  <2>2. QED
    BY <1>1, <1>2, <2>1
<1>4. QED
  BY <1>1, <1>2, <1>3, BoundsAssumption

LEMMA CloudflareStep ==
  ASSUME Inv, CloudflareNext
  PROVE  Request /\ RowInv' /\ IdInv'
<1>1. /\ kind = "cloudflare" /\ kind' = kind /\ call # NoCall /\ call \in Requested
      /\ session' = session /\ Numbered
  BY DEF CloudflareNext, Inv, CallInv, Numbered
<1>2. once' \in {"unknown", "known", "failed"} /\ session' \in BOOLEAN
  BY <1>1 DEF CloudflareNext, CloudflareZoneID, CloudflareGetZoneID, CloudflareList, CloudflareCreate,
     CloudflareDelete, CloudflareUpdate, Inv, CallInv
<1>3. ASSUME rows' = rows, found' \subseteq rows \cup found
      PROVE  RowInv' /\ IdInv' /\ Scope
  BY <1>1, <1>3, RowsSame, IdsSame, NoChange DEF Inv
<1>4. ~Precise /\ ~Exact
  BY <1>1 DEF Precise, Exact
<1>5. ASSUME NEW res \in Results \ {"ok"}, Return(res)
      PROVE  Returns /\ Honest /\ found' = {}
  BY <1>5, ReturnsError DEF Returns
<1>6. ASSUME NEW p \in {"listType", "deleteId", "patch", "srvDelete"}, NEW f \in SUBSET (rows \cup found), NEW td,
             GotoWith(p, f, td), rows' = rows
      PROVE  Request /\ RowInv' /\ IdInv'
  <2>1. Proceeds
    BY <1>6, GoesOn DEF Inv, Ops
  <2>2. found' \subseteq rows \cup found
    BY <1>6 DEF GotoWith
  <2>3. QED
    BY <1>1, <1>2, <1>3, <1>6, <2>1, <2>2 DEF Request, Proceeds, Returns
<1>7. ASSUME rows' = rows, Returns, SoundConfig => Honest
      PROVE  Request /\ RowInv' /\ IdInv'
  BY <1>2, <1>3, <1>7 DEF Request, Returns
<1>8. ASSUME rows' = rows, NEW res \in Results \ {"ok"}, Return(res)
      PROVE  Request /\ RowInv' /\ IdInv'
  BY <1>5, <1>7, <1>8
<1>9. CASE CloudflareZoneID
  <2>1. rows' = rows /\ (Goto(call.op) \/ Return("error"))
    BY <1>9 DEF CloudflareZoneID, Answer
  <2>2. CASE Goto(call.op)
    <3>1. Proceeds /\ found' = found
      BY <1>1, <2>2, CallShape, GotoIs, GoesOn DEF Inv, Ops
    <3>2. QED
      BY <1>1, <1>2, <1>3, <2>1, <3>1 DEF Request, Proceeds, Returns
  <2>3. QED
    BY <1>8, <2>1, <2>2 DEF Results
<1>10. CASE CloudflareList
  <2>1. CASE pc = "list" /\ Answer(GotoWith("listType", {}, AllTypes))
    BY <1>6, <2>1 DEF Answer
  <2>2. ASSUME pc = "listType", NEW page \in FirstPage(NextItem.type),
               CloudflareRequest(rows,
                 IF todo = {NextItem} THEN ReturnWith("ok", Listing(found \cup page))
                 ELSE GotoWith("listType", found \cup page, todo \ {NextItem}))
        PROVE  Request /\ RowInv' /\ IdInv'
    <3>1. /\ page \subseteq {r \in rows : r.type = NextItem.type}
          /\ PageSize >= MaxRows => page = {r \in rows : r.type = NextItem.type}
      BY <1>1, <2>2, FirstPageIsAll DEF Inv
    <3>2. /\ call.op = "list" /\ \A y \in todo : y.id = 0
          /\ PageSize >= MaxRows => ListedSoFar
      BY <1>1, <2>2 DEF Inv, StepInv, CloudflareInv
    <3>3. rows' = rows
      BY <2>2 DEF CloudflareRequest, Write
    <3>4. CASE todo = {NextItem} /\ ReturnWith("ok", Listing(found \cup page))
      <4>1. ASSUME SoundConfig
            PROVE  Honest
        <5>1. ListedSoFar /\ page = {r \in rows : r.type = NextItem.type}
          BY <3>1, <3>2, <4>1 DEF SoundConfig
        <5>2. ZoneOf(rows) \subseteq past /\ kept \subseteq ZoneOf(rows)
          BY <1>1, ZoneIs DEF Inv, HistoryInv
        <5>3. ZoneOf(found \cup page) \subseteq past
          BY <5>1, <5>2 DEF ZoneOf, ListedSoFar
        <5>4. ASSUME NEW x \in kept
              PROVE  x \in ZoneOf(found \cup page)
          <6>1. PICK r \in rows : x = Stored(r)
            BY <5>2, <5>4 DEF ZoneOf
          <6>2. CASE r.type = NextItem.type
            BY <5>1, <6>1, <6>2 DEF ZoneOf
          <6>3. CASE r.type # NextItem.type
            <7>1. x.type = r.type
              BY <6>1, StoredFields
            <7>2. x \in ZoneOf(found)
              BY <3>4, <5>1, <5>4, <6>3, <7>1 DEF ListedSoFar, Item
            <7>3. QED
              BY <7>2 DEF ZoneOf
          <6>4. QED
            BY <6>2, <6>3
        <5>5. Contract!Visible(kept) \subseteq Listing(found \cup page)
          BY <5>4, ListingVisible DEF Contract!Visible
        <5>6. QED
          BY <3>2, <3>4, <5>3, <5>5, ReturnsListing
      <4>2. Returns
        BY <3>2, <3>4, ReturnsListing
      <4>3. QED
        BY <1>7, <3>3, <4>1, <4>2
    <3>5. CASE GotoWith("listType", found \cup page, todo \ {NextItem})
      BY <1>6, <3>1, <3>3, <3>5
    <3>6. QED
      BY <1>8, <2>2, <3>3, <3>4, <3>5 DEF CloudflareRequest, Write, Results
  <2>3. QED
    BY <1>10, <2>1, <2>2 DEF CloudflareList
(* Adding the record.                                                      *)
<1>11. ASSUME CloudflarePost(call.rec), call.op \in {"create", "update"}
       PROVE  Request /\ RowInv' /\ IdInv'
  <2>. DEFINE R == Row(call.rec, NewId, "on")
  <2>1. CASE rows' = rows /\ (Return("conflict") \/ Return("typeConflict") \/ Return("error"))
    BY <1>8, <2>1 DEF Results
  <2>2. CASE ~Full /\ CloudflareRequest(Accept(call.rec, "on"), Return("ok"))
    <3>1. call.rec.type \in Capabilities.stores
      BY <1>1, <1>11, Caps, CallShape
    <3>2. /\ Accept(call.rec, "on") = rows \cup {R}
          /\ GoodRow(R) /\ KeyOf(R) = call.rec /\ R.tag = "on"
          /\ Unique(rows \cup {R}) /\ Cardinality(rows \cup {R}) <= MaxRows
      BY <1>1, <1>11, <2>2, <3>1, NumberedAccept DEF Inv
    <3>3. /\ rows' \in {rows, rows \cup {R}}
          /\ (rows' = rows \cup {R} /\ Return("ok")) \/ Return("error")
      BY <2>2, <3>2 DEF CloudflareRequest, Write
    <3>4. Scope
      BY <1>11, <3>2, <3>3, RowScope, RowComes
    <3>5. R \in rows' => Contract!Goal(call, past, ZoneOf(rows'))
      BY <1>1, <1>11, <3>2, GoalThere
    <3>6. Returns /\ Honest /\ found' = {}
      BY <1>5, <1>11, <3>3, <3>5, ReturnsOk DEF Results, Returns
    <3>7. RowInv'
      <4>1. Cardinality(rows') <= MaxRows
        BY <1>1, <3>2, <3>3 DEF Inv, RowInv
      <4>2. IsFiniteSet({R})
        BY FS_Singleton
      <4>3. QED
        BY <1>1, <3>2, <3>3, <3>6, <4>1, <4>2, RowsKept DEF Inv
    <3>8. IdInv'
      <4>1. Unique(rows')
        BY <1>1, <3>2, <3>3 DEF Inv, IdInv
      <4>2. QED
        BY <1>1, <4>1, NumberedIds
    <3>9. QED
      BY <1>2, <3>4, <3>6, <3>7, <3>8 DEF Request
  <2>3. QED
    BY <1>11, <2>1, <2>2 DEF CloudflarePost, Answer
(* The lookup before a deletion or an update.                              *)
<1>12. ASSUME NEW missing, NEW next \in {"deleteId", "patch", "srvDelete"}, CloudflareFind(missing, next),
              rows' = rows /\ CallRows = {} /\ Return(missing) => Returns /\ Honest
       PROVE  Request /\ RowInv' /\ IdInv'
  <2>1. rows' = rows
    BY <1>12 DEF CloudflareFind, CloudflareRequest, Write
  <2>2. CASE CallRows = {} /\ Return(missing)
    BY <1>7, <1>12, <2>1, <2>2
  <2>3. CASE Return("error")
    BY <1>8, <2>1, <2>3 DEF Results
  <2>4. ASSUME NEW r \in CallRows, GotoWith(next, {r}, {})
        PROVE  Request /\ RowInv' /\ IdInv'
    BY <1>6, <1>12, <2>1, <2>4 DEF CallRows, RowsOf
  <2>5. QED
    BY <1>12, <2>2, <2>3, <2>4 DEF CloudflareFind, CloudflareRequest, Write
(* The row that was looked up goes, and what takes its place comes.        *)
<1>13. ASSUME NEW r \in rows, NEW new, call.op \in {"delete", "update"}, SetFound, found = {r},
              rows' \in {rows, new},
              \/ new = rows \ {r}
              \/ new = (rows \ {r}) \cup {Row(call.rec, r.id, "on")} /\ call.op = "update",
              Proceeds \/ (Returns /\ Honest), found' \subseteq found
       PROVE  Request /\ RowInv' /\ IdInv'
  <2>. DEFINE R == Row(call.rec, r.id, "on")
  <2>1. r.id \in 0..MaxRows /\ call.rec.type \in Capabilities.stores
    BY <1>1, <1>13, Caps, CallShape DEF Inv, RowInv, GoodRow, RowSet
  <2>2. GoodRow(R) /\ KeyOf(R) = call.rec /\ R.id = r.id
    <3>1. R.id = r.id
      BY DEF Row
    <3>2. QED
      BY <1>1, <1>13, <2>1, <3>1, RecRow
  <2>3. Scope
    <3>1. MayGo(Stored(r))
      BY <1>4, <1>13, RowGoes DEF SetFound
    <3>2. call.op = "update" => MayCome(Stored(R))
      BY <2>2, RowComes
    <3>3. QED
      BY <1>13, <3>1, <3>2, RowScope
  <2>4. RowInv'
    <3>1. Cardinality(rows') <= MaxRows
      BY <1>1, <1>13, CardinalityKept DEF Inv, RowInv
    <3>2. IsFiniteSet({R})
      BY FS_Singleton
    <3>3. QED
      BY <1>1, <1>13, <2>2, <3>1, <3>2, RowsKept DEF Inv
  <2>5. IdInv'
    <3>1. Unique(rows)
      BY <1>1 DEF Inv, IdInv
    <3>2. Unique(rows')
      BY <1>13, <2>2, <3>1 DEF Unique
    <3>3. QED
      BY <1>1, <3>2, NumberedIds
  <2>6. QED
    BY <1>1, <1>2, <1>13, <2>3, <2>4, <2>5 DEF Request, Proceeds, Returns
<1>14. CASE CloudflareCreate
  <2>1. call.op = "create" /\ CloudflarePost(call.rec)
    BY <1>14 DEF CloudflareCreate, Inv, CallInv, Ops
  <2>2. QED
    BY <1>11, <2>1
<1>15. ASSUME pc \in {"deleteId", "patch", "srvDelete"}
       PROVE  SetFound /\ \E r \in RowSet : found = {r}
  BY <1>1, <1>15 DEF Inv, StepInv, CloudflareInv
<1>16. CASE CloudflareDelete
  <2>1. call.op = "delete"
    BY <1>1, <1>16 DEF CloudflareDelete, Inv, CallInv, Ops, StepInv, CloudflareInv
  <2>2. CASE CloudflareFind("ok", "deleteId")
    <3>1. ASSUME rows' = rows, CallRows = {}, Return("ok")
          PROVE  Returns /\ Honest
      <4>1. \A r \in rows' : ~(r.name = call.rec.name /\ r.type = call.rec.type)
        BY <3>1 DEF CallRows, RowsOf
      <4>2. QED
        BY <1>4, <2>1, <3>1, <4>1, GoalEmpty, ReturnsOk
    <3>2. QED
      BY <1>12, <2>2, <3>1
  <2>3. CASE pc = "deleteId" /\ CloudflareDeleteById(Return("ok"))
    <3>1. PICK r \in RowSet : found = {r}
      BY <1>15, <2>3
    <3>2. CASE r \in rows /\ CloudflareRequest(rows \ {r}, Return("ok"))
      <4>1. ASSUME rows' = rows \ {r}
            PROVE  Contract!Goal(call, past, ZoneOf(rows'))
        <5>1. Stored(r) \in past
          BY <1>1, <3>2, ZoneIs DEF Inv, HistoryInv, ZoneOf
        <5>2. Stored(r) \notin ZoneOf(rows \ {r})
          BY <1>1, <3>2, CopyGone DEF Inv
        <5>3. Stored(r).name = call.rec.name /\ Stored(r).type = call.rec.type
          BY <1>15, <2>3, <3>1, StoredFields DEF SetFound
        <5>4. QED
          BY <1>4, <2>1, <4>1, <5>1, <5>2, <5>3, GoalFewer
      <4>2. rows' \in {rows, rows \ {r}} /\ Returns /\ Honest /\ found' = {}
        BY <1>5, <2>1, <3>2, <4>1, ReturnsOk DEF CloudflareRequest, Write, Results, Returns
      <4>3. QED
        BY <1>13, <1>15, <2>1, <2>3, <3>1, <3>2, <4>2
    <3>3. CASE rows' = rows /\ Return("error")
      BY <1>8, <3>3 DEF Results
    <3>4. QED
      BY <2>3, <3>1, <3>2, <3>3 DEF CloudflareDeleteById, Answer
  <2>4. QED
    BY <1>16, <2>2, <2>3 DEF CloudflareDelete
<1>17. CASE CloudflareUpdate
  <2>1. call.op = "update"
    BY <1>1, <1>17 DEF CloudflareUpdate, Inv, CallInv, Ops, StepInv, CloudflareInv
  <2>2. CASE CloudflareFind("notFound", IF call.rec.type = "SRV" THEN "srvDelete" ELSE "patch")
    <3>1. Return("notFound") => Returns /\ Honest
      BY <1>5 DEF Results
    <3>2. QED
      BY <1>12, <2>2, <3>1
  <2>3. CASE pc = "patch" /\ CloudflarePatch
    <3>1. PICK r \in RowSet : found = {r}
      BY <1>15, <2>3
    <3>. DEFINE R == Row(call.rec, r.id, "on")
    <3>2. {Row(call.rec, q.id, "on") : q \in found} = {R}
      BY <3>1
    <3>3. CASE r \in rows /\ CloudflareRequest((rows \ {r}) \cup {R}, Return("ok"))
      <4>1. KeyOf(R) = call.rec /\ R.tag = "on"
        BY <1>1, <2>1, CallShape DEF KeyOf, Key, Row
      <4>2. R \in rows' => Contract!Goal(call, past, ZoneOf(rows'))
        BY <1>1, <2>1, <4>1, GoalThere
      <4>3. rows' \in {rows, (rows \ {r}) \cup {R}} /\ Returns /\ Honest /\ found' = {}
        BY <1>5, <2>1, <3>3, <4>2, ReturnsOk DEF CloudflareRequest, Write, Results, Returns
      <4>4. QED
        BY <1>13, <1>15, <2>1, <2>3, <3>1, <3>3, <4>3
    <3>4. CASE rows' = rows /\ Return("error")
      BY <1>8, <3>4 DEF Results
    <3>5. QED
      BY <2>3, <3>1, <3>2, <3>3, <3>4 DEF CloudflarePatch, Answer
  <2>4. CASE pc = "srvDelete" /\ CloudflareDeleteById(Goto("srvCreate"))
    <3>1. PICK r \in RowSet : found = {r}
      BY <1>15, <2>4
    <3>2. CASE r \in rows /\ CloudflareRequest(rows \ {r}, Goto("srvCreate"))
      <4>1. Goto("srvCreate") => Proceeds /\ found' = found
        BY GotoIs, GoesOn DEF Inv, Ops
      <4>2. rows' \in {rows, rows \ {r}} /\ (Proceeds \/ (Returns /\ Honest)) /\ found' \subseteq found
        BY <1>5, <3>2, <4>1 DEF CloudflareRequest, Write, Results
      <4>3. QED
        BY <1>13, <1>15, <2>1, <2>4, <3>1, <3>2, <4>2
    <3>3. CASE rows' = rows /\ Return("error")
      BY <1>8, <3>3 DEF Results
    <3>4. QED
      BY <2>4, <3>1, <3>2, <3>3 DEF CloudflareDeleteById, Answer
  <2>5. CASE CloudflarePost(call.rec)
    BY <1>11, <2>1, <2>5
  <2>6. QED
    BY <1>17, <2>2, <2>3, <2>4, <2>5 DEF CloudflareUpdate
<1>18. QED
  BY <1>9, <1>10, <1>14, <1>16, <1>17 DEF CloudflareNext

LEMMA CloudflareKeeps ==
  ASSUME Inv, CloudflareNext, Remember, call' = call
  PROVE  CloudflareInv'
<1>1. kind = "cloudflare" /\ kind' = kind /\ call # NoCall /\ HistoryInv /\ call \in Requested
  BY DEF CloudflareNext, Inv, CallInv
<1>2. rows \subseteq RowSet
  BY DEF Inv, RowInv, GoodRow
(* Who goes where.                                                         *)
<1>3. /\ pc' = "listType" => CloudflareList
      /\ pc' = "deleteId" => call.op = "delete"
      /\ pc' \in {"patch", "srvDelete", "srvCreate"} => call.op = "update"
      /\ pc' \in {"deleteId", "patch", "srvDelete"} => \E r \in CallRows : found' = {r}
  <2>1. CASE CloudflareZoneID
    BY <1>1, <2>1, CallShape DEF CloudflareZoneID, Answer, Return, ReturnWith, Goto, GotoWith, Ops
  <2>2. CASE CloudflareList
    BY <1>1, <2>2 DEF CloudflareList, CloudflareRequest, Write, Answer, Return, ReturnWith, GotoWith
  <2>3. CASE CloudflareCreate
    BY <1>1, <2>3 DEF CloudflareCreate, CloudflarePost, CloudflareRequest, Write, Answer, Return, ReturnWith
  <2>4. CASE CloudflareDelete
    BY <1>1, <2>4 DEF CloudflareDelete, CloudflareFind, CloudflareDeleteById, CloudflareRequest, Write, Answer,
       Return, ReturnWith, GotoWith, Inv, CallInv, Ops
  <2>5. CASE CloudflareUpdate
    <3>1. call.op = "update"
      BY <1>1, <2>5 DEF CloudflareUpdate, Inv, CallInv, Ops, StepInv, CloudflareInv
    <3>2. CASE CloudflareFind("notFound", IF call.rec.type = "SRV" THEN "srvDelete" ELSE "patch")
      BY <1>1, <3>1, <3>2 DEF CloudflareFind, CloudflareRequest, Write, Return, ReturnWith, GotoWith
    <3>3. CASE CloudflarePatch
      BY <1>1, <3>1, <3>3 DEF CloudflarePatch, CloudflareRequest, Write, Answer, Return, ReturnWith
    <3>4. CASE CloudflareDeleteById(Goto("srvCreate"))
      BY <1>1, <3>1, <3>4 DEF CloudflareDeleteById, CloudflareRequest, Write, Answer, Return, ReturnWith,
         Goto, GotoWith
    <3>5. CASE CloudflarePost(call.rec)
      BY <1>1, <3>1, <3>5 DEF CloudflarePost, CloudflareRequest, Write, Answer, Return, ReturnWith
    <3>6. QED
      BY <2>5, <3>2, <3>3, <3>4, <3>5 DEF CloudflareUpdate
  <2>6. QED
    BY <2>1, <2>2, <2>3, <2>4, <2>5 DEF CloudflareNext
<1>4. ASSUME pc' = "listType"
      PROVE  /\ call.op = "list" /\ \A y \in todo' : y.id = 0
             /\ PageSize >= MaxRows => ListedSoFar'
  <2>1. CASE pc = "list" /\ Answer(GotoWith("listType", {}, AllTypes))
    <3>1. rows' = rows /\ found' = {} /\ todo' = AllTypes /\ call.op = "list"
      BY <2>1 DEF Answer, GotoWith, Inv, CallInv, Ops
    <3>2. QED
      BY <1>1, <3>1, ListingStarts, ListingGrows DEF AllTypes, Item
  <2>2. CASE pc = "listType"
    <3>1. /\ call.op = "list" /\ \A y \in todo : y.id = 0
          /\ PageSize >= MaxRows => ListedSoFar
      BY <1>1, <2>2 DEF Inv, StepInv, CloudflareInv
    <3>2. PICK page \in FirstPage(NextItem.type) :
            rows' = rows /\ found' = found \cup page /\ todo' = todo \ {NextItem}
      BY <1>1, <1>3, <1>4, <2>2
         DEF CloudflareList, CloudflareRequest, Write, Answer, Return, ReturnWith, GotoWith
    <3>3. ASSUME PageSize >= MaxRows
          PROVE  ListedSoFar'
      <4>1. page = {r \in rows : r.type = NextItem.type}
        BY <1>1, <3>3, FirstPageIsAll DEF Inv
      <4>2. kept \subseteq ZoneOf(rows) /\ ZoneOf(rows) \subseteq past
        BY <1>1, ZoneIs DEF HistoryInv
      <4>3. ZoneOf(found') \subseteq past
        BY <3>1, <3>2, <3>3, <4>1, <4>2 DEF ZoneOf, ListedSoFar
      <4>4. ASSUME NEW x \in kept
            PROVE  \/ x \in ZoneOf(found')
                   \/ Item(x.type, 0) \in todo' \/ Item(x.type, x.copy) \in todo'
        <5>1. PICK r \in rows : x = Stored(r)
          BY <4>2, <4>4 DEF ZoneOf
        <5>2. x.type = r.type
          BY <5>1, StoredFields
        <5>3. CASE r.type = NextItem.type
          BY <3>2, <4>1, <5>1, <5>3 DEF ZoneOf
        <5>4. CASE r.type # NextItem.type
          <6>1. Item(x.type, 0) # NextItem /\ Item(x.type, x.copy) # NextItem
            BY <5>2, <5>4 DEF Item
          <6>2. QED
            BY <3>1, <3>2, <3>3, <4>4, <6>1 DEF ZoneOf, ListedSoFar
        <5>5. QED
          BY <5>3, <5>4
      <4>5. QED
        BY <1>1, <3>2, <4>3, <4>4, ListingGrows
    <3>4. QED
      BY <3>1, <3>2, <3>3
  <2>3. QED
    BY <1>3, <1>4, <2>1, <2>2 DEF CloudflareList
<1>5. pc' \in {"deleteId", "patch", "srvDelete"} => SetFound' /\ \E r \in RowSet : found' = {r}
  BY <1>2, <1>3 DEF SetFound, CallRows, RowsOf
<1>6. QED
  BY <1>1, <1>3, <1>4, <1>5 DEF CloudflareInv

-----------------------------------------------------------------------------
(* Positions of host overrides. There are two names, so two positions.     *)
NewPosition(s, r) == IF r.id = 2 /\ \E y \in s : y.id = 1 THEN 2 ELSE 1
Moved(s, r) == [r EXCEPT !.id = NewPosition(s, r)]

LEMMA RankIs ==
  ASSUME Positions(rows), NEW s \in SUBSET rows, NEW r \in s
  PROVE  Cardinality({x.id : x \in {y \in s : y.id < r.id}}) + 1 = NewPosition(s, r)
<1>. DEFINE below == {x.id : x \in {y \in s : y.id < r.id}}
<1>1. \A y \in s : y.id \in {1, 2}
  BY DEF Positions
<1>2. CASE r.id = 2 /\ \E y \in s : y.id = 1
  <2>1. below = {1}
    BY <1>1, <1>2
  <2>2. Cardinality(below) = 1
    BY <2>1, FS_Singleton
  <2>3. QED
    BY <1>2, <2>2 DEF NewPosition
<1>3. CASE ~(r.id = 2 /\ \E y \in s : y.id = 1)
  <2>1. below = {}
    BY <1>1, <1>3
  <2>2. Cardinality(below) = 0
    BY <2>1, FS_EmptySet
  <2>3. QED
    BY <1>3, <2>2 DEF NewPosition
<1>4. QED
  BY <1>2, <1>3

LEMMA RenumberedIs ==
  ASSUME Positional, Positions(rows), NEW s \in SUBSET rows
  PROVE  Renumbered(s) = {Moved(s, r) : r \in s}
<1>1. \A r \in s : [r EXCEPT !.id = Cardinality({x.id : x \in {y \in s : y.id < r.id}}) + 1] = Moved(s, r)
  BY RankIs DEF Moved
<1>2. QED
  BY <1>1 DEF Renumbered

LEMMA MovedFields ==
  ASSUME RowInv, Positional, Positions(rows), NEW s \in SUBSET rows, NEW r \in s
  PROVE  /\ Moved(s, r).name = r.name /\ Moved(s, r).type = r.type /\ Moved(s, r).val = r.val
         /\ Moved(s, r).tag = r.tag /\ Moved(s, r).id = NewPosition(s, r)
         /\ KeyOf(Moved(s, r)) = KeyOf(r) /\ Stored(Moved(s, r)) = Stored(r)
         /\ GoodRow(Moved(s, r))
<1>1. r \in RowSet /\ GoodRow(r) /\ r.id \in {1, 2}
  BY DEF RowInv, GoodRow, Positions
<1>2. NewPosition(s, r) \in 0..MaxRows
  <2>1. r.id \in 0..MaxRows
    BY <1>1 DEF RowSet
  <2>2. QED
    BY <1>1, <2>1, BoundsAssumption DEF NewPosition
<1>3. /\ Moved(s, r).name = r.name /\ Moved(s, r).type = r.type /\ Moved(s, r).val = r.val
      /\ Moved(s, r).tag = r.tag /\ Moved(s, r).id = NewPosition(s, r) /\ Moved(s, r) \in RowSet
  BY <1>1, <1>2 DEF Moved, RowSet
<1>4. ~Numbered
  BY DEF Numbered, Positional
<1>5. Stored(Moved(s, r)) = Stored(r) /\ KeyOf(Moved(s, r)) = KeyOf(r)
  BY <1>3, <1>4 DEF Stored, KeyOf, Key
<1>6. GoodRow(Moved(s, r))
  BY <1>1, <1>3 DEF GoodRow
<1>7. QED
  BY <1>3, <1>5, <1>6

(* Closing the gap keeps the records and the owners.                       *)
LEMMA RenumberedKeeps ==
  ASSUME RowInv, Positional, Positions(rows), NEW s \in SUBSET rows
  PROVE  /\ ZoneOf(Renumbered(s)) = ZoneOf(s)
         /\ Positions(Renumbered(s))
         /\ IsFiniteSet(Renumbered(s)) /\ \A x \in Renumbered(s) : GoodRow(x)
         /\ \A r \in s : \E x \in Renumbered(s) : KeyOf(x) = KeyOf(r) /\ x.tag = r.tag
         /\ (\A r, q \in s : r.name = q.name => r = q) =>
              (\A x, y \in Renumbered(s) : x.name = y.name => x = y)
<1>1. Renumbered(s) = {Moved(s, r) : r \in s}
  BY RenumberedIs
<1>2. ZoneOf(Renumbered(s)) = ZoneOf(s)
  BY <1>1, MovedFields DEF ZoneOf
<1>3. \A x \in Renumbered(s) : GoodRow(x)
  BY <1>1, MovedFields
<1>4. IsFiniteSet(Renumbered(s))
  <2>. DEFINE f == [r \in s |-> Moved(s, r)]
  <2>1. f \in Surjection(s, {Moved(s, r) : r \in s})
    BY DEF Surjection
  <2>2. IsFiniteSet(s)
    BY FS_Subset DEF RowInv
  <2>3. QED
    BY <1>1, <2>1, <2>2, FS_Surjection
<1>5. Positions(Renumbered(s))
  <2>1. \A r \in s : r.id \in {1, 2}
    BY DEF Positions
  <2>2. ASSUME NEW r \in s, NEW q \in s
        PROVE  (NewPosition(s, r) = NewPosition(s, q)) <=> (r.name = q.name)
    BY <2>1, <2>2 DEF NewPosition, Positions
  <2>3. \A r \in s : NewPosition(s, r) \in {1, 2}
    BY DEF NewPosition
  <2>4. s # {} => \E r \in s : NewPosition(s, r) = 1
    BY <2>1 DEF NewPosition
  <2>5. \A x, y \in Renumbered(s) : (x.id = y.id) <=> (x.name = y.name)
    BY <1>1, <2>2, MovedFields
  <2>6. \A x \in Renumbered(s) : x.id \in {1, 2}
    BY <1>1, <2>3, MovedFields
  <2>7. Renumbered(s) # {} => \E x \in Renumbered(s) : x.id = 1
    BY <1>1, <2>4, MovedFields
  <2>8. QED
    BY <2>5, <2>6, <2>7 DEF Positions
<1>6. \A r \in s : \E x \in Renumbered(s) : KeyOf(x) = KeyOf(r) /\ x.tag = r.tag
  BY <1>1, MovedFields
<1>7. (\A r, q \in s : r.name = q.name => r = q) =>
        (\A x, y \in Renumbered(s) : x.name = y.name => x = y)
  BY <1>1, MovedFields
<1>8. QED
  BY <1>2, <1>3, <1>4, <1>5, <1>6, <1>7

(* The position of an override that exists, and of a new one.              *)
LEMMA OwnPosition ==
  ASSUME Positions(rows), NEW r \in rows
  PROVE  PositionOf(r.name) = r.id
<1>. DEFINE own == {x.id : x \in {y \in rows : y.name = r.name}}
<1>1. own = {r.id}
  BY DEF Positions
<1>2. QED
  BY <1>1 DEF PositionOf

LEMMA NextPosition ==
  ASSUME RowInv, Positions(rows), ~Full, NEW n \in {Target, Other}, \A r \in rows : r.name # n
  PROVE  /\ PositionOf(n) \in 0..MaxRows
         /\ PositionOf(n) = IF rows = {} THEN 1 ELSE 2
         /\ \A r \in rows : r.id = 1
<1>1. {r.id : r \in {x \in rows : x.name = n}} = {}
  OBVIOUS
<1>2. PositionOf(n) = Cardinality({r.name : r \in rows}) + 1
  BY <1>1 DEF PositionOf
<1>3. IsFiniteSet(rows) /\ Cardinality(rows) \in Nat /\ Cardinality(rows) < MaxRows
  BY FS_CardinalityType, BoundsAssumption DEF RowInv, Full
<1>4. CASE rows = {}
  <2>1. {r.name : r \in rows} = {}
    BY <1>4
  <2>2. Cardinality({r.name : r \in rows}) = 0
    BY <2>1, FS_EmptySet
  <2>3. QED
    BY <1>2, <1>3, <1>4, <2>2, BoundsAssumption
<1>5. CASE rows # {}
  <2>1. \A r \in rows : r.name \in {Target, Other}
    BY DEF RowInv, GoodRow, RowSet
  <2>2. \A r, q \in rows : r.name = q.name
    BY <2>1
  <2>3. PICK m : {r.name : r \in rows} = {m}
    BY <1>5, <2>2
  <2>4. Cardinality({r.name : r \in rows}) = 1
    BY <2>3, FS_Singleton
  <2>5. Cardinality(rows) # 0
    BY <1>3, <1>5, FS_EmptySet
  <2>6. \A r \in rows : r.id = 1
    BY <1>5, <2>2 DEF Positions
  <2>7. QED
    BY <1>2, <1>3, <1>5, <2>4, <2>5, <2>6, BoundsAssumption
<1>6. QED
  BY <1>4, <1>5

LEMMA PositionsPlus ==
  ASSUME RowInv, Positions(rows), ~Full, NEW x, x.name \in {Target, Other}, x.id = PositionOf(x.name)
  PROVE  PositionOf(x.name) \in 0..MaxRows /\ Positions(rows \cup {x})
<1>1. CASE \E r \in rows : r.name = x.name
  <2>1. PICK r \in rows : r.name = x.name
    BY <1>1
  <2>2. x.id = r.id
    BY <2>1, OwnPosition
  <2>3. r.id \in 0..MaxRows
    BY DEF RowInv, GoodRow, RowSet
  <2>4. Positions(rows \cup {x})
    BY <2>1, <2>2 DEF Positions
  <2>5. QED
    BY <2>2, <2>3, <2>4
<1>2. CASE \A r \in rows : r.name # x.name
  <2>1. /\ PositionOf(x.name) \in 0..MaxRows
        /\ PositionOf(x.name) = IF rows = {} THEN 1 ELSE 2
        /\ \A r \in rows : r.id = 1
    BY <1>2, NextPosition
  <2>2. Positions(rows \cup {x})
    BY <1>2, <2>1 DEF Positions
  <2>3. QED
    BY <2>1, <2>2
<1>3. QED
  BY <1>1, <1>2

LEMMA PositionalIds ==
  ASSUME kind' = kind, Positional, Positions(rows'),
         kind = "pfsenseForwarder" => \A r, q \in rows' : r.name = q.name => r = q
  PROVE  IdInv'
  BY ZonePrime DEF IdInv, Numbered, Positional, Positions

-----------------------------------------------------------------------------
(* pfSense.                                                                *)

(* Where the first request of a create and of a delete leads.              *)
LEMMA PfSenseCreateReads ==
  ASSUME pc = "create", PfSenseCreate
  PROVE  /\ rows' = rows
         /\ \/ Return("error") \/ Goto("post")
            \/ IsOwnedBy(FindOverride) /\ ContainsIP(FindOverride, call.rec.val) /\ Return("ok")
            \/ /\ kind = "pfsense" /\ FindOverride # {} /\ IsOwnedBy(FindOverride)
               /\ GotoWith("patch", {[r EXCEPT !.tag = "me"] : r \in FindOverride}
                                      \cup {Row(call.rec, PositionOf(Target), "me")}, {})
  BY DEF PfSenseCreate, PfSenseRows, PfSenseRequest, Write, MultiIP

LEMMA PfSenseDeleteReads ==
  ASSUME pc = "delete", PfSenseDelete
  PROVE  /\ rows' = rows
         /\ \/ Return("error") \/ Return("notFound")
            \/ /\ kind = "pfsense" /\ FindOverride # {} /\ OwnedByInstance(FindOverride)
               /\ WithoutIP(FindOverride, call.rec.val) # {}
               /\ GotoWith("patch", WithoutIP(FindOverride, call.rec.val), {})
            \/ /\ FindOverride # {} /\ OwnedByInstance(FindOverride)
               /\ ContainsIP(FindOverride, call.rec.val)
               /\ kind # "pfsense" \/ WithoutIP(FindOverride, call.rec.val) = {}
               /\ GotoWith("remove", FindOverride, {})
  BY DEF PfSenseDelete, PfSenseRows, PfSenseRequest, Write, MultiIP

LEMMA PfSenseStep ==
  ASSUME Inv, PfSenseNext
  PROVE  /\ Request /\ RowInv' /\ IdInv'
         /\ pc' = "apply" => Contract!Goal(call, past, ZoneOf(rows'))
         /\ ForeignRows \subseteq ForeignRows'
<1>. DEFINE Done == /\ Request /\ RowInv' /\ IdInv'
                    /\ pc' = "apply" => Contract!Goal(call, past, ZoneOf(rows'))
                    /\ ForeignRows \subseteq ForeignRows'
<1>1. /\ kind \in {"pfsense", "pfsenseForwarder"} /\ kind' = kind /\ call # NoCall /\ call \in Requested
      /\ UNCHANGED <<once, session>> /\ Positional /\ ~Numbered
  BY DEF PfSenseNext, Inv, CallInv, client, Positional, Numbered
<1>2. once' \in {"unknown", "known", "failed"} /\ session' \in BOOLEAN
  BY <1>1 DEF Inv, CallInv
<1>3. Precise /\ Exact /\ Wide
  BY <1>1 DEF Precise, Exact, Wide
<1>4. Positions(rows) /\ (kind = "pfsenseForwarder" => \A r, q \in rows : r.name = q.name => r = q)
  BY <1>1 DEF Inv, IdInv
<1>5. \A r \in rows : GoodRow(r) /\ r \in RowSet
  BY DEF Inv, RowInv, GoodRow
<1>6. call.op # "list" => call.rec.name = Target /\ call.rec.type \in Capabilities.stores
  BY <1>1, Caps, CallShape
(* A request that only reads.                                              *)
<1>7. ASSUME rows' = rows, RowInv', pc' # "apply", Proceeds \/ Returns,
             SoundConfig => (Returns => Honest)
      PROVE  Done
  <2>1. IdInv' /\ Scope /\ ForeignRows' = ForeignRows
    BY <1>1, <1>7, IdsSame, NoChange DEF Inv, ForeignRows
  <2>2. QED
    BY <1>2, <1>7, <2>1 DEF Request
<1>8. ASSUME rows' = rows, NEW res \in Results \ {"ok"}, Return(res)
      PROVE  Done
  <2>1. Returns /\ Honest /\ found' = {} /\ pc' # "apply"
    BY <1>8, ReturnsError DEF Returns
  <2>2. RowInv'
    BY <1>1, <1>8, <2>1, RowsSame DEF Inv
  <2>3. QED
    BY <1>7, <1>8, <2>1, <2>2
(* A request that writes and leads to the apply.                           *)
<1>9. ASSUME NEW new, PfSenseRequest(new, Goto("apply")), call.op # "list",
             IsFiniteSet(new), \A r \in new : GoodRow(r),
             Positions(new), kind = "pfsenseForwarder" => \A r, q \in new : r.name = q.name => r = q,
             rows' = new => Scope /\ Contract!Goal(call, past, ZoneOf(rows')),
             \A r \in rows : r.tag = "foreign" => \E q \in new : KeyOf(q) = KeyOf(r) /\ q.tag = "foreign"
      PROVE  Done
  <2>1. CASE rows' = rows /\ Return("error")
    BY <1>8, <2>1 DEF Results
  <2>2. CASE rows' = new
    <3>1. \/ Returns /\ Honest /\ found' = {} /\ pc' = "idle"
          \/ Proceeds /\ found' = found /\ pc' = "apply"
      <4>1. CASE Return("error")
        BY <4>1, ReturnsError DEF Results, Returns
      <4>2. CASE Goto("apply")
        BY <4>2, GotoIs, GoesOn DEF Inv, Ops
      <4>3. QED
        BY <1>9, <4>1, <4>2 DEF PfSenseRequest, Write
    <3>2. RowInv'
      BY <1>1, <1>9, <2>2, <3>1, RowsKept DEF Inv
    <3>3. IdInv'
      BY <1>1, <1>9, <2>2, PositionalIds
    <3>4. ForeignRows \subseteq ForeignRows'
      BY <1>9, <2>2 DEF ForeignRows
    <3>5. QED
      BY <1>1, <1>2, <1>9, <2>2, <3>1, <3>2, <3>3, <3>4 DEF Request, Proceeds, Returns
  <2>3. QED
    BY <1>9, <2>1, <2>2 DEF PfSenseRequest, Write
<1>10. CASE PfSenseList
  <2>1. /\ call.op = "list" /\ rows' = rows
        /\ ReturnWith("ok", Listing(rows)) \/ Return("error")
    BY <1>10 DEF PfSenseList, PfSenseRows, PfSenseRequest, Write, Inv, CallInv, Ops
  <2>2. CASE ReturnWith("ok", Listing(rows))
    <3>1. Returns /\ Honest /\ found' = {} /\ pc' # "apply"
      BY <1>1, <2>1, <2>2, ReturnsZone DEF Inv, Returns
    <3>2. RowInv'
      BY <1>1, <2>1, <3>1, RowsSame DEF Inv
    <3>3. QED
      BY <1>7, <2>1, <3>1, <3>2
  <2>3. QED
    BY <1>8, <2>1, <2>2 DEF Results
<1>11. CASE pc = "create" /\ PfSenseCreate
  <2>. DEFINE f == {[r EXCEPT !.tag = "me"] : r \in FindOverride} \cup {Row(call.rec, PositionOf(Target), "me")}
  <2>1. call.op = "create" /\ rows' = rows
    BY <1>11 DEF PfSenseCreate, PfSenseRows, PfSenseRequest, Write, Inv, CallInv, Ops
  <2>2. \/ Return("error") \/ Goto("post")
        \/ IsOwnedBy(FindOverride) /\ ContainsIP(FindOverride, call.rec.val) /\ Return("ok")
        \/ FindOverride # {} /\ GotoWith("patch", f, {})
    BY <1>11, PfSenseCreateReads
  <2>3. CASE Goto("post")
    <3>1. Proceeds /\ found' = found /\ pc' # "apply"
      BY <2>3, GotoIs, GoesOn DEF Inv, Ops
    <3>2. RowInv'
      BY <1>1, <2>1, <3>1, RowsSame DEF Inv
    <3>3. QED
      BY <1>1, <1>7, <2>1, <3>1, <3>2 DEF Proceeds, Returns
  <2>4. CASE IsOwnedBy(FindOverride) /\ ContainsIP(FindOverride, call.rec.val) /\ Return("ok")
    <3>1. PICK r \in rows : r.name = call.rec.name /\ r.val = call.rec.val /\ r.tag \in {"me", "peer"}
      BY <2>4 DEF IsOwnedBy, ContainsIP, FindOverride
    <3>2. ASSUME SoundConfig
          PROVE  Honest
      <4>1. r.type \in Types \cap {"A", "AAAA"} /\ call.rec.type \in Types \cap {"A", "AAAA"}
        BY <1>1, <1>5, <2>1, Caps, CallShape DEF GoodRow
      <4>2. r.type = call.rec.type
        BY <3>2, <4>1 DEF SoundConfig
      <4>3. KeyOf(r) = call.rec
        BY <1>1, <2>1, <3>1, <4>2, CallShape DEF KeyOf, Key
      <4>4. QED
        BY <1>1, <2>1, <2>4, <3>1, <4>3, GoalThere, ReturnsOk
    <3>3. Returns /\ found' = {} /\ pc' # "apply"
      BY <2>4, ReturnsOk DEF Returns
    <3>4. RowInv'
      BY <1>1, <2>1, <3>3, RowsSame DEF Inv
    <3>5. QED
      BY <1>7, <2>1, <3>2, <3>3, <3>4
  <2>5. CASE FindOverride # {} /\ GotoWith("patch", f, {})
    <3>1. Proceeds
      BY <2>5, GoesOn DEF Inv, Ops
    <3>2. found' = f /\ pc' # "apply"
      BY <2>5 DEF GotoWith
    <3>3. PICK q \in rows : q.name = Target
      BY <1>6, <2>1, <2>5 DEF FindOverride
    <3>4. PositionOf(Target) = q.id /\ q.id \in 0..MaxRows
      BY <1>4, <1>5, <3>3, OwnPosition DEF RowSet
    <3>5. GoodRow(Row(call.rec, PositionOf(Target), "me"))
      BY <1>1, <1>6, <2>1, <3>4, RecRow
    <3>6. \A r \in FindOverride : GoodRow([r EXCEPT !.tag = "me"])
      BY <1>1, <1>5 DEF FindOverride, GoodRow, RowSet
    <3>7. IsFiniteSet({[r EXCEPT !.tag = "me"] : r \in FindOverride})
      <4>. DEFINE g == [r \in FindOverride |-> [r EXCEPT !.tag = "me"]]
      <4>1. g \in Surjection(FindOverride, {[r EXCEPT !.tag = "me"] : r \in FindOverride})
        BY DEF Surjection
      <4>2. IsFiniteSet(FindOverride)
        BY FS_Subset DEF Inv, RowInv, FindOverride
      <4>3. QED
        BY <4>1, <4>2, FS_Surjection
    <3>8. IsFiniteSet(f) /\ \A r \in f : GoodRow(r)
      BY <3>5, <3>6, <3>7, FS_AddElement
    <3>9. RowInv'
      BY <1>1, <2>1, <3>2, <3>8, RowsKept DEF Inv
    <3>10. QED
      BY <1>1, <1>7, <2>1, <3>1, <3>2, <3>9 DEF Proceeds, Returns
  <2>6. QED
    BY <1>8, <2>1, <2>2, <2>3, <2>4, <2>5 DEF Results
<1>12. CASE pc = "post" /\ PfSensePost
  <2>. DEFINE R == Row(call.rec, PositionOf(Target), "me")
  <2>1. call.op = "create"
    BY <1>1, <1>12 DEF Inv, StepInv, PfSenseInv
  <2>2. CASE rows' = rows /\ Return("error")
    BY <1>8, <2>2 DEF Results
  <2>3. CASE ~Full /\ FindOverride = {} /\ PfSenseRequest(Accept(call.rec, "me"), Goto("apply"))
    <3>1. call.rec.name = Target /\ \A r \in rows : r.name # Target
      BY <1>6, <2>1, <2>3 DEF FindOverride
    <3>2. Accept(call.rec, "me") = rows \cup {R} /\ R.name = Target /\ R.id = PositionOf(Target) /\ R.tag = "me"
      BY <1>1, <3>1 DEF Accept, IdFor, Row
    <3>3. PositionOf(Target) \in 0..MaxRows /\ Positions(rows \cup {R})
      BY <1>4, <2>3, <3>2, PositionsPlus DEF Inv
    <3>4. GoodRow(R) /\ KeyOf(R) = call.rec
      BY <1>1, <1>6, <2>1, <3>3, RecRow
    <3>5. rows' = rows \cup {R} => Scope /\ Contract!Goal(call, past, ZoneOf(rows'))
      BY <1>1, <2>1, <3>2, <3>4, RowScope, RowComes, GoalThere
    <3>6. IsFiniteSet(rows \cup {R})
      BY FS_AddElement DEF Inv, RowInv
    <3>7. kind = "pfsenseForwarder" => \A r, q \in rows \cup {R} : r.name = q.name => r = q
      BY <1>4, <3>1, <3>2
    <3>8. QED
      BY <1>5, <1>9, <2>1, <2>3, <3>2, <3>3, <3>4, <3>5, <3>6, <3>7
  <2>4. QED
    BY <1>12, <2>2, <2>3 DEF PfSensePost, Answer
(* The override of the name is the one at the position that was read.      *)
<1>13. ASSUME NEW q \in rows, q.name = Target, call.rec.name = Target, found # {},
              \A x \in found : x.name = Target /\ x.id = q.id
       PROVE  At(found) = FindOverride /\ Positions((rows \ FindOverride) \cup found)
  <2>1. At(found) = FindOverride
    BY <1>4, <1>13 DEF At, FindOverride, Positions
  <2>2. \A r \in rows \ FindOverride : r.name # Target /\ r.id # q.id
    BY <1>4, <1>13 DEF FindOverride, Positions
  <2>3. Positions((rows \ FindOverride) \cup found)
    <3>1. \A r, x \in (rows \ FindOverride) \cup found : (r.id = x.id) <=> (r.name = x.name)
      BY <1>4, <1>13, <2>2 DEF Positions
    <3>2. \A r \in (rows \ FindOverride) \cup found : r.id \in {1, 2}
      BY <1>4, <1>13 DEF Positions
    <3>3. \E r \in (rows \ FindOverride) \cup found : r.id = 1
      <4>1. PICK o \in rows : o.id = 1
        BY <1>4 DEF Positions
      <4>2. CASE o \in FindOverride
        BY <1>4, <1>13, <4>1, <4>2 DEF FindOverride, Positions
      <4>3. QED
        BY <4>1, <4>2
    <3>4. QED
      BY <3>1, <3>2, <3>3 DEF Positions
  <2>4. QED
    BY <2>1, <2>3
<1>14. CASE pc = "patch" /\ PfSensePatch
  <2>. DEFINE new == (rows \ FindOverride) \cup found
  <2>1. /\ kind = "pfsense" /\ call.op \in {"create", "delete"}
        /\ FindOverride # {} /\ IsOwnedBy(FindOverride)
    BY <1>1, <1>14 DEF Inv, StepInv, PfSenseInv
  <2>2. PICK q \in rows : q.name = Target /\ q \in FindOverride
    BY <1>6, <2>1 DEF FindOverride
  <2>3. call.rec.name = Target /\ PositionOf(Target) = q.id
    BY <1>4, <1>6, <2>1, <2>2, OwnPosition
  <2>4. \A r \in FindOverride : r \in rows /\ r.name = Target /\ r.id = q.id /\ r.tag \in {"me", "peer"}
    BY <1>4, <2>1, <2>2, <2>3 DEF FindOverride, Positions, IsOwnedBy
  <2>5. ASSUME Positions(new), IsFiniteSet(new), PfSenseRequest(new, Goto("apply")),
               rows' = new => Scope /\ Contract!Goal(call, past, ZoneOf(rows'))
        PROVE  Done
    <3>1. \A r \in new : GoodRow(r)
      BY DEF Inv, RowInv
    <3>2. \A r \in rows : r.tag = "foreign" => r \in new
      BY <2>4
    <3>3. QED
      BY <1>9, <2>1, <2>5, <3>1, <3>2
  <2>6. IsFiniteSet(new)
    BY FS_Union, FS_Difference DEF Inv, RowInv
  <2>7. CASE call.op = "create"
    <3>. DEFINE R == Row(call.rec, PositionOf(Target), "me")
    <3>1. found = {[r EXCEPT !.tag = "me"] : r \in FindOverride} \cup {R}
      BY <1>1, <1>14, <2>7 DEF Inv, StepInv, PfSenseInv
    <3>2. R.name = Target /\ R.id = q.id /\ R.tag = "me" /\ KeyOf(R) = call.rec
      BY <1>1, <2>3, <2>7, CallShape DEF Row, KeyOf, Key
    <3>3. ASSUME NEW r \in FindOverride
          PROVE  LET m == [r EXCEPT !.tag = "me"]
                 IN  m.name = Target /\ m.id = q.id /\ Stored(m) = Stored(r) /\ m.type = r.type
      <4>1. r \in RowSet
        BY <1>5, <2>4, <3>3
      <4>2. QED
        BY <2>4, <3>3, <4>1 DEF Stored, RowSet
    <3>4. found # {} /\ \A x \in found : x.name = Target /\ x.id = q.id
      BY <3>1, <3>2, <3>3
    <3>5. At(found) = FindOverride /\ Positions(new)
      BY <1>13, <2>2, <2>3, <3>4
    <3>6. At(found) # {} /\ PfSenseRequest(new, Goto("apply"))
      BY <1>14, <2>1, <3>5 DEF PfSensePatch
    <3>7. ASSUME rows' = new
          PROVE  Scope /\ Contract!Goal(call, past, ZoneOf(rows'))
      <4>1. R \in rows' /\ \A r \in FindOverride : [r EXCEPT !.tag = "me"] \in rows'
        BY <3>1, <3>7
      <4>2. \A r \in rows \ rows' : Stored(r) \in ZoneOf(rows')
        BY <3>3, <3>7, <4>1 DEF ZoneOf
      <4>3. ZoneOf(rows) \subseteq past
        BY <1>1, ZoneIs DEF Inv, HistoryInv
      <4>4. ASSUME NEW r \in FindOverride
            PROVE  MayCome(Stored([r EXCEPT !.tag = "me"]))
        <5>. DEFINE m == [r EXCEPT !.tag = "me"]
        <5>1. m.name = call.rec.name /\ Stored(m) \in past
          BY <2>3, <2>4, <3>3, <4>3, <4>4 DEF ZoneOf
        <5>2. QED
          BY <1>3, <5>1, RowBack
      <4>5. MayCome(Stored(R))
        BY <2>7, <3>2, RowComes
      <4>6. Scope
        BY <2>7, <3>1, <3>7, <4>2, <4>4, <4>5, RowScope
      <4>7. QED
        BY <1>1, <2>7, <3>2, <4>1, <4>6, GoalThere
    <3>8. QED
      BY <2>5, <2>6, <3>5, <3>6, <3>7
  <2>8. CASE call.op = "delete"
    <3>1. found = WithoutIP(FindOverride, call.rec.val) /\ found # {}
      BY <1>1, <1>14, <2>8 DEF Inv, StepInv, PfSenseInv
    <3>2. \A x \in found : x.name = Target /\ x.id = q.id
      BY <2>4, <3>1 DEF WithoutIP
    <3>3. At(found) = FindOverride /\ Positions(new)
      BY <1>13, <2>2, <2>3, <3>1, <3>2
    <3>4. PfSenseRequest(new, Goto("apply"))
      BY <1>14, <2>1, <3>3 DEF PfSensePatch
    <3>5. ASSUME rows' = new
          PROVE  Scope /\ Contract!Goal(call, past, ZoneOf(rows'))
      <4>1. rows' \subseteq rows
        BY <3>1, <3>5 DEF WithoutIP, FindOverride
      <4>2. \A r \in rows \ rows' : r.name = call.rec.name /\ r.val = call.rec.val
        BY <3>1, <3>5 DEF WithoutIP, FindOverride
      <4>3. \A r \in rows' : ~(r.name = call.rec.name /\ r.val = call.rec.val)
        BY <3>1, <3>5 DEF WithoutIP, FindOverride
      <4>4. \A r \in rows' : KeyOf(r) # call.rec
        BY <4>3 DEF KeyOf, Key
      <4>5. \A r \in rows \ rows' : MayGo(Stored(r))
        BY <1>3, <4>2, RowGoes
      <4>6. QED
        BY <1>1, <1>3, <2>8, <4>1, <4>4, <4>5, RowScope, GoalGone
    <3>6. QED
      BY <2>5, <2>6, <3>3, <3>4, <3>5
  <2>9. QED
    BY <2>1, <2>7, <2>8
<1>15. CASE pc = "delete" /\ PfSenseDelete
  <2>1. call.op = "delete" /\ rows' = rows
    BY <1>15 DEF PfSenseDelete, PfSenseRows, PfSenseRequest, Write, Inv, CallInv, Ops
  <2>2. \/ Return("error") \/ Return("notFound")
        \/ GotoWith("patch", WithoutIP(FindOverride, call.rec.val), {})
        \/ GotoWith("remove", FindOverride, {})
    BY <1>15, PfSenseDeleteReads
  <2>3. ASSUME NEW p \in {"patch", "remove"}, NEW f \in SUBSET rows, GotoWith(p, f, {})
        PROVE  Done
    <3>1. Proceeds
      BY <2>3, GoesOn DEF Inv, Ops
    <3>2. found' \subseteq rows /\ pc' # "apply"
      BY <2>3 DEF GotoWith
    <3>3. RowInv'
      BY <1>1, <2>1, <3>2, RowsSame DEF Inv
    <3>4. QED
      BY <1>1, <1>7, <2>1, <3>1, <3>2, <3>3 DEF Proceeds, Returns
  <2>4. WithoutIP(FindOverride, call.rec.val) \subseteq rows /\ FindOverride \subseteq rows
    BY DEF WithoutIP, FindOverride
  <2>5. QED
    BY <1>8, <2>1, <2>2, <2>3, <2>4 DEF Results
<1>16. CASE pc = "remove" /\ PfSenseRemove
  <2>. DEFINE s == rows \ FindOverride
  <2>1. /\ call.op = "delete" /\ found = FindOverride /\ found # {} /\ IsOwnedBy(found)
        /\ \A r \in found : r.val = call.rec.val
    BY <1>1, <1>16 DEF Inv, StepInv, PfSenseInv
  <2>2. PICK q \in rows : q.name = Target /\ q \in FindOverride
    BY <1>6, <2>1 DEF FindOverride
  <2>3. call.rec.name = Target /\ \A r \in FindOverride : r.name = Target /\ r.id = q.id
    BY <1>4, <1>6, <2>1, <2>2 DEF FindOverride, Positions
  <2>4. At(found) = FindOverride
    BY <1>13, <2>1, <2>2, <2>3
  <2>5. PfSenseRequest(Renumbered(s), Goto("apply"))
    BY <1>16, <2>1, <2>4 DEF PfSenseRemove
  <2>6. /\ ZoneOf(Renumbered(s)) = ZoneOf(s)
        /\ Positions(Renumbered(s))
        /\ IsFiniteSet(Renumbered(s)) /\ \A x \in Renumbered(s) : GoodRow(x)
        /\ \A r \in s : \E x \in Renumbered(s) : KeyOf(x) = KeyOf(r) /\ x.tag = r.tag
        /\ (\A r, x \in s : r.name = x.name => r = x) =>
             (\A x, y \in Renumbered(s) : x.name = y.name => x = y)
    BY <1>1, <1>4, RenumberedKeeps DEF Inv
  <2>7. \A r \in rows : r.tag = "foreign" => \E x \in Renumbered(s) : KeyOf(x) = KeyOf(r) /\ x.tag = "foreign"
    BY <2>1, <2>6 DEF IsOwnedBy
  <2>8. ASSUME rows' = Renumbered(s)
        PROVE  Scope /\ Contract!Goal(call, past, ZoneOf(rows'))
    <3>1. \A r \in FindOverride : MayGo(Stored(r))
      BY <1>3, <2>1, RowGoes DEF FindOverride
    <3>2. ASSUME NEW x \in ZoneOf(rows) \ ZoneOf(rows')
          PROVE  MayGo(x)
      BY <2>6, <2>8, <3>1 DEF ZoneOf
    <3>3. ZoneOf(rows') \subseteq ZoneOf(rows)
      BY <2>6, <2>8 DEF ZoneOf
    <3>4. Scope
      BY <2>1, <3>2, <3>3 DEF Scope
    <3>5. \A r \in s : KeyOf(r) # call.rec
      BY DEF FindOverride, KeyOf, Key
    <3>6. Contract!Goal(call, past, ZoneOf(s))
      BY <1>1, <1>3, <2>1, <3>5, GoalGone
    <3>7. QED
      BY <2>6, <2>8, <3>4, <3>6
  <2>9. kind = "pfsenseForwarder" => \A x, y \in Renumbered(s) : x.name = y.name => x = y
    BY <1>4, <2>6
  <2>10. QED
    BY <1>9, <2>1, <2>5, <2>6, <2>7, <2>8, <2>9
<1>17. CASE MaybeApply
  <2>1. /\ rows' = rows /\ (Return("ok") \/ Return("error"))
        /\ call.op # "list" /\ done
    BY <1>1, <1>17 DEF MaybeApply, Answer, Inv, StepInv, PfSenseInv
  <2>2. CASE Return("ok")
    <3>1. Returns /\ Honest /\ found' = {} /\ pc' # "apply"
      BY <2>1, <2>2, ReturnsOk DEF Returns
    <3>2. RowInv'
      BY <1>1, <2>1, <3>1, RowsSame DEF Inv
    <3>3. QED
      BY <1>7, <2>1, <3>1, <3>2
  <2>3. QED
    BY <1>8, <2>1, <2>2 DEF Results
<1>18. CASE rows' = rows /\ Return("notFound")
  BY <1>8, <1>18 DEF Results
<1>19. QED
  BY <1>10, <1>11, <1>12, <1>14, <1>15, <1>16, <1>17, <1>18 DEF PfSenseNext, PfSenseCreate, PfSenseDelete

LEMMA PfSenseKeeps ==
  ASSUME Inv, PfSenseNext, Remember, call' = call
  PROVE  PfSenseInv'
<1>. USE DEF Return, ReturnWith
<1>1. /\ kind \in {"pfsense", "pfsenseForwarder"} /\ kind' = kind /\ call # NoCall /\ Positional
  BY DEF PfSenseNext, Positional
<1>2. pc' = "apply" => done'
  BY <1>1, PfSenseStep, HistoryGrows DEF Inv
<1>3. pc \in Ops => pc = call.op
  BY DEF Inv, CallInv
<1>4. ASSUME rows' = rows
      PROVE  FindOverride' = FindOverride /\ PositionOf(Target)' = PositionOf(Target)
  BY <1>4 DEF FindOverride, PositionOf
<1>5. call' # NoCall
  BY <1>1
<1>6. CASE pc = "create" /\ PfSenseCreate
  <2>1. call.op = "create" /\ rows' = rows
    BY <1>3, <1>6, PfSenseCreateReads DEF Ops
  <2>2. CASE pc' = "post"
    BY <2>1, <2>2 DEF PfSenseInv
  <2>3. CASE /\ kind = "pfsense" /\ FindOverride # {} /\ IsOwnedBy(FindOverride)
             /\ GotoWith("patch", {[r EXCEPT !.tag = "me"] : r \in FindOverride}
                                    \cup {Row(call.rec, PositionOf(Target), "me")}, {})
    <3>1. pc' = "patch" /\ found' = {[r EXCEPT !.tag = "me"] : r \in FindOverride}
                                      \cup {Row(call.rec, PositionOf(Target), "me")}
      BY <2>3 DEF GotoWith
    <3>2. FindOverride' = FindOverride /\ PositionOf(Target)' = PositionOf(Target)
      BY <1>4, <2>1
    <3>3. IsOwnedBy(FindOverride)'
      BY <2>3, <3>2 DEF IsOwnedBy
    <3>4. found' = ({[r EXCEPT !.tag = "me"] : r \in FindOverride} \cup {Row(call.rec, PositionOf(Target), "me")})'
      BY <3>1, <3>2 DEF Row
    <3>5. QED
      BY <1>1, <2>1, <2>3, <3>1, <3>2, <3>3, <3>4 DEF PfSenseInv
  <2>4. QED
    BY <1>5, <1>6, <2>2, <2>3, PfSenseCreateReads DEF Goto, GotoWith
<1>7. CASE pc = "delete" /\ PfSenseDelete
  <2>1. call.op = "delete" /\ rows' = rows
    BY <1>3, <1>7, PfSenseDeleteReads DEF Ops
  <2>2. FindOverride' = FindOverride
    BY <1>4, <2>1
  <2>3. CASE /\ kind = "pfsense" /\ FindOverride # {} /\ OwnedByInstance(FindOverride)
             /\ WithoutIP(FindOverride, call.rec.val) # {}
             /\ GotoWith("patch", WithoutIP(FindOverride, call.rec.val), {})
    <3>1. pc' = "patch" /\ found' = WithoutIP(FindOverride, call.rec.val)
      BY <2>3 DEF GotoWith
    <3>2. IsOwnedBy(FindOverride)'
      BY <2>2, <2>3 DEF IsOwnedBy, OwnedByInstance
    <3>3. WithoutIP(FindOverride, call.rec.val)' = WithoutIP(FindOverride, call.rec.val)
      BY <2>2 DEF WithoutIP
    <3>4. QED
      BY <1>1, <2>1, <2>2, <2>3, <3>1, <3>2, <3>3 DEF PfSenseInv
  <2>4. CASE /\ FindOverride # {} /\ OwnedByInstance(FindOverride)
             /\ ContainsIP(FindOverride, call.rec.val)
             /\ kind # "pfsense" \/ WithoutIP(FindOverride, call.rec.val) = {}
             /\ GotoWith("remove", FindOverride, {})
    <3>1. pc' = "remove" /\ found' = FindOverride
      BY <2>4 DEF GotoWith
    <3>2. IsOwnedBy(found)'
      BY <2>4, <3>1 DEF IsOwnedBy, OwnedByInstance
    <3>3. \A r \in found' : r.val = call.rec.val
      <4>1. CASE kind = "pfsense"
        BY <2>4, <3>1, <4>1 DEF WithoutIP
      <4>2. CASE kind = "pfsenseForwarder"
        <5>1. \A r, q \in FindOverride : r = q
          BY <4>2 DEF Inv, IdInv, FindOverride
        <5>2. QED
          BY <2>4, <3>1, <5>1 DEF ContainsIP
      <4>3. QED
        BY <1>1, <4>1, <4>2
    <3>4. QED
      BY <2>1, <2>2, <2>4, <3>1, <3>2, <3>3 DEF PfSenseInv
  <2>5. QED
    BY <1>5, <1>7, <2>3, <2>4, PfSenseDeleteReads
<1>8. CASE pc \in {"post", "patch", "remove"} /\ pc' = "apply"
  <2>1. call.op \in {"create", "delete"}
    BY <1>1, <1>8 DEF Inv, StepInv, PfSenseInv
  <2>2. QED
    BY <1>2, <1>8, <2>1 DEF PfSenseInv
<1>9. ~PfSenseList /\ ~MaybeApply
  BY <1>1 DEF PfSenseList, PfSenseRows, PfSenseRequest, Write, MaybeApply, Answer
<1>10. ASSUME PfSensePost \/ PfSensePatch \/ PfSenseRemove
       PROVE  pc' = "apply"
  BY <1>5, <1>10 DEF PfSensePost, PfSensePatch, PfSenseRemove, PfSenseRequest, Write, Answer, Goto, GotoWith
<1>11. QED
  BY <1>6, <1>7, <1>8, <1>9, <1>10 DEF PfSenseNext, PfSenseCreate, PfSenseDelete

-----------------------------------------------------------------------------
(* Every step keeps the invariant and is a step of the contract.           *)

(* Between calls nothing is known.                                         *)
LEMMA IdleStep ==
  ASSUME pc' = "idle"
  PROVE  StepInv'
  BY DEF StepInv, CloudflareInv, OvhInv, TechnitiumInv, PowerDNSInv, PiholeInv, DnsmasqInv, PfSenseInv, OPNsenseInv

(* What is known of a call is the kind's own business.                     *)
LEMMA OwnKind ==
  ASSUME kind' = kind,
         kind = "cloudflare" => CloudflareInv',
         kind = "ovh" => OvhInv',
         kind = "technitium" => TechnitiumInv',
         kind = "powerdns" => PowerDNSInv',
         kind = "pihole5" => PiholeInv',
         kind = "dnsmasq" => DnsmasqInv',
         Positional => PfSenseInv',
         kind = "opnsense" => OPNsenseInv'
  PROVE  StepInv'
<1>1. Positional' = Positional
  BY DEF Positional
<1>2. CloudflareInv' /\ OvhInv' /\ TechnitiumInv'
  BY DEF CloudflareInv, OvhInv, TechnitiumInv
<1>3. PowerDNSInv' /\ PiholeInv' /\ DnsmasqInv'
  BY DEF PowerDNSInv, PiholeInv, DnsmasqInv
<1>4. PfSenseInv' /\ OPNsenseInv'
  BY <1>1 DEF PfSenseInv, OPNsenseInv
<1>5. QED
  BY <1>2, <1>3, <1>4 DEF StepInv

(* A request of a call.                                                    *)
LEMMA RequestStep ==
  ASSUME Inv, Remember, kind' = kind, outside' = outside, call # NoCall,
         Request, RowInv', IdInv', call' = call => StepInv'
  PROVE  Inv' /\ (SoundConfig => Contract!Next)
<1>1. CallInv' /\ HistoryInv' /\ (SoundConfig => Contract!Next)
  BY RequestKeeps DEF Inv
<1>2. StepInv'
  BY IdleStep DEF Request, Proceeds, Returns
<1>3. QED
  BY <1>1, <1>2 DEF Inv

LEMMA RequestsKeep ==
  ASSUME Inv, Remember,
         \/ CloudflareNext \/ OvhNext \/ TechnitiumNext \/ WebhookNext \/ PowerDNSNext
         \/ AdGuardNext \/ PiholeNext \/ DnsmasqNext \/ PfSenseNext \/ OPNsenseNext
  PROVE  Inv' /\ (SoundConfig => Contract!Next)
<1>1. CASE CloudflareNext
  <2>1. kind = "cloudflare" /\ kind' = kind /\ outside' = outside /\ call # NoCall /\ ~Positional
    BY <1>1 DEF CloudflareNext, Positional
  <2>2. call' = call => StepInv'
    BY <1>1, <2>1, CloudflareKeeps, OwnKind
  <2>3. QED
    BY <1>1, <2>1, <2>2, CloudflareStep, RequestStep
<1>2. CASE OvhNext
  <2>1. kind = "ovh" /\ kind' = kind /\ outside' = outside /\ call # NoCall /\ ~Positional
    BY <1>2 DEF OvhNext, Positional
  <2>2. call' = call => StepInv'
    BY <1>2, <2>1, OvhKeeps, OwnKind
  <2>3. QED
    BY <1>2, <2>1, <2>2, OvhStep, RequestStep
<1>3. CASE TechnitiumNext
  <2>1. kind = "technitium" /\ kind' = kind /\ outside' = outside /\ call # NoCall /\ ~Positional
    BY <1>3 DEF TechnitiumNext, Positional
  <2>2. call' = call => StepInv'
    BY <1>3, <2>1, TechnitiumKeeps, OwnKind
  <2>3. QED
    BY <1>3, <2>1, <2>2, TechnitiumStep, RequestStep
<1>4. CASE WebhookNext
  <2>1. kind = "webhook" /\ kind' = kind /\ outside' = outside /\ call # NoCall /\ ~Positional
    BY <1>4 DEF WebhookNext, Positional
  <2>2. call' = call => StepInv'
    BY <2>1, OwnKind
  <2>3. QED
    BY <1>4, <2>1, <2>2, WebhookStep, RequestStep
<1>5. CASE PowerDNSNext
  <2>1. kind = "powerdns" /\ kind' = kind /\ outside' = outside /\ call # NoCall /\ ~Positional
    BY <1>5 DEF PowerDNSNext, Positional
  <2>2. call' = call => PowerDNSInv'
    <3>1. CASE pc' = "patch"
      BY <1>5, <3>1, PowerDNSKeeps
    <3>2. CASE pc' # "patch"
      BY <3>2 DEF PowerDNSInv
    <3>3. QED
      BY <3>1, <3>2
  <2>3. call' = call => StepInv'
    BY <2>1, <2>2, OwnKind
  <2>4. QED
    BY <1>5, <2>1, <2>3, PowerDNSStep, RequestStep
<1>6. CASE AdGuardNext
  <2>1. kind = "adguard" /\ kind' = kind /\ outside' = outside /\ call # NoCall /\ ~Positional
    BY <1>6 DEF AdGuardNext, Positional
  <2>2. call' = call => StepInv'
    BY <2>1, OwnKind
  <2>3. QED
    BY <1>6, <2>1, <2>2, AdGuardStep, RequestStep
<1>7. CASE PiholeNext
  <2>1. kind \in {"pihole5", "pihole6"} /\ kind' = kind /\ outside' = outside /\ call # NoCall /\ ~Positional
    BY <1>7 DEF PiholeNext, Positional
  <2>2. call' = call => StepInv'
    BY <1>7, <2>1, PiholeKeeps, OwnKind
  <2>3. QED
    BY <1>7, <2>1, <2>2, PiholeStep, RequestStep
<1>8. CASE DnsmasqNext
  <2>1. kind = "dnsmasq" /\ kind' = kind /\ outside' = outside /\ call # NoCall /\ ~Positional
    BY <1>8 DEF DnsmasqNext, Positional
  <2>2. call' = call => StepInv'
    BY <1>8, <2>1, DnsmasqKeeps, OwnKind
  <2>3. QED
    BY <1>8, <2>1, <2>2, DnsmasqStep, RequestStep
<1>9. CASE PfSenseNext
  <2>1. kind \in {"pfsense", "pfsenseForwarder"} /\ kind' = kind /\ outside' = outside /\ call # NoCall
    BY <1>9 DEF PfSenseNext
  <2>2. call' = call => StepInv'
    BY <1>9, <2>1, PfSenseKeeps, OwnKind
  <2>3. QED
    BY <1>9, <2>1, <2>2, PfSenseStep, RequestStep
<1>10. CASE OPNsenseNext
  <2>1. kind = "opnsense" /\ kind' = kind /\ outside' = outside /\ call # NoCall /\ ~Positional
    BY <1>10 DEF OPNsenseNext, Positional
  <2>2. call' = call => StepInv'
    BY <1>10, <2>1, OPNsenseKeeps, OwnKind
  <2>3. QED
    BY <1>10, <2>1, <2>2, OPNsenseStep, RequestStep
<1>11. QED
  BY <1>1, <1>2, <1>3, <1>4, <1>5, <1>6, <1>7, <1>8, <1>9, <1>10

(* The reconciler makes a call.                                            *)
LEMMA InvokeKeeps ==
  ASSUME Inv, Remember, NEW c \in Requested, Invoke(c)
  PROVE  Inv' /\ Contract!Next
<1>1. /\ call = NoCall /\ call' = c /\ pc' = FirstStep(c.op) /\ result' = "none" /\ listed' = {}
      /\ kind' = kind /\ rows' = rows /\ once' = once /\ session' = session
      /\ found' = found /\ tries' = tries /\ outside' = outside
  BY DEF Invoke, backend, client, progress
<1>2. c # NoCall /\ c.op \in Ops
  BY NotNoCall, CallShape
<1>3. RowInv' /\ IdInv'
  BY <1>1, RowsSame, IdsSame DEF Inv
<1>4. Requested' = Requested
  BY <1>1, CapsKept DEF Requested
<1>5. pc' \in {c.op, "lookup", "login"}
  BY <1>1 DEF FirstStep
<1>6. CallInv'
  BY <1>1, <1>2, <1>4, <1>5 DEF Inv, CallInv, Ops
<1>7. Zone' = Zone
  BY <1>1 DEF Zone, Stored, Numbered
<1>8. past' = Zone /\ kept' = Zone /\ done' = Contract!Goal(c, {}, Zone)
  BY <1>1, <1>2 DEF Remember
<1>9. HistoryInv'
  <2>1. Contract!Goal(c, {}, Zone) \in BOOLEAN
    <3>1. c.op \in {"list", "create", "delete", "update"}
      BY <1>2 DEF Ops
    <3>2. QED
      BY <3>1 DEF Contract!Goal
  <2>2. QED
    BY <1>1, <1>2, <1>7, <1>8, <2>1 DEF HistoryInv
<1>10. StepInv'
  <2>1. pc' \in {"list", "create", "delete", "update", "lookup", "login"}
    BY <1>2, <1>5 DEF Ops
  <2>2. CloudflareInv' /\ OvhInv' /\ TechnitiumInv'
    BY <2>1 DEF CloudflareInv, OvhInv, TechnitiumInv
  <2>3. PowerDNSInv' /\ PiholeInv' /\ DnsmasqInv' /\ OPNsenseInv'
    BY <2>1 DEF PowerDNSInv, PiholeInv, DnsmasqInv, OPNsenseInv
  <2>4. PfSenseInv'
    BY <1>7, <1>8, <2>1 DEF PfSenseInv
  <2>5. QED
    BY <2>2, <2>3, <2>4 DEF StepInv
<1>11. UNCHANGED <<Wide, Precise, Exact, Torn, Capabilities.stores>>
  BY <1>1, CapsKept DEF Wide, Precise, Exact, Torn
<1>12. Contract!Invoke
  BY <1>1, <1>2, <1>7, <1>8 DEF Contract!Invoke
<1>13. QED
  BY <1>3, <1>6, <1>9, <1>10, <1>11, <1>12 DEF Inv, Contract!Next

(* Another client of the backend.                                          *)
LEMMA OutsideRows ==
  ASSUME Inv, Outside
  PROVE  RowInv' /\ IdInv'
<1>1. kind' = kind /\ found' = found
  BY DEF Outside, progress
<1>2. ASSUME NEW n \in {Target, Other}, NEW t \in Types, NEW v \in Vals, NEW g \in OutsideTags,
             OutsideAdd(n, t, v, g)
      PROVE  RowInv' /\ IdInv'
  <2>. DEFINE k == Key(n, t, v)
              R == Row(k, IdFor(k), g)
  <2>1. /\ ~Full /\ RowsAt(k) = {} /\ t \in Capabilities.stores /\ rows' = rows \cup {R}
        /\ kind = "pfsenseForwarder" => \A r \in rows : r.name # n
    BY <1>2 DEF OutsideAdd, Accept
  <2>2. R.name = n /\ R.type = t /\ R.val = v /\ R.id = IdFor(k) /\ R.tag = g /\ k.name = n
    BY DEF Row, Key
  <2>3. Positional => IdFor(k) \in 0..MaxRows /\ Positions(rows')
    <3>1. ASSUME Positional
          PROVE  IdFor(k) = PositionOf(n) /\ Positions(rows)
      BY <2>2, <3>1 DEF IdFor, Inv, IdInv
    <3>2. QED
      BY <2>1, <2>2, <3>1, PositionsPlus DEF Inv
  <2>4. Numbered => IdFor(k) \in 0..MaxRows /\ Unique(rows')
    <3>1. ASSUME Numbered
          PROVE  IdFor(k) = NewId /\ NewId \in 1..MaxRows /\ \A r \in rows : r.id # NewId
      BY <2>1, <3>1, FreshId DEF IdFor, Inv, Numbered, Positional
    <3>2. QED
      BY <2>1, <2>2, <3>1, BoundsAssumption DEF Inv, IdInv, Unique
  <2>5. IdFor(k) \in 0..MaxRows
    BY <2>3, <2>4, BoundsAssumption DEF IdFor
  <2>6. R \in RowSet
    <3>1. g \in {"on", "off", "shared", "me", "peer", "foreign"}
      BY DEF OutsideTags
    <3>2. QED
      BY <2>5, <3>1 DEF RowSet, Row, Key
  <2>7. GoodRow(R)
    <3>1. /\ kind \notin {"powerdns", "adguard"} => g # "off"
          /\ kind \notin {"pfsense", "pfsenseForwarder", "opnsense"} => g # "foreign"
          /\ ~SharedLines => g # "shared"
      BY DEF OutsideTags
    <3>2. QED
      BY <2>1, <2>2, <2>6, <3>1 DEF GoodRow
  <2>8. IsFiniteSet({R}) /\ Cardinality(rows') <= MaxRows
    <3>1. IsFiniteSet(rows) /\ Cardinality(rows) \in Nat /\ Cardinality(rows) < MaxRows
      BY <2>1, FS_CardinalityType, BoundsAssumption DEF Full, Inv, RowInv
    <3>2. Cardinality(rows') \in {Cardinality(rows), Cardinality(rows) + 1}
      BY <2>1, <3>1, FS_AddElement
    <3>3. Cardinality(rows') <= MaxRows
      BY <3>1, <3>2, BoundsAssumption
    <3>4. QED
      BY <3>3, FS_Singleton
  <2>9. RowInv'
    BY <1>1, <2>1, <2>7, <2>8, RowsKept DEF Inv
  <2>10. IdInv'
    <3>1. kind = "pfsenseForwarder" => \A r, q \in rows' : r.name = q.name => r = q
      BY <2>1, <2>2 DEF Inv, IdInv
    <3>2. CASE Positional
      BY <1>1, <2>3, <3>1, <3>2, PositionalIds
    <3>3. CASE Numbered
      BY <1>1, <2>4, <3>3, NumberedIds
    <3>4. QED
      BY <1>1, <3>2, <3>3, PlainIds DEF Numbered, Positional
  <2>11. QED
    BY <2>9, <2>10
<1>3. ASSUME NEW r \in rows, OutsideRemove(r)
      PROVE  RowInv' /\ IdInv'
  <2>. DEFINE s == rows \ {r}
  <2>1. rows' = Renumbered(s) /\ s \subseteq rows
    BY <1>3 DEF OutsideRemove
  <2>2. CASE Positional
    <3>1. Positions(rows) /\ kind # "cloudflare"
      BY <2>2 DEF Inv, IdInv, Positional
    <3>2. /\ Positions(rows') /\ IsFiniteSet(rows') /\ \A x \in rows' : GoodRow(x)
          /\ (\A x, q \in s : x.name = q.name => x = q) =>
               (\A x, y \in rows' : x.name = y.name => x = y)
      BY <2>1, <2>2, <3>1, RenumberedKeeps DEF Inv
    <3>3. RowInv'
      BY <1>1, <3>1, <3>2, RowsKept DEF Inv
    <3>4. kind = "pfsenseForwarder" => \A x, y \in rows' : x.name = y.name => x = y
      BY <3>2 DEF Inv, IdInv
    <3>5. QED
      BY <1>1, <2>2, <3>2, <3>3, <3>4, PositionalIds
  <2>3. CASE ~Positional
    <3>1. rows' = s
      BY <2>1, <2>3 DEF Renumbered
    <3>2. kind = "cloudflare" => Cardinality(rows') <= MaxRows
      BY <3>1, CardinalityKept DEF Inv
    <3>3. RowInv'
      BY <1>1, <3>1, <3>2, RowsKept, FS_EmptySet DEF Inv
    <3>4. Numbered => Unique(rows')
      BY <3>1 DEF Inv, IdInv, Unique
    <3>5. IdInv'
      <4>1. CASE Numbered
        BY <1>1, <3>4, <4>1, NumberedIds
      <4>2. QED
        BY <1>1, <2>3, <4>1, PlainIds DEF Numbered, Positional
    <3>6. QED
      BY <3>3, <3>5
  <2>4. QED
    BY <2>2, <2>3
<1>4. QED
  BY <1>2, <1>3 DEF Outside

LEMMA OutsideKeeps ==
  ASSUME FirewallAlone, Inv, Remember, Outside
  PROVE  Inv' /\ Contract!Next
<1>1. /\ kind' = kind /\ call' = call /\ pc' = pc /\ found' = found /\ todo' = todo /\ tries' = tries
      /\ once' = once /\ session' = session /\ result' = result /\ listed' = listed
      /\ outside' = outside + 1 /\ MayInterfere
  BY DEF Outside, progress, client, OutsideAdd, OutsideRemove
<1>2. RowInv' /\ IdInv'
  BY OutsideRows
<1>3. Requested' = Requested
  BY <1>1, CapsKept DEF Requested
<1>4. CallInv'
  BY <1>1, <1>3 DEF Inv, CallInv
<1>5. UNCHANGED <<Wide, Precise, Exact, Torn, Capabilities.stores>>
  BY <1>1, CapsKept DEF Wide, Precise, Exact, Torn
<1>6. CASE call = NoCall
  <2>1. past' = {} /\ kept' = {} /\ done' = FALSE
    BY <1>1, <1>6 DEF Remember
  <2>2. UNCHANGED <<past, kept, done>>
    BY <1>6, <2>1 DEF Inv, HistoryInv
  <2>3. HistoryInv'
    BY <1>1, <1>6, <2>1 DEF HistoryInv
  <2>4. StepInv'
    BY <1>1, <1>6, IdleStep DEF Inv, CallInv
  <2>5. Contract!Outside
    BY <1>1, <1>6, <2>2 DEF Contract!Outside
  <2>6. QED
    BY <1>2, <1>4, <1>5, <2>3, <2>4, <2>5 DEF Inv, Contract!Next
<1>7. CASE call # NoCall
  <2>1. kind \in Interference /\ ~Positional
    BY <1>1, <1>7 DEF MayInterfere, FirewallAlone, Positional
  <2>2. HistoryInv'
    BY <1>1, <1>7, HistoryKept DEF Inv
  <2>3. past \subseteq past' /\ kept' \subseteq kept /\ (done => done')
    BY <1>1, <1>7, HistoryGrows DEF Inv
  <2>4. /\ SetFound' = SetFound /\ ZoneOf(found)' = ZoneOf(found)
    <3>1. ZoneOf(found)' = ZoneOf(found)
      BY <1>1, ZonePrime
    <3>2. SetFound' = SetFound
      BY <1>1 DEF SetFound
    <3>3. QED
      BY <3>1, <3>2
  <2>5. ListedSoFar => ListedSoFar'
    BY <1>1, <2>3, <2>4 DEF ListedSoFar
  <2>6. kind = "cloudflare" => CloudflareInv'
    BY <1>1, <2>4, <2>5 DEF Inv, StepInv, CloudflareInv
  <2>7. kind = "ovh" => OvhInv'
    BY <1>1, <2>3, <2>4, <2>5 DEF Inv, StepInv, OvhInv
  <2>8. kind = "technitium" => TechnitiumInv'
    BY <1>1, <2>3 DEF Inv, StepInv, TechnitiumInv
  <2>9. kind = "powerdns" => PowerDNSInv'
    BY <1>1, <2>3, <2>4 DEF Inv, StepInv, PowerDNSInv
  <2>10. kind = "pihole5" => PiholeInv'
    BY <1>1, <2>3, <2>4 DEF Inv, StepInv, PiholeInv
  <2>11. kind = "dnsmasq" => DnsmasqInv'
    BY <1>1, <2>1 DEF Inv, StepInv, DnsmasqInv
  <2>12. kind = "opnsense" => OPNsenseInv'
    BY <1>1, <2>3 DEF Inv, StepInv, OPNsenseInv
  <2>13. StepInv'
    BY <1>1, <2>1, <2>6, <2>7, <2>8, <2>9, <2>10, <2>11, <2>12, OwnKind
  <2>14. Contract!Outside
    BY <1>1, <1>7 DEF Contract!Outside, Contract!Remember, Remember
  <2>15. QED
    BY <1>2, <1>4, <1>5, <2>2, <2>13, <2>14 DEF Inv, Contract!Next
<1>8. QED
  BY <1>6, <1>7

-----------------------------------------------------------------------------
LEMMA InitHolds ==
  ASSUME Init
  PROVE  Inv /\ Contract!Init
<1>1. /\ kind \in Kinds /\ rows = {} /\ found = {} /\ call = NoCall /\ pc = "idle" /\ tries = 0
      /\ once \in {"unknown", "known"} /\ session = FALSE /\ result = "none" /\ listed = {} /\ outside = 0
      /\ past = {} /\ kept = {} /\ done = FALSE
  BY DEF Init
<1>2. RowInv
  BY <1>1, FS_EmptySet, BoundsAssumption DEF RowInv
<1>3. IdInv
  BY <1>1 DEF IdInv, Unique, Positions
<1>4. CallInv
  <2>1. session \in BOOLEAN
    BY <1>1
  <2>2. once \in {"unknown", "known", "failed"} /\ tries \in 0..Retries /\ outside \in Nat
    BY <1>1, BoundsAssumption
  <2>3. QED
    BY <1>1, <2>1, <2>2 DEF CallInv, Ops
<1>5. HistoryInv
  BY <1>1 DEF HistoryInv
<1>6. StepInv
  BY <1>1 DEF StepInv, CloudflareInv, OvhInv, TechnitiumInv, PowerDNSInv, PiholeInv, DnsmasqInv, PfSenseInv, OPNsenseInv
<1>7. Zone = {}
  BY <1>1 DEF Zone
<1>8. Wide \in BOOLEAN /\ Precise \in BOOLEAN /\ Exact \in BOOLEAN /\ Torn \in BOOLEAN
  BY DEF Wide, Precise, Exact, Torn
<1>9. Capabilities.stores \in SUBSET STRING
  BY StoresAreTypes, TypesAssumption
<1>10. Contract!Init
  BY <1>1, <1>7, <1>8, <1>9 DEF Contract!Init
<1>11. QED
  BY <1>2, <1>3, <1>4, <1>5, <1>6, <1>10 DEF Inv

LEMMA NothingHappens ==
  ASSUME UNCHANGED vars
  PROVE  /\ Inv => Inv'
         /\ UNCHANGED Contract!vars
<1>. USE DEF vars
<1>1. Capabilities' = Capabilities /\ Zone' = Zone
  BY CapsKept, ZonePrime, ZoneIs
<1>2. UNCHANGED <<Wide, Precise, Exact, Torn>>
  BY DEF Wide, Precise, Exact, Torn
<1>3. UNCHANGED Contract!vars
  BY <1>1, <1>2 DEF Contract!vars
<1>4. RowInv => RowInv'
  BY RowsSame
<1>5. IdInv => IdInv'
  BY IdsSame
<1>6. Requested' = Requested
  BY <1>1 DEF Requested
<1>7. CallInv => CallInv'
  BY <1>6 DEF CallInv
<1>8. HistoryInv => HistoryInv'
  BY <1>1 DEF HistoryInv
<1>9. StepInv => StepInv'
  <2>1. CloudflareInv' = CloudflareInv /\ OvhInv' = OvhInv
    BY DEF CloudflareInv, OvhInv, ListedSoFar, SetFound, ZoneOf, Stored, Numbered
  <2>2. TechnitiumInv' = TechnitiumInv /\ DnsmasqInv' = DnsmasqInv /\ OPNsenseInv' = OPNsenseInv
    BY DEF TechnitiumInv, DnsmasqInv, OPNsenseInv
  <2>3. PowerDNSInv' = PowerDNSInv /\ PiholeInv' = PiholeInv
    BY DEF PowerDNSInv, PiholeInv, SetFound, ZoneOf, Stored, Numbered
  <2>4. PfSenseInv' = PfSenseInv
    BY <1>1 DEF PfSenseInv, Positional, FindOverride, IsOwnedBy, WithoutIP, PositionOf
  <2>5. QED
    BY <2>1, <2>2, <2>3, <2>4 DEF StepInv
<1>10. QED
  BY <1>3, <1>4, <1>5, <1>7, <1>8, <1>9 DEF Inv

LEMMA NextKeeps ==
  ASSUME FirewallAlone, Inv, [Next]_vars
  PROVE  /\ Inv'
         /\ SoundConfig => [Contract!Next]_(Contract!vars)
<1>1. CASE UNCHANGED vars
  BY <1>1, NothingHappens
<1>2. CASE Next
  <2>1. CASE \E c \in Requested : Invoke(c)
    BY <1>2, <2>1, InvokeKeeps DEF Next
  <2>2. CASE Outside
    BY <1>2, <2>2, OutsideKeeps DEF Next
  <2>3. CASE \/ CloudflareNext \/ OvhNext \/ TechnitiumNext \/ WebhookNext \/ PowerDNSNext
             \/ AdGuardNext \/ PiholeNext \/ DnsmasqNext \/ PfSenseNext \/ OPNsenseNext
    BY <1>2, <2>3, RequestsKeep DEF Next
  <2>4. QED
    BY <1>2, <2>1, <2>2, <2>3 DEF Next, Step
<1>3. QED
  BY <1>1, <1>2

(* The invariant holds throughout, whatever the constants, as long as a    *)
(* pfSense, whose overrides are addressed by position, has one writer      *)
(* while a call is under way.                                              *)
THEOREM ProvidersInvariant ==
  ASSUME FirewallAlone
  PROVE  Spec => []Inv
<1>1. Init => Inv
  BY InitHolds
<1>2. Inv /\ [Next]_vars => Inv'
  BY NextKeeps
<1>3. QED
  BY <1>1, <1>2, PTL DEF Spec

(* Positions 1 and 2 without a gap, counted by name.                       *)
LEMMA PositionsCount ==
  ASSUME RowInv, Positions(rows)
  PROVE  {r.id : r \in rows} = 1..Cardinality({r.name : r \in rows})
<1>. DEFINE names == {r.name : r \in rows}
            ids == {r.id : r \in rows}
<1>0. 1..0 = {} /\ 1..1 = {1} /\ 1..2 = {1, 2}
  OBVIOUS
<1>1. \A r \in rows : r.name \in {Target, Other} /\ r.id \in {1, 2}
  BY DEF RowInv, GoodRow, RowSet, Positions
<1>2. CASE rows = {}
  <2>1. names = {} /\ ids = {}
    BY <1>2
  <2>2. Cardinality(names) = 0
    BY <2>1, FS_EmptySet
  <2>3. QED
    BY <1>0, <2>1, <2>2
<1>3. CASE rows # {} /\ \A r \in rows : r.id = 1
  <2>1. PICK q \in rows : q.id = 1
    BY <1>3
  <2>2. names = {q.name} /\ ids = {1}
    BY <1>3, <2>1 DEF Positions
  <2>3. Cardinality(names) = 1
    BY <2>2, FS_Singleton
  <2>4. QED
    BY <1>0, <2>2, <2>3
<1>4. CASE \E r \in rows : r.id # 1
  <2>1. PICK r \in rows : r.id = 2
    BY <1>1, <1>4
  <2>2. PICK q \in rows : q.id = 1
    BY <2>1 DEF Positions
  <2>3. r.name # q.name
    BY <2>1, <2>2 DEF Positions
  <2>4. names = {q.name} \cup {r.name} /\ ids = {1, 2}
    BY <1>1, <2>1, <2>2, <2>3
  <2>5. Cardinality(names) = 2
    <3>1. IsFiniteSet({q.name}) /\ Cardinality({q.name}) = 1
      BY FS_Singleton
    <3>2. Cardinality({q.name} \cup {r.name}) = Cardinality({q.name}) + 1
      BY <2>3, <3>1, FS_AddElement
    <3>3. Cardinality({q.name} \cup {r.name}) = 2
      BY <3>1, <3>2
    <3>4. QED
      BY <2>4, <3>3
  <2>6. QED
    BY <1>0, <2>4, <2>5
<1>5. QED
  BY <1>2, <1>3, <1>4

(* The type invariant of the providers: whatever kind of backend, whatever *)
(* requests fail and whoever else writes to it, the numbers Cloudflare, OVH*)
(* and OPNsense give their rows name one row each, and the overrides of a  *)
(* pfSense sit at the positions 1..n, one for each name, which is what     *)
(* client.update and client.remove of providers/pfsense rely on.           *)
THEOREM ProviderTypes ==
  ASSUME FirewallAlone
  PROVE  Spec => []TypeOK
<1>1. Inv => TypeOK
  <2>1. SUFFICES ASSUME Inv PROVE TypeOK
    OBVIOUS
  <2>2. kind \in Kinds /\ \A r \in rows : r.name \in {Target, Other} /\ r.id \in 0..MaxRows
    BY <2>1 DEF Inv, RowInv, GoodRow, RowSet
  <2>3. Numbered => \A r, s \in rows : r.id = s.id => r = s
    BY <2>1 DEF Inv, IdInv, Unique
  <2>4. Positional => /\ {r.id : r \in rows} = 1..Cardinality({r.name : r \in rows})
                      /\ \A r, s \in rows : (r.id = s.id) <=> (r.name = s.name)
    BY <2>1, PositionsCount DEF Inv, IdInv, Positions
  <2>5. QED
    BY <2>1, <2>2, <2>3, <2>4 DEF TypeOK, Inv, CallInv
<1>2. QED
  BY <1>1, ProvidersInvariant, PTL

(* The operator's overrides, the rows without dnsweaver's description, are *)
(* never changed or removed by a call: findOverride, isOwnedBy and         *)
(* ownedByInstance of providers/pfsense, and the description that Delete of*)
(* providers/opnsense looks for, decide before the request is sent, and the*)
(* position or uuid it is sent to is still that of the row that was read.  *)
THEOREM OverridesKept ==
  ASSUME FirewallAlone
  PROVE  Spec => OperatorRowsKept
<1>1. ASSUME Inv, [Next]_vars
      PROVE  [call # NoCall /\ outside' = outside => ForeignRows \subseteq ForeignRows']_vars
  <2>1. SUFFICES ASSUME Next, call # NoCall, outside' = outside
                 PROVE  ForeignRows \subseteq ForeignRows'
    BY <1>1, Zenon
  <2>2. ~Outside
    <3>1. outside + 1 # outside
      BY <1>1 DEF Inv, CallInv
    <3>2. Outside => outside' = outside + 1
      BY Zenon DEF Outside, OutsideAdd, OutsideRemove
    <3>3. QED
      BY <2>1, <3>1, <3>2
  <2>3. ~ \E c \in Requested : Invoke(c)
    BY <2>1 DEF Invoke
  <2>4. CASE PfSenseNext
    BY <1>1, <2>4, PfSenseStep
  <2>5. CASE OPNsenseNext
    BY <1>1, <2>5, OPNsenseStep
  <2>6. CASE kind \notin {"pfsense", "pfsenseForwarder", "opnsense"}
    BY <1>1, <2>6 DEF Inv, RowInv, GoodRow, ForeignRows
  <2>7. QED
    BY <2>1, <2>2, <2>3, <2>4, <2>5, <2>6 DEF Next, Step, CloudflareNext, OvhNext, TechnitiumNext, WebhookNext,
       PowerDNSNext, AdGuardNext, PiholeNext, DnsmasqNext
<1>2. QED
  BY <1>1, ProvidersInvariant, PTL DEF Spec, OperatorRowsKept

(* With reconfiguration after every write, a firewall provider that reports*)
(* a create as done serves the record: maybeApply and maybeReconfigure come*)
(* last in the call, and the only other "ok" of a create is for a record   *)
(* that was there when the call began.                                     *)
THEOREM ServedWhenOk ==
  ASSUME FirewallAlone
  PROVE  Spec => AppliedWhenOk
<1>. DEFINE Applied ==
       /\ Positional \/ kind = "opnsense"
       /\ PerWrite /\ call # NoCall /\ call' = NoCall /\ result' = "ok" /\ call.op = "create"
       /\ \A x \in kept : Key(x.name, x.type, x.val) # call.rec
       /\ RowsAt(call.rec) # {}
       => call.rec \in served'
<1>1. ASSUME Inv, [Next]_vars
      PROVE  [Applied]_vars
  <2>1. SUFFICES ASSUME Next, Positional \/ kind = "opnsense", PerWrite, call # NoCall,
                        call' = NoCall, result' = "ok", call.op = "create",
                        \A x \in kept : Key(x.name, x.type, x.val) # call.rec,
                        RowsAt(call.rec) # {}
                 PROVE  call.rec \in served'
    BY <1>1, Zenon
  <2>2. PICK r \in rows : KeyOf(r) = call.rec
    BY <2>1 DEF RowsAt
  <2>3. call.rec \in {KeyOf(x) : x \in rows}
    BY <2>2
  <2>4. kept # Zone
    <3>1. Key(Stored(r).name, Stored(r).type, Stored(r).val) = call.rec
      BY <2>2, StoredFields DEF KeyOf
    <3>2. Stored(r) \in Zone
      BY DEF Zone
    <3>3. QED
      BY <2>1, <3>1, <3>2
  <2>5. PfSenseNext \/ OPNsenseNext
    <3>1. ~Outside /\ ~ \E c \in Requested : Invoke(c)
      BY <2>1 DEF Outside, Invoke
    <3>2. QED
      BY <2>1, <3>1 DEF Next, Step, Positional, CloudflareNext, OvhNext, TechnitiumNext, WebhookNext,
         PowerDNSNext, AdGuardNext, PiholeNext, DnsmasqNext
  <2>6. pc \in Ops => pc = "create"
    BY <1>1, <2>1 DEF Inv, CallInv
  <2>7. CASE PfSenseNext
    <3>1. Positional
      BY <2>7 DEF PfSenseNext, Positional
    <3>2. pc # "create"
      BY <1>1, <2>4, <3>1 DEF Inv, StepInv, PfSenseInv
    <3>3. ~PfSenseList /\ ~PfSenseCreate /\ ~PfSenseDelete
      BY <2>1, <2>6, <3>2 DEF PfSenseList, PfSenseCreate, PfSenseDelete, PfSensePost, PfSensePatch, PfSenseRemove,
         PfSenseRequest, Write, Answer, Goto, GotoWith, Return, ReturnWith, Ops
    <3>4. MaybeApply
      BY <2>7, <3>3 DEF PfSenseNext
    <3>5. QED
      BY <2>1, <2>3, <3>4 DEF MaybeApply, Answer, Return, ReturnWith
  <2>8. CASE OPNsenseNext
    <3>1. ~OPNsenseList /\ ~OPNsenseCreate /\ ~OPNsenseDelete
      BY <2>1, <2>6 DEF OPNsenseList, OPNsenseCreate, OPNsenseDelete, AddHost, DelHost, DeleteByProviderID, FindUUID,
         SearchHosts, OPNsenseRequest, Write, Answer, Goto, GotoWith, Return, ReturnWith, Ops
    <3>2. MaybeReconfigure
      BY <2>8, <3>1 DEF OPNsenseNext
    <3>3. QED
      BY <2>1, <2>3, <3>2 DEF MaybeReconfigure, Answer, Return, ReturnWith
  <2>9. QED
    BY <2>5, <2>7, <2>8
<1>2. QED
  BY <1>1, ProvidersInvariant, PTL DEF Spec, AppliedWhenOk

(* Every kind of provider implements the contract the reconciler relies on *)
(* (RecordStore), request by request, with requests that fail before or    *)
(* after their effect and other writers between them: a call changes its   *)
(* own record set only, "ok" means that what was asked for held during the *)
(* call, and a listing of several requests omits nothing that was there    *)
(* throughout.                                                             *)
THEOREM ProvidersImplement ==
  ASSUME SoundConfig
  PROVE  Spec => Implements
<1>1. FirewallAlone
  BY DEF SoundConfig
<1>2. Spec => []Inv
  BY <1>1, ProvidersInvariant
<1>3. Init => Contract!Init
  BY InitHolds
<1>4. Inv /\ [Next]_vars => [Contract!Next]_(Contract!vars)
  BY <1>1, NextKeeps
<1>5. QED
  BY <1>2, <1>3, <1>4, PTL DEF Spec, Implements, Contract!Spec
=============================================================================
