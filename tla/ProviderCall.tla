---------------------------- MODULE ProviderCall ----------------------------
(***************************************************************************)
(* What every DNS provider module shares: the backend's rows, the call the *)
(* reconciler has made on the provider, and how one request of it can end. *)
(* The provider modules (Cloudflare, OVH, Technitium, Webhook, PowerDNS,   *)
(* AdGuard, Pihole, Dnsmasq, PfSense, OPNsense) extend this module with the*)
(* steps of their calls; Providers composes them.                          *)
(*                                                                         *)
(* A row is a stored record: name, type and value (for an SRV record the   *)
(* value stands for target, priority, weight and port together), the       *)
(* backend's identifier (0 where the backend has none) and a tag: "on" for *)
(* an ordinary record, "off" for one that is disabled, "me", "peer" and    *)
(* "foreign" for the description that marks the owner of a host override.  *)
(***************************************************************************)
EXTENDS Naturals, FiniteSets, FiniteSetsExt

CONSTANTS Kinds,          \* the provider kinds of this instance
          Target, Other,  \* the name the reconciler works on, and a bystander
          Types, Vals,
          Interference,   \* kinds whose backend others may change during a call
          MaxRows,        \* bound: rows in the backend
          MaxOutside,     \* bound: changes by others
          Retries,        \* bound: retries of a webhook request
          PageSize,       \* records of one type a Cloudflare listing returns
          Prefixes,       \* pairs <<v, w>>: the text of v is a prefix of w's
          PerWrite,       \* pfSense, OPNsense: apply after every write
          Companion,      \* Technitium: companion HTTPS records are enabled
          Apex,           \* OVH: Target is the name of the zone itself
          SharedLines,    \* Pi-hole v6: a hosts line may hold several names
          OddReplies,     \* Pi-hole v5: a 200 reply that is not the expected JSON
          NoCall

ASSUME BoundsAssumption == /\ MaxRows \in Nat /\ MaxOutside \in Nat /\ Retries \in Nat
                           /\ PageSize \in Nat \ {0} /\ Target # Other
                           /\ PerWrite \in BOOLEAN /\ Companion \in BOOLEAN
                           /\ Apex \in BOOLEAN /\ SharedLines \in BOOLEAN /\ OddReplies \in BOOLEAN

(* The record types of pkg/provider.                                       *)
ASSUME TypesAssumption == /\ Types \subseteq {"A", "AAAA", "CNAME", "TXT", "SRV"}
                          /\ Types \subseteq STRING

(* NoCall is none of the calls.                                            *)
ASSUME NoCallAssumption ==
  LET records == [name : {Target}, type : Types, val : Vals]
  IN  NoCall \notin [op : {"list"}] \cup [op : {"create", "delete"}, rec : records]
                     \cup [op : {"update"}, rec : records, old : records]

VARIABLES kind,     \* which provider this behaviour is about
          rows,     \* the backend's rows
          served,   \* what the running DNS server answers (file and firewall backends)
          once,     \* a lookup done once per process: "unknown", "known", "failed"
          session,  \* Pi-hole v6: a session is cached
          call, pc, \* the call in progress and its next request
          found,    \* what earlier requests of the call returned
          todo,     \* what is left of a listing that takes several requests
          tries,    \* attempts made for the current request
          result, listed,
          outside,  \* changes made by others
          past, kept, done   \* history of the call, see RecordStore

backend == <<rows, served>>
progress == <<found, todo, tries>>
client == <<once, session>>
history == <<past, kept, done>>
vars == <<kind, rows, served, once, session, call, pc, found, todo, tries,
          result, listed, outside, past, kept, done>>

Key(n, t, v) == [name |-> n, type |-> t, val |-> v]
KeyOf(r) == Key(r.name, r.type, r.val)
Row(k, i, g) == [name |-> k.name, type |-> k.type, val |-> k.val, id |-> i, tag |-> g]
Results == {"ok", "conflict", "typeConflict", "notFound", "error"}

(* A record as the contract sees it: disabled rows and rows of an operator *)
(* are not listed.                                                         *)
Numbered == kind \in {"cloudflare", "ovh", "opnsense"}
Stored(r) == [name |-> r.name, type |-> r.type, val |-> r.val,
              copy |-> IF Numbered THEN r.id ELSE 0,
              hidden |-> r.tag \in {"off", "foreign"}]
Listing(s) == {x \in {Stored(r) : r \in s} : ~x.hidden}

RowsOf(n, t) == {r \in rows : r.name = n /\ r.type = t}
RowsAt(k) == {r \in rows : KeyOf(r) = k}
CallRows == RowsOf(call.rec.name, call.rec.type)

NewId == CHOOSE i \in 1..MaxRows : \A r \in rows : r.id # i
Positional == kind \in {"pfsense", "pfsenseForwarder"}
PositionOf(n) == LET own == {r.id : r \in {x \in rows : x.name = n}}
                 IN  IF own # {} THEN CHOOSE i \in own : TRUE
                     ELSE Cardinality({r.name : r \in rows}) + 1
IdFor(k) == IF Positional THEN PositionOf(k.name) ELSE IF Numbered THEN NewId ELSE 0

(* A configuration array closes the gap a removed element leaves.          *)
Renumbered(s) ==
  IF ~Positional THEN s
  ELSE {[r EXCEPT !.id = Cardinality({x.id : x \in {y \in s : y.id < r.id}}) + 1] : r \in s}

Full == Cardinality(rows) >= MaxRows
Clash(k) == \E r \in rows : /\ r.name = k.name /\ r.type # k.type
                            /\ "CNAME" \in {r.type, k.type}

-----------------------------------------------------------------------------
(* How a request can end. Ok: the reply arrived. Fail: an error reply, or  *)
(* none, whether or not the request took effect.                           *)
GotoWith(p, f, td) ==
  /\ pc' = p /\ found' = f /\ todo' = td
  /\ UNCHANGED <<call, result, listed, tries>>
Goto(p) == GotoWith(p, found, todo)
ReturnWith(res, l) ==
  /\ call' = NoCall /\ pc' = "idle" /\ result' = res /\ listed' = l
  /\ found' = {} /\ todo' = {} /\ tries' = 0
Return(res) == ReturnWith(res, {})

Read(ok, fail) == rows' = rows /\ (ok \/ fail)
Write(new, ok, fail) == \/ rows' = new /\ ok
                        \/ rows' \in {rows, new} /\ fail
Answer(act) == rows' = rows /\ act

(* Listings ask for one type after another: item [type, id], id 0 for the  *)
(* request that lists the type.                                            *)
Item(t, i) == [type |-> t, id |-> i]
Rank == [t \in {"A", "AAAA", "CNAME", "TXT", "SRV"} |->
           CASE t = "A" -> 1 [] t = "AAAA" -> 2 [] t = "CNAME" -> 3 [] t = "TXT" -> 4 [] t = "SRV" -> 5]
AllTypes == {Item(t, 0) : t \in Types}
NextItem == CHOOSE x \in todo : \A y \in todo :
              \/ Rank[x.type] < Rank[y.type]
              \/ x.type = y.type /\ x.id >= y.id

(* A backend that accepts a new record, or refuses it.                     *)
Accept(k, g) == rows \cup {Row(k, IdFor(k), g)}

-----------------------------------------------------------------------------
Init ==
  /\ kind \in Kinds
  /\ rows = {} /\ served = {}
  /\ once \in {"unknown"} \cup {o \in {"known"} : kind = "cloudflare"}  \* a configured zone id
  /\ session = FALSE
  /\ call = NoCall /\ pc = "idle" /\ found = {} /\ todo = {} /\ tries = 0
  /\ result = "none" /\ listed = {}
  /\ outside = 0
  /\ past = {} /\ kept = {} /\ done = FALSE
=============================================================================
