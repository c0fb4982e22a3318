-------------------------------- MODULE Pihole --------------------------------
(***************************************************************************)
(* The Pi-hole provider in API mode (providers/pihole): version 5 answers  *)
(* with a flag and a message, version 6 with a status behind a session. In *)
(* file mode the provider is the dnsmasq provider, module Dnsmasq. A TXT   *)
(* record, so every ownership marker, is accepted and not stored.          *)
(***************************************************************************)
EXTENDS ProviderCall

PiholeCapabilities == [types |-> Types \cap {"A", "CNAME", "TXT"},
                       stores |-> Types \cap {"A", "AAAA", "CNAME"}, update |-> FALSE]
V6 == kind = "pihole6"

(* authenticate and getSID: a cached session is used until it expires; it  *)
(* may be gone on the server before that.                                  *)
Authenticate ==
  /\ pc = "login"
  /\ session' \in BOOLEAN
  /\ Answer(IF session' THEN Goto(call.op) ELSE Return("error"))

(* doRequest of version 6: a 401 drops the session and fails the call, no  *)
(* request is repeated.                                                    *)
V6Request(new, ok) ==
  \/ V6 /\ session' = session /\ Write(new, ok, Return("error"))
  \/ V6 /\ session' = FALSE /\ Answer(Return("error"))

(* A request of version 5: with status 200, a reply that is not the        *)
(* expected JSON is success.                                               *)
V5Request(new, ok) ==
  /\ kind = "pihole5" /\ session' = session
  /\ \/ Write(new, ok, Return("error"))
     \/ OddReplies /\ call.op # "list" /\ Answer(Return("ok"))

(* List: version 6 reads the configuration in one request, version 5 the   *)
(* addresses (listCustomDNS) and then the CNAMEs (listCNAME).               *)
V6List == pc = "list" /\ V6Request(rows, ReturnWith("ok", Listing(rows)))
ListCustomDNS ==
  pc = "list" /\ V5Request(rows, GotoWith("listCNAME", {r \in rows : r.type \in {"A", "AAAA"}}, {}))
ListCNAME ==
  /\ pc = "listCNAME"
  /\ V5Request(rows, ReturnWith("ok", Listing(found \cup {r \in rows : r.type = "CNAME"})))

(* A message that the entry exists is success; one that it is not found    *)
(* is success of a deletion. A hosts entry of version 6 is a whole line,   *)
(* so a line that also holds other names is not found.                     *)
Added(k) == IF RowsAt(k) # {} THEN rows ELSE Accept(k, "on")
V5Create(k) == IF Full /\ RowsAt(k) = {} THEN V5Request(rows, Return("error"))
               ELSE V5Request(Added(k), Return("ok"))
V6Create(k) == IF Full /\ RowsAt(k) = {} THEN V6Request(rows, Return("error"))
               ELSE V6Request(Added(k), Return("ok"))
V5Delete(k) == V5Request(rows \ RowsAt(k), Return("ok"))
V6Delete(k) == V6Request(rows \ {r \in RowsAt(k) : r.tag # "shared"}, Return("ok"))

(* Create and Delete: a TXT record is accepted and dropped.                *)
Ignored == call.rec.type = "TXT" /\ Answer(Return("ok")) /\ session' = session
PiholeList == V6List \/ ListCustomDNS \/ ListCNAME
PiholeCreate == /\ pc = "create"
                /\ Ignored \/ (call.rec.type # "TXT" /\ (V5Create(call.rec) \/ V6Create(call.rec)))
PiholeDelete == /\ pc = "delete"
                /\ Ignored \/ (call.rec.type # "TXT" /\ (V5Delete(call.rec) \/ V6Delete(call.rec)))

PiholeNext ==
  /\ kind \in {"pihole5", "pihole6"} /\ call # NoCall
  /\ Authenticate \/ PiholeList \/ PiholeCreate \/ PiholeDelete
  /\ UNCHANGED <<kind, served, once, outside>>
=============================================================================
