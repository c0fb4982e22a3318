------------------------------- MODULE OPNsense -------------------------------
(***************************************************************************)
(* The OPNsense provider (providers/opnsense), both engines: host overrides*)
(* with a uuid and a description that marks their owner. A creation does   *)
(* not look whether the record is there.                                   *)
(***************************************************************************)
EXTENDS ProviderCall

OPNsenseCapabilities ==
  LET t == Types \cap {"A", "AAAA"} IN [types |-> t, stores |-> t, update |-> FALSE]

(* client.do, mapStatusError and parseMutationResponse: a reply that does  *)
(* not say saved, deleted or ok is an error.                               *)
OPNsenseRequest(new, ok) == Write(new, ok, Return("error"))

(* The searches, additions and deletions of both engines.                  *)
SearchHosts(next) == OPNsenseRequest(rows, next)
AddHost(k) == IF Full THEN Answer(Return("error"))
              ELSE OPNsenseRequest(Accept(k, "me"), Goto("reconfigure"))
DelHost == IF found \subseteq rows THEN OPNsenseRequest(rows \ found, Goto("reconfigure"))
           ELSE Answer(Return("error"))

OPNsenseList == pc = "list" /\ SearchHosts(ReturnWith("ok", Listing(rows))) /\ served' = served
OPNsenseCreate == pc = "create" /\ AddHost(call.rec) /\ served' = served

(* Delete by the uuid an earlier listing returned; the row may be gone.    *)
DeleteByProviderID ==
  \/ \E r \in RowsAt(call.rec) : r.tag \in {"me", "peer"} /\ Answer(GotoWith("remove", {r}, {}))
  \/ RowsAt(call.rec) = {} /\ Answer(Return("error"))
(* findUUID: a row of this instance with the record's name, type and value.*)
FindUUID ==
  LET own == {r \in RowsAt(call.rec) : r.tag = "me"}
  IN  IF own = {} THEN SearchHosts(Return("notFound"))
      ELSE \E r \in own : SearchHosts(GotoWith("remove", {r}, {}))
OPNsenseDelete ==
  /\ served' = served
  /\ \/ pc = "delete" /\ (DeleteByProviderID \/ FindUUID)
     \/ pc = "remove" /\ DelHost

(* maybeReconfigure *)
MaybeReconfigure ==
  /\ pc = "reconfigure"
  /\ \/ ~PerWrite /\ Answer(Return("ok")) /\ served' = served
     \/ PerWrite /\ Answer(Return("ok")) /\ served' = {KeyOf(r) : r \in rows}
     \/ PerWrite /\ Answer(Return("error")) /\ served' \in {served, {KeyOf(r) : r \in rows}}

OPNsenseNext ==
  /\ kind = "opnsense" /\ call # NoCall
  /\ OPNsenseList \/ OPNsenseCreate \/ OPNsenseDelete \/ MaybeReconfigure
  /\ UNCHANGED <<kind, client, outside>>
=============================================================================
