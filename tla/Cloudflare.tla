------------------------------ MODULE Cloudflare ------------------------------
(***************************************************************************)
(* The Cloudflare provider (providers/cloudflare). A record is addressed by*)
(* its id, which is looked up by type and name before a deletion or an     *)
(* update; the record's value plays no part in the lookup.                 *)
(***************************************************************************)
EXTENDS ProviderCall

CloudflareCapabilities == [types |-> Types, stores |-> Types, update |-> TRUE]

(* doRequest: whatever goes wrong with a request is an error of the call.  *)
CloudflareRequest(new, ok) == Write(new, ok, Return("error"))

(* GetZoneID asks for the domain and then for its parents; an error reply  *)
(* is taken as "not this one", so a lasting failure ends as "no zone".      *)
CloudflareGetZoneID == {"known", "failed"}

(* ZoneID: a sync.Once keeps the first outcome, error included.            *)
CloudflareZoneID ==
  /\ pc = "lookup"
  /\ once' \in IF once = "unknown" THEN CloudflareGetZoneID ELSE {once}
  /\ Answer(IF once' = "known" THEN Goto(call.op) ELSE Return("error"))

(* ListRecords asks for the first page only.                               *)
FirstPage(t) == LET all == {r \in rows : r.type = t}
                IN  {s \in SUBSET all : Cardinality(s) = Min({PageSize, Cardinality(all)})}

(* List: one request per type.                                             *)
CloudflareList ==
  /\ \/ pc = "list" /\ Answer(GotoWith("listType", {}, AllTypes))
     \/ /\ pc = "listType"
        /\ \E page \in FirstPage(NextItem.type) :
             CloudflareRequest(rows,
               IF todo = {NextItem} THEN ReturnWith("ok", Listing(found \cup page))
               ELSE GotoWith("listType", found \cup page, todo \ {NextItem}))
  /\ once' = once

(* CreateRecord and CreateSRVRecord: the API rejects a duplicate and a     *)
(* CNAME beside other records, by an error code.                           *)
CloudflarePost(k) ==
  IF RowsAt(k) # {} THEN Answer(Return("conflict"))
  ELSE IF Clash(k)  THEN Answer(Return("typeConflict"))
  ELSE IF Full      THEN Answer(Return("error"))
  ELSE CloudflareRequest(Accept(k, "on"), Return("ok"))

CloudflareCreate == pc = "create" /\ CloudflarePost(call.rec) /\ once' = once

(* FindRecord: the first record of the type and name.                      *)
CloudflareFind(missing, next) ==
  IF CallRows = {} THEN CloudflareRequest(rows, Return(missing))
  ELSE \E r \in CallRows : CloudflareRequest(rows, GotoWith(next, {r}, {}))

(* DeleteRecord, UpdateRecord: by id.                                      *)
CloudflareDeleteById(ok) ==
  IF found \subseteq rows THEN CloudflareRequest(rows \ found, ok)
  ELSE Answer(Return("error"))
CloudflarePatch ==
  IF ~(found \subseteq rows) \/ RowsAt(call.rec) # {} THEN Answer(Return("error"))
  ELSE CloudflareRequest((rows \ found) \cup {Row(call.rec, r.id, "on") : r \in found}, Return("ok"))

(* Delete *)
CloudflareDelete ==
  /\ \/ pc = "delete" /\ CloudflareFind("ok", "deleteId")
     \/ pc = "deleteId" /\ CloudflareDeleteById(Return("ok"))
  /\ once' = once

(* Update: PATCH by id, for SRV records a deletion and a creation.         *)
CloudflareUpdate ==
  /\ \/ /\ pc = "update"
        /\ CloudflareFind("notFound", IF call.rec.type = "SRV" THEN "srvDelete" ELSE "patch")
     \/ pc = "patch" /\ CloudflarePatch
     \/ pc = "srvDelete" /\ CloudflareDeleteById(Goto("srvCreate"))
     \/ pc = "srvCreate" /\ CloudflarePost(call.rec)
  /\ once' = once

CloudflareNext ==
  /\ kind = "cloudflare" /\ call # NoCall
  /\ CloudflareZoneID \/ CloudflareList \/ CloudflareCreate \/ CloudflareDelete \/ CloudflareUpdate
  /\ UNCHANGED <<kind, served, session, outside>>
=============================================================================
