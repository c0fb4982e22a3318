--------------------------------- MODULE OVH ---------------------------------
(***************************************************************************)
(* The OVH provider (providers/ovh): records have ids, a change of the zone*)
(* takes effect with RefreshZone, requests are signed with the time delta  *)
(* that the first request fetched.                                         *)
(***************************************************************************)
EXTENDS ProviderCall

OvhCapabilities == [types |-> Types, stores |-> Types, update |-> TRUE]

(* getTimeDelta: a sync.Once keeps the first outcome, error included.      *)
OvhTimeDelta ==
  /\ pc = "lookup"
  /\ once' \in IF once = "unknown" THEN {"known", "failed"} ELSE {once}
  /\ Answer(IF once' = "known" THEN Goto(call.op) ELSE Return("error"))

(* doRequest: every status outside 200 to 299 is an error, without a kind. *)
OvhRequest(new, ok) == Write(new, ok, Return("error"))

(* ListRecordIDs: an empty subdomain, the zone's own name, is no filter.   *)
OvhIds(k) == {r \in rows : r.type = k.type /\ (Apex \/ r.name = k.name)}

(* GetRecord of a listing: an id that is gone by then fails the listing.   *)
OvhGetRecord ==
  LET got == {r \in rows : r.id = NextItem.id /\ r.type = NextItem.type}
  IN  IF got = {} THEN Answer(Return("error"))
      ELSE OvhRequest(rows, GotoWith("listNext", found \cup got, todo \ {NextItem}))

(* List: the ids of each type, then every record by its id.                *)
OvhList ==
  /\ \/ pc = "list" /\ Answer(GotoWith("listNext", {}, AllTypes))
     \/ /\ pc = "listNext" /\ todo # {} /\ NextItem.id = 0
        /\ OvhRequest(rows, GotoWith("listNext", found,
             (todo \ {NextItem}) \cup
               {Item(r.type, r.id) : r \in {x \in rows : x.type = NextItem.type}}))
     \/ pc = "listNext" /\ todo # {} /\ NextItem.id # 0 /\ OvhGetRecord
     \/ pc = "listNext" /\ todo = {} /\ Answer(ReturnWith("ok", Listing(found)))
  /\ once' = once

(* findRecord: the only id, whatever it holds; of several the one with the *)
(* wanted target, else the first.                                          *)
OvhChoices(k) ==
  LET wanted == {r \in found : r.val = k.val}
  IN  IF Cardinality(found) = 1 \/ wanted = {} THEN found ELSE wanted
OvhFindRecord(k, missing, next) ==
  \/ /\ pc = call.op
     /\ OvhRequest(rows, IF OvhIds(k) = {} THEN Return(missing) ELSE GotoWith("get", OvhIds(k), {}))
  \/ /\ pc = "get"
     /\ \/ \E r \in OvhChoices(k) \cap rows : Answer(GotoWith(next, {r}, {}))
        \/ Answer(Return("error"))

(* RefreshZone: its failure is the call's, after the change was made.      *)
OvhRefresh == pc = "refresh" /\ OvhRequest(rows, Return("ok")) /\ once' = once

(* CreateRecord: the API may take a second record with the same content.   *)
OvhPost(k) ==
  IF Full \/ Clash(k) THEN Answer(Return("error"))
  ELSE OvhRequest(Accept(k, "on"), Goto("refresh"))

OvhCreate == pc = "create" /\ OvhPost(call.rec) /\ once' = once

(* DeleteRecord and UpdateRecord: by id.                                   *)
OvhDeleteById == IF found \subseteq rows THEN OvhRequest(rows \ found, Goto("refresh"))
                 ELSE Answer(Return("error"))
OvhPut(k) ==
  IF found \subseteq rows
  THEN OvhRequest((rows \ found) \cup {Row(k, r.id, "on") : r \in found}, Goto("refresh"))
  ELSE Answer(Return("error"))

OvhDelete ==
  /\ call.op = "delete" /\ once' = once
  /\ OvhFindRecord(call.rec, "ok", "deleteId") \/ (pc = "deleteId" /\ OvhDeleteById)

OvhUpdate ==
  /\ call.op = "update" /\ once' = once
  /\ OvhFindRecord(call.old, "notFound", "put") \/ (pc = "put" /\ OvhPut(call.rec))

OvhNext ==
  /\ kind = "ovh" /\ call # NoCall
  /\ OvhTimeDelta \/ OvhList \/ OvhCreate \/ OvhDelete \/ OvhUpdate \/ OvhRefresh
  /\ UNCHANGED <<kind, served, session, outside>>
=============================================================================
