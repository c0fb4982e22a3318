------------------------------ MODULE Technitium ------------------------------
(***************************************************************************)
(* The Technitium provider (providers/technitium): records are addressed by*)
(* their value. With companion records on, an address or CNAME record has  *)
(* an HTTPS record beside it, whose requests may fail without failing the  *)
(* call.                                                                   *)
(***************************************************************************)
EXTENDS ProviderCall

TechnitiumCapabilities == [types |-> Types, stores |-> Types, update |-> TRUE]

CompanionKey == Key(call.rec.name, "HTTPS", "companion")
NeedsCompanion == Companion /\ call.rec.type \in {"A", "AAAA", "CNAME"}

(* doRequest: an error reply is told apart by its text.                    *)
TechnitiumRefusal(k) ==
  IF RowsAt(k) # {} THEN "conflict" ELSE IF Clash(k) THEN "typeConflict" ELSE "error"
TechnitiumRequest(new, ok) == Write(new, ok, Return("error"))

(* AddARecord and its siblings, AddTXTRecord, AddSRVRecord.                *)
TechnitiumAdd(next) ==
  IF RowsAt(call.rec) # {} \/ Clash(call.rec) \/ Full
  THEN Answer(Return(TechnitiumRefusal(call.rec)))
  ELSE TechnitiumRequest(Accept(call.rec, "on"), next)

(* DeleteARecord and its siblings: an absent record is an error reply.     *)
TechnitiumRemove(k, next) ==
  IF RowsAt(k) = {} THEN Answer(Return("error"))
  ELSE TechnitiumRequest(rows \ RowsAt(k), next)

(* ListZoneRecords, one request, and List.                                 *)
ListZoneRecords(next) == TechnitiumRequest(rows, next)
TechnitiumList == pc = "list" /\ ListZoneRecords(ReturnWith("ok", Listing(rows)))

Finish(p) == IF NeedsCompanion THEN Goto(p) ELSE Return("ok")

TechnitiumCreate == pc = "create" /\ TechnitiumAdd(Finish("companionCheck"))

(* createCompanionHTTPS: its errors are logged, and a failing check        *)
(* (GetRecords, hasHTTPSRecord) counts as "do not create".                  *)
HasHTTPSRecord == \E r \in rows : r.name = call.rec.name /\ r.type = "HTTPS"
CompanionRequest(new) == Write(new, Return("ok"), Return("ok"))
CreateCompanionHTTPS ==
  \/ pc = "companionCheck" /\ Answer(Return("ok"))
  \/ pc = "companionCheck" /\ ~HasHTTPSRecord /\ Answer(Goto("companionAdd"))
  \/ /\ pc = "companionAdd"
     /\ CompanionRequest(IF Full \/ RowsAt(CompanionKey) # {} THEN rows ELSE Accept(CompanionKey, "on"))

TechnitiumDelete == pc = "delete" /\ TechnitiumRemove(call.rec, Finish("companionDelete"))

(* deleteCompanionHTTPS: it goes with any address record of the name, its  *)
(* errors are logged.                                                      *)
DeleteCompanionHTTPS ==
  /\ pc = "companionDelete"
  /\ CompanionRequest(rows \ RowsAt(CompanionKey))

(* UpdateARecord, UpdateAAAARecord: by the old value; UpdateCNAMERecord    *)
(* does not send it.                                                       *)
TechnitiumReplace ==
  LET old == IF call.rec.type = "CNAME" THEN CallRows ELSE RowsAt(call.old)
  IN  IF old = {} THEN Answer(Return("error"))
      ELSE TechnitiumRequest((rows \ old) \cup {Row(call.rec, 0, "on")}, Return("ok"))

(* Update: native for addresses and CNAMEs, a deletion and an addition for *)
(* SRV and TXT.                                                            *)
TechnitiumUpdate ==
  \/ pc = "update" /\ call.rec.type \in {"A", "AAAA", "CNAME"} /\ TechnitiumReplace
  \/ /\ pc = "update" /\ call.rec.type \in {"SRV", "TXT"}
     /\ TechnitiumRemove(call.old, Goto("add"))
  \/ pc = "add" /\ TechnitiumAdd(Return("ok"))

TechnitiumNext ==
  /\ kind = "technitium" /\ call # NoCall
  /\ TechnitiumList \/ TechnitiumCreate \/ CreateCompanionHTTPS \/ TechnitiumDelete
       \/ DeleteCompanionHTTPS \/ TechnitiumUpdate
  /\ UNCHANGED <<kind, served, client, outside>>
=============================================================================
