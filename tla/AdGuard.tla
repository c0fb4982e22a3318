------------------------------- MODULE AdGuard -------------------------------
(***************************************************************************)
(* The AdGuard Home provider (providers/adguard): rewrite entries, pairs of*)
(* a domain and an answer, changed by one request each. The type of a      *)
(* record is read off its answer.                                          *)
(***************************************************************************)
EXTENDS ProviderCall

AdGuardCapabilities ==
  LET t == Types \cap {"A", "AAAA", "CNAME"} IN [types |-> t, stores |-> t, update |-> TRUE]

(* doRequest *)
AdGuardRequest(new, ok) == Write(new, ok, Return("error"))

(* client.List, Create, Delete, Update: one request each. A deletion of an *)
(* entry that is not there succeeds, an update of one does not.            *)
RewriteList == AdGuardRequest(rows, ReturnWith("ok", Listing(rows)))
RewriteAdd(k) == IF Full THEN Answer(Return("error"))
                 ELSE AdGuardRequest(rows \cup {Row(k, 0, "on")}, Return("ok"))
RewriteDelete(k) == AdGuardRequest(rows \ RowsAt(k), Return("ok"))
RewriteUpdate(old, new) ==
  IF RowsAt(old) = {} THEN Answer(Return("error"))
  ELSE AdGuardRequest((rows \ RowsAt(old)) \cup {Row(new, 0, "on")}, Return("ok"))

(* List omits disabled entries and answers of no known type (Listing).     *)
AdGuardList == pc = "list" /\ RewriteList
AdGuardCreate == pc = "create" /\ RewriteAdd(call.rec)
AdGuardDelete == pc = "delete" /\ RewriteDelete(call.rec)
AdGuardUpdate == pc = "update" /\ RewriteUpdate(call.old, call.rec)

AdGuardNext ==
  /\ kind = "adguard" /\ call # NoCall
  /\ AdGuardList \/ AdGuardCreate \/ AdGuardDelete \/ AdGuardUpdate
  /\ UNCHANGED <<kind, served, client, outside>>
=============================================================================
