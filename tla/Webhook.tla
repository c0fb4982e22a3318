------------------------------- MODULE Webhook -------------------------------
(***************************************************************************)
(* The webhook provider (providers/webhook): one request per call to a     *)
(* service of the operator's, repeated by doRequest after a network error  *)
(* or a status that allows it, whether or not the lost request took effect.*)
(***************************************************************************)
EXTENDS ProviderCall

WebhookCapabilities == [types |-> Types, stores |-> Types, update |-> TRUE]

(* doRequest: an attempt that may be repeated ends the call only when no   *)
(* attempt is left; a deletion is the only request that takes 404 as ok.   *)
Retry == /\ tries' = tries + 1
         /\ UNCHANGED <<call, pc, result, listed, found, todo>>
(* Fault: the attempts are not counted.                                    *)
DoRequestForever(new, ok) == \/ rows' = new /\ ok
                             \/ rows' \in {rows, new} /\ Retry
DoRequest(new, ok) ==
  \/ rows' = new /\ ok
  \/ rows' \in {rows, new} /\ tries < Retries /\ Retry
  \/ rows' \in {rows, new} /\ Return("error")

(* client.List; Create and CreateSRV: the service may take a record it has *)
(* already, or answer with a status the client reports as an error; Delete *)
(* names the host and the type, and the service removes the set; Update    *)
(* and UpdateSRV name the old and the new value, and a repeated request    *)
(* does not find the old value any more.                                   *)
ServiceList == DoRequest(rows, ReturnWith("ok", Listing(rows)))
ServiceCreate(k) ==
  IF Full \/ Clash(k) THEN DoRequest(rows, Return("error"))
  ELSE DoRequest(IF RowsAt(k) # {} THEN rows ELSE Accept(k, "on"), Return("ok"))
ServiceDelete == DoRequest(rows \ CallRows, Return("ok"))
ServiceUpdate(old, new) ==
  IF RowsAt(old) = {} THEN DoRequest(rows, Return("error"))
  ELSE DoRequest((rows \ RowsAt(old)) \cup {Row(new, 0, "on")}, Return("ok"))

WebhookList == pc = "list" /\ ServiceList
WebhookCreate == pc = "create" /\ ServiceCreate(call.rec)
WebhookDelete == pc = "delete" /\ ServiceDelete
WebhookUpdate == pc = "update" /\ ServiceUpdate(call.old, call.rec)

WebhookNext ==
  /\ kind = "webhook" /\ call # NoCall
  /\ WebhookList \/ WebhookCreate \/ WebhookDelete \/ WebhookUpdate
  /\ UNCHANGED <<kind, served, client, outside>>
=============================================================================
