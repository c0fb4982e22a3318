------------------------------- MODULE PowerDNS -------------------------------
(***************************************************************************)
(* The PowerDNS provider (providers/powerdns): the API replaces whole      *)
(* record sets, so a call reads the set, changes one record of it and      *)
(* writes the set back; the other records, disabled ones included, are     *)
(* written back as they were read.                                         *)
(***************************************************************************)
EXTENDS ProviderCall

PowerDNSCapabilities == [types |-> Types, stores |-> Types, update |-> TRUE]

(* doRequest and mapError                                                   *)
PowerDNSRequest(new, ok) == Write(new, ok, Return("error"))

(* PatchRRsets with REPLACE (or DELETE for an empty set) of the call's set. *)
PatchRRset(set) ==
  IF Clash(call.rec) /\ set # {} THEN Answer(Return("error"))
  ELSE PowerDNSRequest((rows \ CallRows) \cup set, Return("ok"))

Active(k) == Row(k, 0, "on")
Having(k) == {r \in found : KeyOf(r) = k}

(* GetZone, the whole zone, and List.                                      *)
GetZone(next) == PowerDNSRequest(rows, next)
PowerDNSList == pc = "list" /\ GetZone(ReturnWith("ok", Listing(rows)))

(* currentRRset, the first request of every change.                        *)
CurrentRRset ==
  /\ pc \in {"create", "delete", "update"}
  /\ GetZone(CASE pc = "create" /\ Active(call.rec) \in rows -> Return("ok")
               [] pc = "delete" /\ RowsAt(call.rec) = {} -> Return("ok")
               [] pc = "update" /\ RowsAt(call.old) = {} -> Return("notFound")
               [] OTHER -> GotoWith("patch", CallRows, {}))

(* Create appends the record or enables it. Fault: it replaces the set.   *)
PowerDNSCreateSet == /\ pc = "patch" /\ call.op = "create"
                     /\ PatchRRset({Active(call.rec)})
PowerDNSCreate ==
  /\ pc = "patch" /\ call.op = "create"
  /\ PatchRRset((found \ Having(call.rec)) \cup {Active(call.rec)})

PowerDNSDelete ==
  /\ pc = "patch" /\ call.op = "delete"
  /\ PatchRRset(found \ Having(call.rec))

(* Update puts the desired record in the place of both.                    *)
PowerDNSUpdate ==
  /\ pc = "patch" /\ call.op = "update"
  /\ PatchRRset((found \ (Having(call.old) \cup Having(call.rec))) \cup {Active(call.rec)})

PowerDNSNext ==
  /\ kind = "powerdns" /\ call # NoCall
  /\ PowerDNSList \/ CurrentRRset \/ PowerDNSCreate \/ PowerDNSDelete \/ PowerDNSUpdate
  /\ UNCHANGED <<kind, served, client, outside>>
=============================================================================
