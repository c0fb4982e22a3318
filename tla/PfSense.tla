-------------------------------- MODULE PfSense --------------------------------
(***************************************************************************)
(* The pfSense provider (providers/pfsense): host overrides, one per name, *)
(* each with a list of addresses, a description that marks its owner, and  *)
(* an id that is its position in the configuration array. The rows of a    *)
(* name are its override: they share position and description. Kind        *)
(* pfsense is the resolver (Unbound), pfsenseForwarder the forwarder, whose*)
(* overrides hold one address.                                             *)
(***************************************************************************)
EXTENDS ProviderCall

PfSenseCapabilities ==
  LET t == Types \cap {"A", "AAAA"} IN [types |-> t, stores |-> t, update |-> FALSE]

(* The two resources of engine.go.                                         *)
MultiIP == kind = "pfsense"

(* isOwnedBy: any dnsweaver instance; ownedByInstance: this one.           *)
(* Fault: every override passes.                                           *)
IsOwnedByAnyone(s) == TRUE
IsOwnedBy(s) == \A r \in s : r.tag \in {"me", "peer"}
OwnedByInstance(s) == \A r \in s : r.tag = "me"

(* containsIP, withoutIP *)
ContainsIP(s, v) == \E r \in s : r.val = v
WithoutIP(s, v) == {r \in s : r.val # v}

(* client.do and mapStatusError                                            *)
PfSenseRequest(new, ok) == Write(new, ok, Return("error"))

(* client.list, List and findOverride: the overrides of every dnsweaver    *)
(* instance are listed; a change looks for the override of its name.       *)
PfSenseRows(next) == PfSenseRequest(rows, next)
PfSenseList == pc = "list" /\ PfSenseRows(ReturnWith("ok", Listing(rows))) /\ served' = served
FindOverride == {r \in rows : r.name = call.rec.name}

(* client.create, and client.update and client.remove, which work on the   *)
(* element at the position that was read, whatever is there now.           *)
At(s) == {r \in rows : \E x \in s : x.id = r.id}
PfSensePost ==
  IF Full \/ FindOverride # {} THEN Answer(Return("error"))
  ELSE PfSenseRequest(Accept(call.rec, "me"), Goto("apply"))
PfSensePatch ==
  IF At(found) = {} THEN Answer(Return("notFound"))
  ELSE PfSenseRequest((rows \ At(found)) \cup found, Goto("apply"))
PfSenseRemove ==
  IF At(found) = {} THEN Answer(Return("notFound"))
  ELSE PfSenseRequest(Renumbered(rows \ At(found)), Goto("apply"))

(* Create adds the address to the override of the name, which it then owns,*)
(* or makes one.                                                           *)
PfSenseCreate ==
  /\ served' = served
  /\ \/ /\ pc = "create"
        /\ PfSenseRows(
             IF FindOverride = {} THEN Goto("post")
             ELSE IF ~IsOwnedBy(FindOverride) THEN Return("error")
             ELSE IF ContainsIP(FindOverride, call.rec.val) THEN Return("ok")
             ELSE IF ~MultiIP THEN Return("error")
             ELSE GotoWith("patch", {[r EXCEPT !.tag = "me"] : r \in FindOverride}
                                      \cup {Row(call.rec, PositionOf(Target), "me")}, {}))
     \/ pc = "post" /\ PfSensePost
     \/ pc = "patch" /\ call.op = "create" /\ PfSensePatch

(* Delete takes the address out of an override this instance owns.         *)
PfSenseDelete ==
  /\ served' = served
  /\ \/ /\ pc = "delete"
        /\ LET rest == WithoutIP(FindOverride, call.rec.val)
           IN  PfSenseRows(
             IF FindOverride = {} \/ ~OwnedByInstance(FindOverride) THEN Return("notFound")
             ELSE IF ~ContainsIP(FindOverride, call.rec.val) THEN Return("notFound")
             ELSE IF MultiIP /\ rest # {} THEN GotoWith("patch", rest, {})
             ELSE GotoWith("remove", FindOverride, {}))
     \/ pc = "patch" /\ call.op = "delete" /\ PfSensePatch
     \/ pc = "remove" /\ PfSenseRemove

(* maybeApply: a failure is the call's, after the change was stored.       *)
(* Fault: it is dropped.                                                   *)
MaybeApplyQuietly == /\ pc = "apply" /\ Answer(Return("ok"))
                     /\ served' \in {served, {KeyOf(r) : r \in rows}}
MaybeApply ==
  /\ pc = "apply"
  /\ \/ ~PerWrite /\ Answer(Return("ok")) /\ served' = served
     \/ PerWrite /\ Answer(Return("ok")) /\ served' = {KeyOf(r) : r \in rows}
     \/ PerWrite /\ Answer(Return("error")) /\ served' \in {served, {KeyOf(r) : r \in rows}}

PfSenseNext ==
  /\ kind \in {"pfsense", "pfsenseForwarder"} /\ call # NoCall
  /\ PfSenseList \/ PfSenseCreate \/ PfSenseDelete \/ MaybeApply
  /\ UNCHANGED <<kind, client, outside>>
=============================================================================
