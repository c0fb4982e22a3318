------------------------------- MODULE Dnsmasq -------------------------------
(***************************************************************************)
(* The dnsmasq provider (providers/dnsmasq), also Pi-hole in file mode: the*)
(* records are lines of a file that a call reads, changes and writes back, *)
(* locally or over SFTP, followed by a reload command whose failure is     *)
(* logged. The client's mutex keeps calls of this process apart.           *)
(***************************************************************************)
EXTENDS ProviderCall

DnsmasqCapabilities ==
  LET t == Types \cap {"A", "CNAME"} IN [types |-> t, stores |-> t, update |-> FALSE]

(* parseConfigContent: the file's lines as records (other lines are kept). *)
ParseConfigContent == Listing(rows)
ClientList == Read(ReturnWith("ok", ParseConfigContent), Return("error"))
DnsmasqList == pc = "list" /\ served' = served /\ ClientList

(* strings.Contains: the new line is looked for as text of the file, so a  *)
(* record whose target merely starts with the new target matches as well.  *)
HasLine(k) == \E r \in rows : /\ r.name = k.name /\ r.type = k.type
                              /\ r.val = k.val \/ <<k.val, r.val>> \in Prefixes

(* WriteFile truncates and writes: when it fails the file may hold a part. *)
(* sshTransport.do repeats it once over a new connection.                  *)
WriteFile(new) == \/ rows' = new /\ Goto("reload")
                  \/ rows' \in {new} \cup SUBSET rows /\ Return("error")

(* Client.Create and Client.Delete read the file and write all of it back. *)
ClientCreate ==
  \/ /\ pc = "create"
     /\ Read(IF HasLine(call.rec) THEN Goto("reload") ELSE GotoWith("write", rows, {}), Return("error"))
  \/ /\ pc = "write" /\ call.op = "create"
     /\ IF Full THEN Answer(Return("error")) ELSE WriteFile(found \cup {Row(call.rec, 0, "on")})
ClientDelete ==
  \/ /\ pc = "delete"
     /\ Read(IF RowsAt(call.rec) = {} THEN Goto("reload") ELSE GotoWith("write", rows, {}), Return("error"))
  \/ pc = "write" /\ call.op = "delete" /\ WriteFile({r \in found : KeyOf(r) # call.rec})

(* Reload after Create and Delete, whether or not the file changed: a      *)
(* failing command is logged and the call succeeds.                        *)
DnsmasqReload ==
  /\ pc = "reload"
  /\ Answer(Return("ok"))
  /\ served' \in {served, {KeyOf(r) : r \in rows}}
DnsmasqCreate == (ClientCreate /\ served' = served) \/ (call.op = "create" /\ DnsmasqReload)
DnsmasqDelete == (ClientDelete /\ served' = served) \/ (call.op = "delete" /\ DnsmasqReload)

DnsmasqNext ==
  /\ kind = "dnsmasq" /\ call # NoCall
  /\ DnsmasqList \/ DnsmasqCreate \/ DnsmasqDelete
  /\ UNCHANGED <<kind, client, outside>>
=============================================================================
