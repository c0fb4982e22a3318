------------------------------- MODULE Catalog -------------------------------
(***************************************************************************)
(* The RFC 2136 provider (providers/rfc2136) on the DNS update client and  *)
(* its host name catalog (pkg/dnsupdate): a zone that cannot be enumerated *)
(* is listed through numbered TXT records, the chunks, that hold the names *)
(* the provider has created. Every access to the name server is a step and *)
(* may fail, with or without effect. The reconciler is reduced to what it  *)
(* does with a listing: create what it wants and does not see, update what *)
(* it sees with another value, delete what it sees and does not want.      *)
(***************************************************************************)
EXTENDS Naturals, Sequences, FiniteSets

CONSTANTS Hosts, Vals, NoVal,
          ChunkSize,    \* names a chunk holds (CatalogChunkSize, or its byte limit)
          ReplySize,    \* names a reply has room for: 512 bytes over UDP, all over TCP
          MaxChunks,    \* bound: chunk records of the zone
          MaxFaults,    \* bound: failed requests and crashes
          MaxChanges    \* bound: changes of what is wanted

ASSUME CatalogAssumption == /\ ChunkSize \in Nat \ {0} /\ MaxChunks \in Nat \ {0}
                            /\ ReplySize \in Nat /\ MaxFaults \in Nat /\ MaxChanges \in Nat
                            /\ NoVal \notin Vals

VARIABLES zone,      \* data records of the zone: pairs <<host, value>>
          txt,       \* chunk records of the zone; an empty set: no such record
          chunks, hostnames, loaded,   \* the Catalog struct
          pc, job,   \* the provider call in progress
          todo,      \* names List has still to ask for
          view,      \* what the last listing returned
          work,      \* calls the reconciler makes on that listing
          wants,     \* the value wanted for each name, or NoVal
          faults, changes,
          stored     \* history: names whose Add succeeded with no Remove since

catalog == <<chunks, hostnames, loaded>>
driver == <<view, work, wants, changes>>
vars == <<zone, txt, chunks, hostnames, loaded, pc, job, todo, view, work, wants,
          faults, changes, stored>>

Index == 0..MaxChunks - 1
NoJob == [op |-> "none"]
ListJob == [op |-> "list"]
Jobs == [op : {"create", "delete"}, host : Hosts, val : Vals]
        \cup [op : {"update"}, host : Hosts, val : Vals, old : Vals]

(* The names in the chunk records of the zone.                             *)
Catalogued == UNION {txt[i] : i \in Index}

-----------------------------------------------------------------------------
(* exchangeWithContext and checkResponse: no reply, or an error code,      *)
(* whether or not the server has done what it was asked.                   *)
MayFail == faults < MaxFaults /\ faults' = faults + 1
Exchange(update, none, ok, fail) ==
  \/ update /\ ok /\ faults' = faults
  \/ (update \/ none) /\ fail /\ MayFail

(* Client.Create, Delete and Update: one message; Update removes and       *)
(* inserts in it.                                                          *)
InZone(new) == zone' = new /\ txt' = txt
Inserted(j) == InZone(zone \cup {<<j.host, j.val>>})
Removed(j) == InZone(zone \ {<<j.host, j.val>>})
Replaced(j) == InZone((zone \ {<<j.host, j.old>>}) \cup {<<j.host, j.val>>})
Same == InZone(zone)

(* writeChunk deletes the record and inserts the names, if there are any;  *)
(* deleteChunk deletes it.                                                 *)
WriteChunk(i, names) == txt' = [txt EXCEPT ![i] = names] /\ zone' = zone
DeleteChunk(i) == WriteChunk(i, {})

(* The end of a provider call.                                             *)
Done == /\ pc' = "idle" /\ job' = NoJob /\ todo' = {}
        /\ work' = work \ {job}

-----------------------------------------------------------------------------
(* Query of a chunk: NXDOMAIN and a reply without a record are the same to *)
(* it, and so is a truncated reply. A UDP query without EDNS0 gets at most *)
(* 512 bytes; the server leaves out a record that does not fit and sets a  *)
(* flag (TC) that nobody looks at.                                         *)
Answer(i) == IF Cardinality(txt[i]) > ReplySize THEN {} ELSE txt[i]

(* loadLocked: chunk 0, 1, ... until one is not answered. A failing query  *)
(* leaves what was read so far and loaded = FALSE.                         *)
StartLoad == chunks' = <<>> /\ hostnames' = {} /\ loaded' = FALSE
Loading == pc = "load"
At == Len(chunks)

QueryChunk ==
  /\ Loading /\ Same
  /\ \/ /\ At \in Index /\ Answer(At) # {}
        /\ chunks' = Append(chunks, Answer(At))
        /\ hostnames' = hostnames \cup Answer(At)
        /\ UNCHANGED <<loaded, pc, job, todo, work, faults>>
     \/ /\ At \in Index => Answer(At) = {}
        /\ loaded' = TRUE
        /\ pc' = CASE job.op = "list" -> "ask" [] job.op = "create" -> "add" [] OTHER -> "remove"
        /\ todo' = IF job.op = "list" THEN hostnames ELSE {}
        /\ UNCHANGED <<chunks, hostnames, job, work, faults>>
     \/ MayFail /\ Done /\ UNCHANGED catalog
  /\ UNCHANGED <<view, wants, changes, stored>>

(* canFitInChunk: the names of the instance have the same length, so the   *)
(* count stands for the bytes too. Fault: one name too many.              *)
CanFitInChunkLate(chunk) == Cardinality(chunk) <= ChunkSize
CanFitInChunk(chunk) == Cardinality(chunk) < ChunkSize

(* Add: the first chunk with room, else a new one. A failed write is taken *)
(* back in memory (a new chunk stays, empty) and is not an error of the    *)
(* call. Fault: no chunk is added.                                        *)
TargetChunkOrNone == LET fit == {i \in 1..Len(chunks) : CanFitInChunk(chunks[i])}
                     IN  IF fit = {} THEN 0 ELSE CHOOSE i \in fit : \A j \in fit : i <= j
TargetChunk ==
  LET fit == {i \in 1..Len(chunks) : CanFitInChunk(chunks[i])}
  IN  IF fit = {} THEN Len(chunks) + 1 ELSE CHOOSE i \in fit : \A j \in fit : i <= j

Padded(n) == IF n > Len(chunks) THEN Append(chunks, {}) ELSE chunks
Add ==
  /\ pc = "add" /\ Done
  /\ LET i    == TargetChunk
         more == [Padded(i) EXCEPT ![i] = @ \cup {job.host}]
     IN  IF job.host \in hostnames \/ i \notin 1..MaxChunks
         THEN /\ Same /\ UNCHANGED <<catalog, faults>>
              /\ stored' = stored \cup ({job.host} \cap hostnames)
         ELSE Exchange(WriteChunk(i - 1, more[i]), Same,
                       /\ chunks' = more /\ hostnames' = hostnames \cup {job.host}
                       /\ loaded' = loaded /\ stored' = stored \cup {job.host},
                       chunks' = Padded(i) /\ UNCHANGED <<hostnames, loaded, stored>>)
  /\ UNCHANGED <<view, wants, changes>>

(* Remove: the last chunk that holds the name; an empty one is deleted,    *)
(* and the chunks of the memory, not those of the zone, close up           *)
(* (reindexAfterDelete).                                                   *)
ChunkOf(h) == CHOOSE i \in 1..Len(chunks) :
                /\ h \in chunks[i]
                /\ \A j \in i + 1..Len(chunks) : h \notin chunks[j]
ReindexAfterDelete(i) == [k \in 1..Len(chunks) - 1 |-> chunks[IF k < i THEN k ELSE k + 1]]
(* Fault: the chunk is deleted although other names are left in it.        *)
RemoveChunk(i, rest) == TRUE
Emptied(i, rest) == rest = {} /\ i > 1

Remove ==
  /\ pc = "remove" /\ Done
  /\ stored' = stored \ {job.host}
  /\ IF job.host \notin hostnames
     THEN Same /\ UNCHANGED <<catalog, faults>>
     ELSE LET i    == ChunkOf(job.host)
              rest == chunks[i] \ {job.host}
          IN  /\ Exchange(IF Emptied(i, rest) THEN DeleteChunk(i - 1) ELSE WriteChunk(i - 1, rest),
                          Same,
                          IF Emptied(i, rest)
                          THEN /\ chunks' = ReindexAfterDelete(i)
                               /\ hostnames' = UNION {chunks[k] : k \in 1..Len(chunks) \ {i}}
                          ELSE /\ chunks' = [chunks EXCEPT ![i] = rest]
                               /\ hostnames' = hostnames \ {job.host},
                          UNCHANGED <<chunks, hostnames>>)
              /\ loaded' = loaded
  /\ UNCHANGED <<view, wants, changes>>

-----------------------------------------------------------------------------
(* Create and Delete: the record first, then the catalog; the failure of   *)
(* the catalog is logged. The catalog is loaded afresh (Add, Remove).      *)
CreateRecord ==
  /\ pc = "create"
  /\ Exchange(Inserted(job), Same,
              StartLoad /\ pc' = "load" /\ UNCHANGED <<job, todo, work>>,
              Done /\ UNCHANGED catalog)
  /\ UNCHANGED <<view, wants, changes, stored>>
DeleteRecord ==
  /\ pc = "delete"
  /\ Exchange(Removed(job), Same,
              StartLoad /\ pc' = "load" /\ UNCHANGED <<job, todo, work>>,
              Done /\ UNCHANGED catalog)
  /\ UNCHANGED <<view, wants, changes, stored>>

(* Update: the catalog has the name already.                               *)
UpdateRecord ==
  /\ pc = "update"
  /\ Exchange(Replaced(job), Same, Done, Done)
  /\ UNCHANGED <<catalog, view, wants, changes, stored>>

(* List: Hostnames, from memory when it is loaded, then the records of     *)
(* every name; a query that fails is skipped.                              *)
List ==
  /\ pc = "idle" /\ work = {}
  /\ job' = ListJob /\ view' = {}
  /\ \/ loaded /\ pc' = "ask" /\ todo' = hostnames /\ UNCHANGED catalog
     \/ ~loaded /\ pc' = "load" /\ todo' = {} /\ StartLoad
  /\ UNCHANGED <<zone, txt, work, wants, faults, changes, stored>>

QueryRecords(h) ==
  /\ pc = "ask" /\ h \in todo /\ Same
  /\ todo' = todo \ {h}
  /\ \/ view' = view \cup {r \in zone : r[1] = h} /\ faults' = faults
     \/ view' = view /\ MayFail
  /\ UNCHANGED <<catalog, pc, job, work, wants, changes, stored>>

(* What the reconciler makes of the listing (external to this module): the *)
(* cycle's calls, in any order.                                            *)
Plan(seen) ==
  LET of(h) == {r[2] : r \in {x \in seen : x[1] = h}}
  IN  {[op |-> "create", host |-> h, val |-> wants[h]] : h \in {x \in Hosts : wants[x] # NoVal /\ of(x) = {}}}
      \cup {[op |-> "update", host |-> h, val |-> wants[h], old |-> CHOOSE v \in of(h) : TRUE] :
              h \in {x \in Hosts : wants[x] # NoVal /\ of(x) # {} /\ wants[x] \notin of(x)}}
      \cup {[op |-> "delete", host |-> r[1], val |-> r[2]] : r \in {x \in seen : wants[x[1]] = NoVal}}

EndList ==
  /\ pc = "ask" /\ todo = {}
  /\ pc' = "idle" /\ job' = NoJob
  /\ work' = Plan(view)
  /\ UNCHANGED <<zone, txt, catalog, todo, view, wants, faults, changes, stored>>

Call(j) ==
  /\ pc = "idle" /\ j \in work
  /\ pc' = j.op /\ job' = j
  /\ UNCHANGED <<zone, txt, catalog, todo, view, work, wants, faults, changes, stored>>

(* The process ends and starts again: NewCatalog.                          *)
Restart ==
  /\ pc # "idle" /\ MayFail
  /\ StartLoad /\ pc' = "idle" /\ job' = NoJob /\ todo' = {} /\ work' = {}
  /\ stored' = IF job.op = "delete" THEN stored \ {job.host} ELSE stored
  /\ UNCHANGED <<zone, txt, view, wants, changes>>

(* What is wanted changes, between two cycles.                             *)
Change(h, v) ==
  /\ changes < MaxChanges /\ v # wants[h] /\ pc = "idle" /\ work = {}
  /\ wants' = [wants EXCEPT ![h] = v]
  /\ changes' = changes + 1
  /\ UNCHANGED <<zone, txt, catalog, pc, job, todo, view, work, faults, stored>>

Init ==
  /\ zone = {} /\ txt = [i \in Index |-> {}]
  /\ chunks = <<>> /\ hostnames = {} /\ loaded = FALSE
  /\ pc = "idle" /\ job = NoJob /\ todo = {} /\ view = {} /\ work = {}
  /\ wants \in [Hosts -> Vals \cup {NoVal}]
  /\ faults = 0 /\ changes = 0 /\ stored = {}

Provider == \/ QueryChunk \/ Add \/ Remove \/ CreateRecord \/ DeleteRecord \/ UpdateRecord
            \/ List \/ (\E h \in Hosts : QueryRecords(h)) \/ EndList
            \/ (\E j \in Jobs : Call(j))
Next == Provider \/ Restart \/ (\E h \in Hosts, v \in Vals \cup {NoVal} : Change(h, v))

(* The provider's calls are made by the reconciler's loop, which goes on.  *)
Spec == Init /\ [][Next]_vars /\ WF_vars(Provider)

-----------------------------------------------------------------------------
(* Type invariant; no chunk record ever holds more names than a message    *)
(* can carry (canFitInChunk).                                              *)
TypeOK ==
  /\ zone \subseteq Hosts \X Vals
  /\ txt \in [Index -> SUBSET Hosts] /\ \A i \in Index : Cardinality(txt[i]) <= ChunkSize
  /\ chunks \in Seq(SUBSET Hosts) /\ Len(chunks) <= MaxChunks
  /\ hostnames \subseteq Hosts /\ loaded \in BOOLEAN
  /\ pc \in {"idle", "load", "add", "remove", "create", "delete", "update", "ask"}
  /\ job \in Jobs \cup {NoJob, ListJob} /\ (pc = "idle") <=> (job = NoJob)
  /\ todo \subseteq Hosts /\ view \subseteq Hosts \X Vals /\ work \subseteq Jobs
  /\ wants \in [Hosts -> Vals \cup {NoVal}]
  /\ faults \in 0..MaxFaults /\ changes \in 0..MaxChanges /\ stored \subseteq Hosts

(* A full chunk fits a reply: USE_TCP, or limits within 512 bytes. Nothing *)
(* in the program sees to it.                                              *)
WholeReplies == ChunkSize <= ReplySize

(* A name whose Add succeeded is in some chunk record until its Remove is  *)
(* attempted: no write for another name, no failed or repeated write, no   *)
(* gap between chunks and no restart ever drops it (Add and Remove rewrite *)
(* whole chunks they have read before). Without WholeReplies it fails: Add *)
(* takes a chunk that does not fit the reply for the end of the catalog    *)
(* and writes a new one over it.                                           *)
NamesStored == \A h \in stored : h \in Catalogued

(* When changes and failures end, every listing the reconciler works on    *)
(* finally shows each wanted name with the wanted value: names that a      *)
(* failed Add, a failed query or a gap in the chunks hides are created and *)
(* catalogued again. It too needs WholeReplies: a chunk that does not fit  *)
(* the reply hides its names from every listing.                           *)
Shown == \A h \in Hosts : wants[h] # NoVal => <<h, wants[h]>> \in view
WantedListed == <>[](pc = "idle" => Shown)

(* "List returns all managed records in the zone." Not so: a gap hides the *)
(* chunks after it.                                                        *)
ListsAllManaged ==
  [][pc = "ask" /\ pc' = "idle" /\ faults = 0 => zone \subseteq view]_vars
=============================================================================
