--------------------------- MODULE CatalogProofs ---------------------------
(***************************************************************************)
(* Proofs about Catalog, for any names and values, any chunk size and any  *)
(* number of chunks, failures, restarts and changes.                       *)
(***************************************************************************)
EXTENDS Catalog, FiniteSetTheorems, SequenceTheorems, WellFoundedInduction, TLAPS

USE DEF catalog, driver

-----------------------------------------------------------------------------
(* Facts about numbers: the first and the last member of a set of indices. *)

LEMMA LeastIndex ==
    ASSUME NEW S \in SUBSET Nat, S # {}
    PROVE  \E i \in S : \A j \in S : i <= j
<1>. DEFINE R == OpToRel(<, Nat)
<1>1. IsWellFoundedOn(R, Nat)
  BY NatLessThanWellFounded
<1>2. \A x, y \in Nat : <<x, y>> \in R <=> x < y
  BY DEF OpToRel
<1>. HIDE DEF R
<1>3. PICK i \in S : \A j \in S : ~(<<j, i>> \in R)
  BY <1>1, WFMin, Zenon
<1>4. ASSUME NEW j \in S PROVE i <= j
  <2>1. i \in Nat /\ j \in Nat
    OBVIOUS
  <2>2. ~(j < i)
    BY <1>2, <1>3, <2>1
  <2>. QED BY <2>1, <2>2
<1>. QED BY <1>4

LEMMA GreatestIndex ==
    ASSUME NEW n \in Nat, NEW S \in SUBSET (1..n), S # {}
    PROVE  \E i \in S : \A j \in S : j <= i
<1>. DEFINE T == {n - j : j \in S}
<1>1. T \in SUBSET Nat
  OBVIOUS
<1>2. T # {}
  OBVIOUS
<1>3. PICK t \in T : \A u \in T : t <= u
  BY <1>1, <1>2, LeastIndex, Zenon
<1>4. PICK i \in S : t = n - i
  BY <1>3
<1>5. ASSUME NEW j \in S PROVE j <= i
  <2>1. t <= n - j
    BY <1>3
  <2>. QED BY <1>4, <2>1
<1>. QED BY <1>5

-----------------------------------------------------------------------------
(* The invariant. *)

ZoneInv ==
    /\ zone \subseteq Hosts \X Vals
    /\ txt \in [Index -> SUBSET Hosts]
    /\ \A i \in Index : IsFiniteSet(txt[i]) /\ Cardinality(txt[i]) <= ChunkSize

MemoryInv ==
    /\ chunks \in Seq(SUBSET Hosts) /\ Len(chunks) <= MaxChunks
    /\ hostnames \subseteq Hosts /\ loaded \in BOOLEAN

\* The call in progress and the step it is at.
CallInv ==
    /\ pc \in {"idle", "load", "add", "remove", "create", "delete", "update", "ask"}
    /\ pc = "idle" => job = NoJob
    /\ pc \in {"create", "add"} => job \in Jobs /\ job.op = "create"
    /\ pc \in {"delete", "remove"} => job \in Jobs /\ job.op = "delete"
    /\ pc = "update" => job \in Jobs /\ job.op = "update"
    /\ pc = "ask" => job = ListJob
    /\ pc = "load" => job = ListJob \/ (job \in Jobs /\ job.op \in {"create", "delete"})

DriverInv ==
    /\ todo \subseteq Hosts /\ view \subseteq Hosts \X Vals /\ work \subseteq Jobs
    /\ wants \in [Hosts -> Vals \cup {NoVal}]
    /\ faults \in 0..MaxFaults /\ changes \in 0..MaxChanges

\* While Add and Remove are under way the memory is what the zone holds, chunk by chunk,
\* as far as it was read; Add starts when the next chunk got no answer.
FreshInv ==
    /\ pc \in {"load", "add", "remove"} =>
          /\ \A k \in 1..Len(chunks) : chunks[k] = txt[k - 1]
          /\ \A h \in hostnames : \E k \in 1..Len(chunks) : h \in chunks[k]
    /\ pc = "add" /\ Len(chunks) \in Index => Answer(Len(chunks)) = {}

\* No name is lost where every chunk can be read back.
StoredInv == stored \subseteq Hosts /\ (WholeReplies => NamesStored)

Inv == ZoneInv /\ MemoryInv /\ CallInv /\ DriverInv /\ FreshInv /\ StoredInv

LEMMA JobFacts ==
    /\ NoJob \notin Jobs /\ ListJob \notin Jobs /\ NoJob # ListJob
    /\ \A j \in Jobs : /\ j.op \in {"create", "delete", "update"}
                       /\ j.host \in Hosts /\ j.val \in Vals
                       /\ j.op = "update" => j.old \in Vals
<1>1. ASSUME NEW j \in Jobs
      PROVE  /\ j.op \in {"create", "delete", "update"}
             /\ j.host \in Hosts /\ j.val \in Vals
             /\ j.op = "update" => j.old \in Vals
  BY DEF Jobs
<1>2. NoJob.op = "none" /\ ListJob.op = "list"
  BY DEF NoJob, ListJob
<1>. QED BY <1>1, <1>2

LEMMA Bounds == /\ ChunkSize \in Nat \ {0} /\ MaxChunks \in Nat \ {0}
                /\ MaxFaults \in Nat /\ MaxChanges \in Nat /\ NoVal \notin Vals
                /\ Index \subseteq Nat
                /\ \A i \in 1..MaxChunks : i - 1 \in Index
  BY CatalogAssumption DEF Index

\* A chunk record is answered as it is, or not at all; the latter only where it does not fit.
LEMMA AnswerFacts ==
    ASSUME ZoneInv, NEW i \in Index
    PROVE  /\ Answer(i) # {} => Answer(i) = txt[i]
           /\ WholeReplies => Answer(i) = txt[i]
<1>1. Cardinality(txt[i]) \in Nat /\ Cardinality(txt[i]) <= ChunkSize
  BY FS_CardinalityType DEF ZoneInv
<1>2. WholeReplies => ~(Cardinality(txt[i]) > ReplySize)
  BY <1>1, CatalogAssumption DEF WholeReplies
<1>. QED BY <1>2 DEF Answer

LEMMA InitInv == Init => Inv
<1>. SUFFICES ASSUME Init PROVE Inv
  OBVIOUS
<1>. USE DEF Init
<1>1. ZoneInv
  BY Bounds, FS_EmptySet DEF ZoneInv
<1>2. MemoryInv
  BY Bounds DEF MemoryInv
<1>3. CallInv
  BY DEF CallInv
<1>4. DriverInv
  BY Bounds DEF DriverInv
<1>5. FreshInv /\ StoredInv
  BY DEF FreshInv, StoredInv, NamesStored
<1>. QED BY <1>1, <1>2, <1>3, <1>4, <1>5 DEF Inv

-----------------------------------------------------------------------------
(* Requests and calls. *)

LEMMA FaultStep == ASSUME DriverInv, MayFail \/ faults' = faults PROVE faults' \in 0..MaxFaults
  BY Bounds DEF DriverInv, MayFail

\* The end of a call.
LEMMA DoneStep ==
    ASSUME CallInv, DriverInv, Done, MayFail \/ faults' = faults, UNCHANGED <<view, wants, changes>>
    PROVE  CallInv' /\ DriverInv' /\ pc' = "idle"
<1>1. CallInv' /\ pc' = "idle"
  BY DEF CallInv, Done
<1>2. DriverInv'
  BY FaultStep DEF DriverInv, Done
<1>. QED BY <1>1, <1>2

\* Nothing the memory is compared with changes.
LEMMA IdleStored ==
    ASSUME Inv, pc' = "idle", UNCHANGED txt, stored' \subseteq stored
    PROVE  FreshInv' /\ StoredInv'
  BY DEF Inv, FreshInv, StoredInv, NamesStored, Catalogued

LEMMA QueryChunkStep == ASSUME Inv, QueryChunk PROVE Inv'
<1>1. pc = "load" /\ UNCHANGED <<zone, txt, view, wants, changes, stored>>
  BY DEF QueryChunk, Loading, Same, InZone
<1>2. ZoneInv' /\ StoredInv'
  BY <1>1 DEF Inv, ZoneInv, StoredInv, NamesStored, Catalogued
<1>3. Len(chunks) \in Nat /\ chunks \in [1..Len(chunks) -> SUBSET Hosts]
  BY DEF Inv, MemoryInv
<1>4. CASE /\ At \in Index /\ Answer(At) # {} /\ chunks' = Append(chunks, Answer(At))
           /\ hostnames' = hostnames \cup Answer(At)
           /\ UNCHANGED <<loaded, pc, job, todo, work, faults>>
  <2>1. /\ Len(chunks) \in Index /\ txt[Len(chunks)] \in SUBSET Hosts
        /\ chunks' = Append(chunks, txt[Len(chunks)])
        /\ hostnames' = hostnames \cup txt[Len(chunks)]
    BY <1>4, AnswerFacts DEF At, Inv, ZoneInv
  <2>2. /\ Len(chunks') = Len(chunks) + 1 /\ chunks' \in Seq(SUBSET Hosts)
        /\ \A k \in 1..Len(chunks) : chunks'[k] = chunks[k]
        /\ chunks'[Len(chunks) + 1] = txt[Len(chunks)]
    BY <1>3, <2>1 DEF Inv, MemoryInv
  <2>3. MemoryInv'
    BY <1>3, <1>4, <2>1, <2>2, Bounds DEF Inv, MemoryInv, Index
  <2>4. CallInv' /\ DriverInv'
    BY <1>1, <1>4 DEF Inv, CallInv, DriverInv
  <2>5. \A k \in 1..Len(chunks') : chunks'[k] = txt'[k - 1]
    BY <1>1, <1>3, <2>2 DEF Inv, FreshInv
  <2>6. ASSUME NEW h \in hostnames' PROVE \E k \in 1..Len(chunks') : h \in chunks'[k]
    <3>1. CASE h \in hostnames
      BY <1>1, <1>3, <2>2, <3>1 DEF Inv, FreshInv
    <3>2. CASE h \in txt[Len(chunks)]
      BY <1>3, <2>2, <3>2
    <3>. QED BY <2>1, <3>1, <3>2
  <2>7. FreshInv'
    BY <1>1, <1>4, <2>5, <2>6 DEF FreshInv
  <2>. QED BY <1>2, <2>3, <2>4, <2>7 DEF Inv
<1>5. CASE /\ At \in Index => Answer(At) = {}
           /\ loaded' = TRUE
           /\ pc' = CASE job.op = "list" -> "ask" [] job.op = "create" -> "add" [] OTHER -> "remove"
           /\ todo' = IF job.op = "list" THEN hostnames ELSE {}
           /\ UNCHANGED <<chunks, hostnames, job, work, faults>>
  <2>1. MemoryInv'
    BY <1>5 DEF Inv, MemoryInv
  <2>2. job = ListJob \/ (job \in Jobs /\ job.op \in {"create", "delete"})
    BY <1>1 DEF Inv, CallInv
  <2>3. \/ pc' = "ask" /\ job = ListJob
        \/ pc' = "add" /\ job \in Jobs /\ job.op = "create"
        \/ pc' = "remove" /\ job \in Jobs /\ job.op = "delete"
    BY <1>5, <2>2 DEF ListJob
  <2>4. CallInv'
    BY <1>5, <2>3 DEF CallInv
  <2>5. DriverInv'
    BY <1>1, <1>5 DEF Inv, DriverInv, MemoryInv
  <2>6. FreshInv'
    BY <1>1, <1>5 DEF Inv, FreshInv, At, Answer
  <2>. QED BY <1>2, <2>1, <2>4, <2>5, <2>6 DEF Inv
<1>6. CASE MayFail /\ Done /\ UNCHANGED <<chunks, hostnames, loaded>>
  <2>1. CallInv' /\ DriverInv' /\ pc' = "idle"
    BY <1>1, <1>6, DoneStep DEF Inv
  <2>. QED BY <1>1, <1>2, <1>6, <2>1, IdleStored DEF Inv, MemoryInv
<1>. QED BY <1>4, <1>5, <1>6 DEF QueryChunk

\* Where Add writes: a chunk of the memory that has room, or a new one after the last.
LEMMA TargetFacts ==
    ASSUME MemoryInv
    PROVE  \/ TargetChunk \in 1..Len(chunks) /\ Cardinality(chunks[TargetChunk]) < ChunkSize
           \/ TargetChunk = Len(chunks) + 1
<1>. DEFINE fit == {i \in 1..Len(chunks) : CanFitInChunk(chunks[i])}
<1>1. TargetChunk = IF fit = {} THEN Len(chunks) + 1 ELSE CHOOSE i \in fit : \A j \in fit : i <= j
  BY DEF TargetChunk
<1>2. fit \in SUBSET Nat
  BY DEF MemoryInv
<1>3. ASSUME fit # {} PROVE TargetChunk \in fit
  <2>1. \E i \in fit : \A j \in fit : i <= j
    BY <1>2, <1>3, LeastIndex, Zenon
  <2>2. TargetChunk = CHOOSE i \in fit : \A j \in fit : i <= j
    BY <1>1, <1>3
  <2>. HIDE DEF fit
  <2>. QED BY <2>1, <2>2
<1>. QED BY <1>1, <1>3 DEF CanFitInChunk

\* A chunk record is replaced by a chunk with room and one more name. No name is lost if the
\* chunk has those of the record.
LEMMA GrowZone ==
    ASSUME ZoneInv, NEW n \in Index, NEW h \in Hosts,
           NEW c \in SUBSET Hosts, IsFiniteSet(c), Cardinality(c) < ChunkSize,
           txt' = [txt EXCEPT ![n] = c \cup {h}], UNCHANGED zone
    PROVE  /\ ZoneInv' /\ h \in Catalogued'
           /\ txt[n] \subseteq c => Catalogued \subseteq Catalogued'
<1>1. Cardinality(c) \in Nat
  BY FS_CardinalityType
<1>2. IsFiniteSet(c \cup {h}) /\ Cardinality(c \cup {h}) <= ChunkSize
  <2>1. /\ IsFiniteSet(c \cup {h})
        /\ Cardinality(c \cup {h}) \in {Cardinality(c), Cardinality(c) + 1}
    BY FS_AddElement
  <2>. QED BY <1>1, <2>1, Bounds
<1>3. txt' \in [Index -> SUBSET Hosts]
  BY DEF ZoneInv
<1>4. txt'[n] = c \cup {h} /\ \A i \in Index : i # n => txt'[i] = txt[i]
  BY DEF ZoneInv
<1>5. ZoneInv'
  BY <1>2, <1>3, <1>4 DEF ZoneInv
<1>6. txt[n] \subseteq c => \A i \in Index : txt[i] \subseteq txt'[i]
  BY <1>4
<1>7. h \in Catalogued' /\ (txt[n] \subseteq c => Catalogued \subseteq Catalogued')
  BY <1>4, <1>6 DEF Catalogued
<1>. QED BY <1>5, <1>7

\* A chunk record loses one name.
LEMMA ShrinkZone ==
    ASSUME ZoneInv, NEW n \in Index, NEW h,
           txt' = [txt EXCEPT ![n] = txt[n] \ {h}], UNCHANGED zone
    PROVE  ZoneInv' /\ Catalogued \ {h} \subseteq Catalogued'
<1>1. IsFiniteSet(txt[n]) /\ Cardinality(txt[n]) \in Nat /\ Cardinality(txt[n]) <= ChunkSize
  BY FS_CardinalityType DEF ZoneInv
<1>2. IsFiniteSet(txt[n] \ {h}) /\ Cardinality(txt[n] \ {h}) <= ChunkSize
  <2>1. /\ IsFiniteSet(txt[n] \ {h})
        /\ Cardinality(txt[n] \ {h}) \in {Cardinality(txt[n]), Cardinality(txt[n]) - 1}
    BY <1>1, FS_RemoveElement
  <2>. QED BY <1>1, <2>1, Bounds
<1>3. txt' \in [Index -> SUBSET Hosts]
  BY DEF ZoneInv
<1>4. txt'[n] = txt[n] \ {h} /\ \A i \in Index : i # n => txt'[i] = txt[i]
  BY DEF ZoneInv
<1>5. ZoneInv'
  BY <1>2, <1>3, <1>4 DEF ZoneInv
<1>6. \A i \in Index : txt[i] \ {h} \subseteq txt'[i]
  BY <1>4
<1>7. Catalogued \ {h} \subseteq Catalogued'
  BY <1>6 DEF Catalogued
<1>. QED BY <1>5, <1>7

LEMMA AddStep == ASSUME Inv, Add PROVE Inv'
<1>. DEFINE h == job.host
            i == TargetChunk
            more == [Padded(i) EXCEPT ![i] = @ \cup {h}]
<1>1. pc = "add" /\ Done /\ UNCHANGED <<view, wants, changes>>
  BY DEF Add
<1>2. h \in Hosts
  BY <1>1, JobFacts DEF Inv, CallInv
<1>3. Len(chunks) \in Nat /\ chunks \in [1..Len(chunks) -> SUBSET Hosts] /\ Len(chunks) <= MaxChunks
  BY DEF Inv, MemoryInv
<1>4. CASE /\ UNCHANGED <<zone, txt, chunks, hostnames, loaded, faults>>
           /\ stored' = stored \cup ({h} \cap hostnames)
  <2>1. CallInv' /\ DriverInv' /\ pc' = "idle"
    BY <1>1, <1>4, DoneStep DEF Inv
  <2>2. ZoneInv' /\ MemoryInv'
    BY <1>4 DEF Inv, ZoneInv, MemoryInv
  <2>3. FreshInv'
    BY <2>1 DEF FreshInv
  <2>4. h \in hostnames => h \in Catalogued
    <3>1. SUFFICES ASSUME h \in hostnames PROVE h \in Catalogued
      OBVIOUS
    <3>2. PICK k \in 1..Len(chunks) : h \in chunks[k] /\ chunks[k] = txt[k - 1]
      BY <1>1, <3>1 DEF Inv, FreshInv
    <3>3. k - 1 \in Index
      BY <1>3, <3>2, Bounds
    <3>. QED BY <3>2, <3>3 DEF Catalogued
  <2>5. StoredInv'
    BY <1>2, <1>4, <2>4 DEF Inv, StoredInv, NamesStored, Catalogued
  <2>. QED BY <2>1, <2>2, <2>3, <2>5 DEF Inv
<1>5. CASE /\ i \in 1..MaxChunks
           /\ Exchange(WriteChunk(i - 1, more[i]), Same,
                       /\ chunks' = more /\ hostnames' = hostnames \cup {h}
                       /\ loaded' = loaded /\ stored' = stored \cup {h},
                       chunks' = Padded(i) /\ UNCHANGED <<hostnames, loaded, stored>>)
  <2>. DEFINE pad == Padded(i)
  <2>1. \/ i \in 1..Len(chunks) /\ Cardinality(chunks[i]) < ChunkSize /\ pad = chunks
        \/ i = Len(chunks) + 1 /\ pad = Append(chunks, {})
    <3>1. \/ i \in 1..Len(chunks) /\ Cardinality(chunks[i]) < ChunkSize
          \/ i = Len(chunks) + 1
      BY TargetFacts DEF Inv
    <3>2. pad = IF i > Len(chunks) THEN Append(chunks, {}) ELSE chunks
      BY DEF Padded
    <3>. HIDE DEF i, pad
    <3>3. Len(chunks) \in Nat
      BY <1>3
    <3>4. \/ i \in 1..Len(chunks) /\ Cardinality(chunks[i]) < ChunkSize /\ ~(i > Len(chunks))
          \/ i = Len(chunks) + 1 /\ i > Len(chunks)
      BY <3>1, <3>3
    <3>. QED BY <3>2, <3>4, Zenon
  <2>. HIDE DEF i
  <2>2. pad \in Seq(SUBSET Hosts) /\ i \in 1..Len(pad) /\ Len(pad) <= MaxChunks
    BY <1>3, <1>5, <2>1 DEF Inv, MemoryInv
  <2>3. i - 1 \in Index
    BY <1>5, Bounds
  <2>4. /\ IsFiniteSet(pad[i]) /\ Cardinality(pad[i]) < ChunkSize
        /\ WholeReplies => pad[i] = txt[i - 1]
    <3>1. CASE i \in 1..Len(chunks) /\ Cardinality(chunks[i]) < ChunkSize /\ pad = chunks
      BY <1>1, <2>3, <3>1 DEF Inv, FreshInv, ZoneInv
    <3>2. CASE i = Len(chunks) + 1 /\ pad = Append(chunks, {})
      <4>1. pad[i] = {} /\ i - 1 = Len(chunks)
        BY <1>3, <3>2 DEF Inv, MemoryInv
      <4>2. Answer(i - 1) = {}
        BY <1>1, <2>3, <4>1 DEF Inv, FreshInv
      <4>3. WholeReplies => txt[i - 1] = {}
        BY <2>3, <4>2, AnswerFacts DEF Inv
      <4>. QED BY <4>1, <4>3, FS_EmptySet, Bounds
    <3>. QED BY <2>1, <3>1, <3>2
  <2>. HIDE DEF pad
  <2>5. more = [pad EXCEPT ![i] = pad[i] \cup {h}]
    BY DEF pad
  <2>6. pad[i] \cup {h} \in SUBSET Hosts
    BY <1>2, <2>2
  <2>. HIDE DEF h, more
  <2>7. more \in Seq(SUBSET Hosts) /\ Len(more) = Len(pad) /\ more[i] = pad[i] \cup {h}
    BY <2>2, <2>5, <2>6, ExceptSeq
  <2>8. \/ /\ zone' = zone /\ txt' = [txt EXCEPT ![i - 1] = more[i]] /\ chunks' = more
           /\ hostnames' = hostnames \cup {h} /\ loaded' = loaded /\ stored' = stored \cup {h}
           /\ faults' = faults
        \/ /\ zone' = zone /\ txt' \in {[txt EXCEPT ![i - 1] = more[i]], txt} /\ chunks' = pad
           /\ UNCHANGED <<hostnames, loaded, stored>> /\ MayFail
    BY <1>5 DEF Exchange, WriteChunk, Same, InZone, pad, more, h
  <2>9. CallInv' /\ DriverInv' /\ pc' = "idle"
    BY <1>1, <2>8, DoneStep DEF Inv
  <2>10. ZoneInv' /\ (WholeReplies => Catalogued \subseteq Catalogued')
    <3>1. CASE txt' = [txt EXCEPT ![i - 1] = more[i]]
      <4>1. txt' = [txt EXCEPT ![i - 1] = pad[i] \cup {h}] /\ pad[i] \in SUBSET Hosts
        BY <2>2, <2>7, <3>1
      <4>2. ZoneInv' /\ (txt[i - 1] \subseteq pad[i] => Catalogued \subseteq Catalogued')
        BY <1>2, <2>3, <2>4, <2>8, <4>1, GrowZone DEF Inv, h
      <4>. QED BY <2>4, <4>2
    <3>2. CASE txt' = txt
      BY <2>8, <3>2 DEF Inv, ZoneInv, Catalogued
    <3>. QED BY <2>8, <3>1, <3>2
  <2>11. MemoryInv'
    BY <1>2, <2>2, <2>7, <2>8 DEF Inv, MemoryInv, h
  <2>12. FreshInv'
    BY <2>9 DEF FreshInv
  <2>13. StoredInv'
    <3>1. CASE stored' = stored
      BY <2>10, <3>1 DEF Inv, StoredInv, NamesStored
    <3>2. CASE stored' = stored \cup {h} /\ txt' = [txt EXCEPT ![i - 1] = more[i]]
      <4>1. h \in Catalogued'
        <5>1. txt' = [txt EXCEPT ![i - 1] = pad[i] \cup {h}] /\ pad[i] \in SUBSET Hosts
          BY <2>2, <2>7, <3>2
        <5>. QED BY <1>2, <2>3, <2>4, <2>8, <5>1, GrowZone DEF Inv, h
      <4>. QED BY <1>2, <2>10, <3>2, <4>1 DEF Inv, StoredInv, NamesStored, h
    <3>. QED BY <2>8, <3>1, <3>2
  <2>. QED BY <2>9, <2>10, <2>11, <2>12, <2>13 DEF Inv
<1>. QED BY <1>4, <1>5 DEF Add, Same, InZone

\* Where Remove writes: the last chunk of the memory that holds the name.
LEMMA ChunkOfFacts ==
    ASSUME MemoryInv, NEW h, \E k \in 1..Len(chunks) : h \in chunks[k]
    PROVE  ChunkOf(h) \in 1..Len(chunks) /\ h \in chunks[ChunkOf(h)]
<1>. DEFINE S == {k \in 1..Len(chunks) : h \in chunks[k]}
<1>1. Len(chunks) \in Nat
  BY DEF MemoryInv
<1>2. S \in SUBSET (1..Len(chunks)) /\ S # {}
  OBVIOUS
<1>3. PICK i \in S : \A j \in S : j <= i
  BY <1>1, <1>2, GreatestIndex, Zenon
<1>4. \A j \in i + 1..Len(chunks) : h \notin chunks[j]
  BY <1>1, <1>3
<1>5. \E k \in 1..Len(chunks) : h \in chunks[k] /\ \A j \in k + 1..Len(chunks) : h \notin chunks[j]
  BY <1>3, <1>4
<1>. QED BY <1>5 DEF ChunkOf

LEMMA RemoveStep == ASSUME Inv, Remove PROVE Inv'
<1>. DEFINE h == job.host
            i == ChunkOf(h)
            rest == chunks[i] \ {h}
<1>1. pc = "remove" /\ Done /\ stored' = stored \ {h} /\ UNCHANGED <<view, wants, changes>>
  BY DEF Remove
<1>2. h \in Hosts
  BY <1>1, JobFacts DEF Inv, CallInv
<1>3. Len(chunks) \in Nat /\ chunks \in [1..Len(chunks) -> SUBSET Hosts] /\ Len(chunks) <= MaxChunks
  BY DEF Inv, MemoryInv
<1>4. CASE h \notin hostnames
  <2>1. UNCHANGED <<zone, txt, chunks, hostnames, loaded, faults>>
    BY <1>4 DEF Remove, Same, InZone
  <2>2. CallInv' /\ DriverInv' /\ pc' = "idle"
    BY <1>1, <2>1, DoneStep DEF Inv
  <2>3. ZoneInv' /\ MemoryInv'
    BY <2>1 DEF Inv, ZoneInv, MemoryInv
  <2>. QED BY <1>1, <2>1, <2>2, <2>3, IdleStored DEF Inv
<1>5. CASE h \in hostnames
  <2>1. i \in 1..Len(chunks) /\ h \in chunks[i]
    BY <1>1, <1>5, ChunkOfFacts DEF Inv, FreshInv
  <2>2. i - 1 \in Index /\ chunks[i] = txt[i - 1]
    BY <1>1, <1>3, <2>1, Bounds DEF Inv, FreshInv
  <2>3. /\ loaded' = loaded
        /\ Exchange(IF Emptied(i, rest) THEN DeleteChunk(i - 1) ELSE WriteChunk(i - 1, rest),
                    Same,
                    IF Emptied(i, rest)
                    THEN /\ chunks' = ReindexAfterDelete(i)
                         /\ hostnames' = UNION {chunks[k] : k \in 1..Len(chunks) \ {i}}
                    ELSE /\ chunks' = [chunks EXCEPT ![i] = rest]
                         /\ hostnames' = hostnames \ {h},
                    UNCHANGED <<chunks, hostnames>>)
    BY <1>5 DEF Remove
  <2>. HIDE DEF i
  <2>4. UNCHANGED zone /\ txt' \in {[txt EXCEPT ![i - 1] = rest], txt} /\ (MayFail \/ faults' = faults)
    BY <2>3 DEF Exchange, WriteChunk, DeleteChunk, Emptied, Same, InZone
  <2>5. \/ UNCHANGED <<chunks, hostnames>>
        \/ /\ chunks' = ReindexAfterDelete(i)
           /\ hostnames' = UNION {chunks[k] : k \in 1..Len(chunks) \ {i}}
        \/ chunks' = [chunks EXCEPT ![i] = rest] /\ hostnames' = hostnames \ {h}
    BY <2>3 DEF Exchange
  <2>6. CallInv' /\ DriverInv' /\ pc' = "idle"
    BY <1>1, <2>4, DoneStep DEF Inv
  <2>7. ZoneInv' /\ Catalogued \ {h} \subseteq Catalogued'
    <3>1. CASE txt' = [txt EXCEPT ![i - 1] = rest]
      <4>1. txt' = [txt EXCEPT ![i - 1] = txt[i - 1] \ {h}]
        BY <2>2, <3>1
      <4>. HIDE DEF h
      <4>. QED BY <2>2, <2>4, <4>1, ShrinkZone DEF Inv
    <3>2. CASE txt' = txt
      BY <2>4, <3>2 DEF Inv, ZoneInv, Catalogued
    <3>. QED BY <2>4, <3>1, <3>2
  <2>8. StoredInv'
    BY <1>1, <2>7 DEF Inv, StoredInv, NamesStored
  <2>9. FreshInv'
    BY <2>6 DEF FreshInv
  <2>10. MemoryInv'
    <3>1. CASE UNCHANGED <<chunks, hostnames>>
      BY <2>3, <3>1 DEF Inv, MemoryInv
    <3>2. CASE /\ chunks' = ReindexAfterDelete(i)
               /\ hostnames' = UNION {chunks[k] : k \in 1..Len(chunks) \ {i}}
      <4>1. hostnames' \subseteq Hosts
        BY <1>3, <3>2
      <4>2. /\ chunks' = [k \in 1..Len(chunks) - 1 |-> chunks[IF k < i THEN k ELSE k + 1]]
            /\ Len(chunks) - 1 \in Nat
        BY <1>3, <2>1, <3>2 DEF ReindexAfterDelete
      <4>3. \A k \in 1..Len(chunks) - 1 : chunks[IF k < i THEN k ELSE k + 1] \in SUBSET Hosts
        BY <1>3, <2>1
      <4>4. chunks' \in Seq(SUBSET Hosts) /\ Len(chunks') = Len(chunks) - 1
        BY <4>2, <4>3
      <4>. QED BY <1>3, <2>3, <4>1, <4>4, Bounds DEF Inv, MemoryInv
    <3>3. CASE chunks' = [chunks EXCEPT ![i] = rest] /\ hostnames' = hostnames \ {h}
      <4>1. rest \in SUBSET Hosts
        BY <1>3, <2>1
      <4>. HIDE DEF rest
      <4>2. chunks' \in Seq(SUBSET Hosts) /\ Len(chunks') = Len(chunks)
        BY <2>1, <3>3, <4>1, ExceptSeq DEF Inv, MemoryInv
      <4>. QED BY <1>3, <2>3, <3>3, <4>2 DEF Inv, MemoryInv
    <3>. QED BY <2>5, <3>1, <3>2, <3>3
  <2>. QED BY <2>6, <2>7, <2>8, <2>9, <2>10 DEF Inv
<1>. QED BY <1>4, <1>5

-----------------------------------------------------------------------------
(* The other steps of a call write no chunk record. *)

LEMMA EmptyMemory ==
    ASSUME chunks' = <<>>, hostnames' = {}, loaded' = FALSE
    PROVE  MemoryInv'
<1>1. chunks' \in Seq(SUBSET Hosts) /\ Len(chunks') = 0
  BY EmptySeq
<1>2. 0 <= MaxChunks
  BY Bounds
<1>. QED BY <1>1, <1>2 DEF MemoryInv

LEMMA LoadFresh ==
    ASSUME Inv, UNCHANGED <<txt, stored>>, pc' = "load", chunks' = <<>>, hostnames' = {}
    PROVE  FreshInv' /\ StoredInv'
  BY DEF Inv, FreshInv, StoredInv, NamesStored, Catalogued

LEMMA QuietFresh ==
    ASSUME Inv, UNCHANGED <<txt, stored>>, pc' \notin {"load", "add", "remove"}
    PROVE  FreshInv' /\ StoredInv'
  BY DEF Inv, FreshInv, StoredInv, NamesStored, Catalogued

\* The records of the zone change by whole pairs of a name and a value.
LEMMA PairsKept ==
    ASSUME Inv, job \in Jobs
    PROVE  /\ Inserted(job) \/ Removed(job) \/ Same => ZoneInv' /\ UNCHANGED txt
           /\ job.op = "update" /\ Replaced(job) => ZoneInv' /\ UNCHANGED txt
<1>1. job.host \in Hosts /\ job.val \in Vals
  BY JobFacts
<1>2. ASSUME UNCHANGED txt, zone' \subseteq zone \cup {<<job.host, job.val>>}
      PROVE  ZoneInv'
  BY <1>1, <1>2 DEF Inv, ZoneInv
<1>. QED BY <1>2 DEF Inserted, Removed, Replaced, Same, InZone

\* Create and Delete, whose record step is the same but for the record.
LEMMA RecordStep ==
    ASSUME Inv, pc \in {"create", "delete"},
           ZoneInv', UNCHANGED <<txt, view, wants, changes, stored>>,
           \/ /\ StartLoad /\ pc' = "load" /\ UNCHANGED <<job, todo, work, faults>>
           \/ Done /\ UNCHANGED <<chunks, hostnames, loaded>> /\ MayFail
    PROVE  Inv'
<1>1. CASE StartLoad /\ pc' = "load" /\ UNCHANGED <<job, todo, work, faults>>
  <2>1. chunks' = <<>> /\ hostnames' = {} /\ loaded' = FALSE
    BY <1>1 DEF StartLoad
  <2>2. MemoryInv'
    BY <2>1, EmptyMemory
  <2>3. CallInv'
    BY <1>1 DEF Inv, CallInv
  <2>4. DriverInv'
    BY <1>1 DEF Inv, DriverInv
  <2>. QED BY <1>1, <2>1, <2>2, <2>3, <2>4, LoadFresh DEF Inv
<1>2. CASE Done /\ UNCHANGED <<chunks, hostnames, loaded>> /\ MayFail
  <2>1. CallInv' /\ DriverInv' /\ pc' = "idle"
    BY <1>2, DoneStep DEF Inv
  <2>2. MemoryInv'
    BY <1>2 DEF Inv, MemoryInv
  <2>. QED BY <2>1, <2>2, QuietFresh DEF Inv
<1>. QED BY <1>1, <1>2

LEMMA CreateRecordStep == ASSUME Inv, CreateRecord PROVE Inv'
<1>1. pc = "create" /\ job \in Jobs /\ UNCHANGED <<view, wants, changes, stored>>
  BY DEF CreateRecord, Inv, CallInv
<1>2. Inserted(job) \/ Same
  BY DEF CreateRecord, Exchange
<1>3. \/ StartLoad /\ pc' = "load" /\ UNCHANGED <<job, todo, work, faults>>
      \/ Done /\ UNCHANGED <<chunks, hostnames, loaded>> /\ MayFail
  BY DEF CreateRecord, Exchange
<1>. QED BY <1>1, <1>2, <1>3, PairsKept, RecordStep

LEMMA DeleteRecordStep == ASSUME Inv, DeleteRecord PROVE Inv'
<1>1. pc = "delete" /\ job \in Jobs /\ UNCHANGED <<view, wants, changes, stored>>
  BY DEF DeleteRecord, Inv, CallInv
<1>2. Removed(job) \/ Same
  BY DEF DeleteRecord, Exchange
<1>3. \/ StartLoad /\ pc' = "load" /\ UNCHANGED <<job, todo, work, faults>>
      \/ Done /\ UNCHANGED <<chunks, hostnames, loaded>> /\ MayFail
  BY DEF DeleteRecord, Exchange
<1>. QED BY <1>1, <1>2, <1>3, PairsKept, RecordStep

LEMMA UpdateRecordStep == ASSUME Inv, UpdateRecord PROVE Inv'
<1>1. /\ pc = "update" /\ job \in Jobs /\ job.op = "update"
      /\ UNCHANGED <<chunks, hostnames, loaded, view, wants, changes, stored>>
  BY DEF UpdateRecord, Inv, CallInv
<1>2. (Replaced(job) \/ Same) /\ Done /\ (MayFail \/ faults' = faults)
  BY DEF UpdateRecord, Exchange
<1>3. ZoneInv' /\ UNCHANGED txt
  BY <1>1, <1>2, PairsKept
<1>4. CallInv' /\ DriverInv' /\ pc' = "idle"
  BY <1>1, <1>2, DoneStep DEF Inv
<1>5. MemoryInv'
  BY <1>1 DEF Inv, MemoryInv
<1>. QED BY <1>1, <1>3, <1>4, <1>5, QuietFresh DEF Inv

LEMMA ListStep == ASSUME Inv, List PROVE Inv'
<1>1. /\ job' = ListJob /\ view' = {}
      /\ UNCHANGED <<zone, txt, work, wants, faults, changes, stored>>
  BY DEF List
<1>2. ZoneInv'
  BY <1>1 DEF Inv, ZoneInv
<1>3. CASE pc' = "ask" /\ todo' = hostnames /\ UNCHANGED <<chunks, hostnames, loaded>>
  <2>1. MemoryInv' /\ CallInv' /\ DriverInv'
    BY <1>1, <1>3 DEF Inv, MemoryInv, CallInv, DriverInv
  <2>. QED BY <1>1, <1>2, <1>3, <2>1, QuietFresh DEF Inv
<1>4. CASE pc' = "load" /\ todo' = {} /\ StartLoad
  <2>1. chunks' = <<>> /\ hostnames' = {} /\ loaded' = FALSE
    BY <1>4 DEF StartLoad
  <2>2. MemoryInv'
    BY <2>1, EmptyMemory
  <2>3. CallInv' /\ DriverInv'
    BY <1>1, <1>4 DEF Inv, CallInv, DriverInv
  <2>. QED BY <1>1, <1>2, <1>4, <2>1, <2>2, <2>3, LoadFresh DEF Inv
<1>. QED BY <1>3, <1>4 DEF List

LEMMA QueryRecordsStep == ASSUME Inv, NEW h \in Hosts, QueryRecords(h) PROVE Inv'
<1>1. /\ pc = "ask" /\ UNCHANGED <<zone, txt, chunks, hostnames, loaded, pc, job, work, wants, changes, stored>>
      /\ todo' \subseteq todo /\ view' \subseteq view \cup zone
      /\ MayFail \/ faults' = faults
  BY DEF QueryRecords, Same, InZone
<1>2. ZoneInv' /\ MemoryInv' /\ CallInv'
  BY <1>1 DEF Inv, ZoneInv, MemoryInv, CallInv
<1>3. DriverInv'
  BY <1>1, FaultStep DEF Inv, DriverInv, ZoneInv
<1>. QED BY <1>1, <1>2, <1>3, QuietFresh DEF Inv

\* What the reconciler makes of a listing of this zone are calls of the provider.
LEMMA PlanFacts ==
    ASSUME NEW seen, seen \subseteq Hosts \X Vals, wants \in [Hosts -> Vals \cup {NoVal}]
    PROVE  Plan(seen) \subseteq Jobs
<1>. DEFINE of(h) == {r[2] : r \in {x \in seen : x[1] = h}}
            Create == {[op |-> "create", host |-> h, val |-> wants[h]] :
                         h \in {x \in Hosts : wants[x] # NoVal /\ of(x) = {}}}
            Update == {[op |-> "update", host |-> h, val |-> wants[h], old |-> CHOOSE v \in of(h) : TRUE] :
                         h \in {x \in Hosts : wants[x] # NoVal /\ of(x) # {} /\ wants[x] \notin of(x)}}
            Delete == {[op |-> "delete", host |-> r[1], val |-> r[2]] :
                         r \in {x \in seen : wants[x[1]] = NoVal}}
<1>1. \A r \in seen : r[1] \in Hosts /\ r[2] \in Vals
  OBVIOUS
<1>2. \A h : of(h) \subseteq Vals
  BY <1>1
<1>3. Create \subseteq Jobs
  BY DEF Jobs
<1>4. ASSUME NEW h \in Hosts, wants[h] # NoVal, of(h) # {}
      PROVE  [op |-> "update", host |-> h, val |-> wants[h], old |-> CHOOSE v \in of(h) : TRUE] \in Jobs
  <2>1. (CHOOSE v \in of(h) : TRUE) \in of(h)
    BY <1>4
  <2>. HIDE DEF of
  <2>2. (CHOOSE v \in of(h) : TRUE) \in Vals /\ wants[h] \in Vals
    BY <1>2, <1>4, <2>1
  <2>. QED BY <2>2 DEF Jobs
<1>5. Update \subseteq Jobs
  <2>. HIDE DEF of
  <2>. QED BY <1>4
<1>6. Delete \subseteq Jobs
  BY <1>1 DEF Jobs
<1>7. Plan(seen) = Create \cup Update \cup Delete
  BY DEF Plan
<1>. HIDE DEF Create, Update, Delete
<1>. QED BY <1>3, <1>5, <1>6, <1>7

LEMMA EndListStep == ASSUME Inv, EndList PROVE Inv'
<1>1. /\ pc' = "idle" /\ job' = NoJob /\ work' = Plan(view)
      /\ UNCHANGED <<zone, txt, chunks, hostnames, loaded, todo, view, wants, faults, changes, stored>>
  BY DEF EndList
<1>2. ZoneInv' /\ MemoryInv'
  BY <1>1 DEF Inv, ZoneInv, MemoryInv
<1>3. CallInv'
  BY <1>1 DEF CallInv
<1>4. Plan(view) \subseteq Jobs
  BY PlanFacts DEF Inv, DriverInv
<1>5. DriverInv'
  BY <1>1, <1>4 DEF Inv, DriverInv
<1>. QED BY <1>1, <1>2, <1>3, <1>5, QuietFresh DEF Inv

LEMMA CallStep == ASSUME Inv, NEW j \in Jobs, Call(j) PROVE Inv'
<1>1. /\ pc' = j.op /\ job' = j
      /\ UNCHANGED <<zone, txt, chunks, hostnames, loaded, todo, view, work, wants, faults, changes, stored>>
  BY DEF Call
<1>2. pc' \in {"create", "delete", "update"}
  BY <1>1, JobFacts
<1>3. ZoneInv' /\ MemoryInv' /\ DriverInv'
  BY <1>1 DEF Inv, ZoneInv, MemoryInv, DriverInv
<1>4. CallInv'
  BY <1>1, <1>2 DEF CallInv
<1>. QED BY <1>1, <1>2, <1>3, <1>4, QuietFresh DEF Inv

LEMMA RestartStep == ASSUME Inv, Restart PROVE Inv'
<1>1. /\ chunks' = <<>> /\ hostnames' = {} /\ loaded' = FALSE
      /\ pc' = "idle" /\ job' = NoJob /\ todo' = {} /\ work' = {}
      /\ UNCHANGED <<zone, txt, view, wants, changes>> /\ MayFail
      /\ stored' \subseteq stored
  BY DEF Restart, StartLoad
<1>2. ZoneInv'
  BY <1>1 DEF Inv, ZoneInv
<1>3. MemoryInv'
  BY <1>1, EmptyMemory
<1>4. CallInv'
  BY <1>1 DEF CallInv
<1>5. DriverInv'
  BY <1>1, FaultStep DEF Inv, DriverInv
<1>. QED BY <1>1, <1>2, <1>3, <1>4, <1>5, IdleStored DEF Inv

LEMMA ChangeStep == ASSUME Inv, NEW h \in Hosts, NEW v \in Vals \cup {NoVal}, Change(h, v) PROVE Inv'
<1>1. /\ changes < MaxChanges /\ wants' = [wants EXCEPT ![h] = v] /\ changes' = changes + 1 /\ pc = "idle"
      /\ UNCHANGED <<zone, txt, chunks, hostnames, loaded, pc, job, todo, view, work, faults, stored>>
  BY DEF Change
<1>2. ZoneInv' /\ MemoryInv' /\ CallInv'
  BY <1>1 DEF Inv, ZoneInv, MemoryInv, CallInv
<1>3. DriverInv'
  BY <1>1, Bounds DEF Inv, DriverInv
<1>. QED BY <1>1, <1>2, <1>3, QuietFresh DEF Inv

LEMMA NextInv == ASSUME Inv, [Next]_vars PROVE Inv'
<1>1. CASE UNCHANGED vars
  BY <1>1 DEF vars, Inv, ZoneInv, MemoryInv, CallInv, DriverInv, FreshInv, StoredInv, NamesStored, Catalogued, Answer
<1>2. CASE Next
  BY <1>2, QueryChunkStep, AddStep, RemoveStep, CreateRecordStep, DeleteRecordStep, UpdateRecordStep,
     ListStep, QueryRecordsStep, EndListStep, CallStep, RestartStep, ChangeStep DEF Next, Provider
<1>. QED BY <1>1, <1>2

-----------------------------------------------------------------------------
(* The theorems. *)

LEMMA Always == Spec => []Inv
  BY InitInv, NextInv, PTL DEF Spec

(* Every state of the provider, of the zone and of the memory of the       *)
(* catalog is of its type, and no chunk record ever holds more names than  *)
(* canFitInChunk allows, whatever requests fail and however often the      *)
(* process is restarted.                                                   *)
THEOREM CatalogTypes == Spec => []TypeOK
<1>1. Inv => TypeOK
  BY JobFacts DEF Inv, ZoneInv, MemoryInv, CallInv, DriverInv, StoredInv, TypeOK
<1>. QED BY Always, <1>1, PTL

(* Where a full chunk fits a reply (USE_TCP), a name whose Add succeeded   *)
(* stays in some chunk record until its Remove is attempted: the chunk     *)
(* that Add or Remove rewrites is, name for name, the one the zone holds,  *)
(* because the load just before read it, and a chunk that Add appends is   *)
(* one that the zone does not have.                                        *)
THEOREM NamesKept == ASSUME WholeReplies PROVE Spec => []NamesStored
<1>1. Inv => NamesStored
  BY DEF Inv, StoredInv
<1>. QED BY Always, <1>1, PTL
=============================================================================
