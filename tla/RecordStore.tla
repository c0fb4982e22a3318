---------------------------- MODULE RecordStore ----------------------------
(***************************************************************************)
(* What a DNS provider promises to the reconciler (the interfaces Provider *)
(* and Updater of pkg/provider/provider.go), stated without its requests: a*)
(* call may take several steps, other clients may change the zone between  *)
(* them, and the call ends with a result.                                  *)
(*                                                                         *)
(*  - A call changes records of its own record set only, and never writes  *)
(*    a record that was not there during the call, except the one desired  *)
(*    (and its companion).                                                 *)
(*  - "ok" means that what was asked for held at some moment of the call.  *)
(*  - A listing holds every record that was there throughout the call and  *)
(*    none that was never there during it.                                 *)
(*                                                                         *)
(* Providers differ in four ways, which are parameters:                    *)
(*   wide    a call may also change other types of its name (the companion *)
(*           record of Technitium, the address list of pfSense)            *)
(*   precise a call removes no other record of its set (one that appeared  *)
(*           while the call was under way excepted, and a CNAME, of which  *)
(*           a name has one)                                               *)
(*   exact   a deletion names the record's value, not only name and type   *)
(*   torn    a failing write may destroy the whole store (a file)          *)
(***************************************************************************)
EXTENDS Naturals

CONSTANTS NoCall, Results

VARIABLES zone,     \* stored records, with the attribute hidden
          call,     \* the call in progress, or NoCall
          result,   \* how the last call ended, "none" during a call
          listed,   \* what the last listing returned
          past,     \* records that were in the zone at some moment of the call
          kept,     \* records that were in the zone at every moment of the call
          done,     \* what was asked for held at some moment of the call
          outside,  \* the number of changes made by other clients
          wide, precise, exact, torn, stores

vars == <<zone, call, result, listed, past, kept, done, outside, wide, precise, exact, torn,
          stores>>

SameSet(r, c) == /\ r.name = c.rec.name
                 /\ wide \/ r.type = c.rec.type

Visible(z) == {r \in z : ~r.hidden}

(* A provider without values in its deletions removes some record of the set.*)
Goal(c, before, z) ==
  LET there(k)  == \E r \in Visible(z) : <<r.name, r.type, r.val>> = <<k.name, k.type, k.val>>
      set       == {r \in z : r.name = c.rec.name /\ r.type = c.rec.type}
      fewer     == \E r \in before \ z : r.name = c.rec.name /\ r.type = c.rec.type
  IN  CASE c.op = "list"   -> TRUE
        [] c.op = "create" -> c.rec.type \in stores => there(c.rec)
        [] c.op = "delete" -> c.rec.type \in stores =>
                                IF exact THEN ~there(c.rec) ELSE set = {} \/ fewer
        [] c.op = "update" -> there(c.rec)

WithinScope ==
  IF call.op = "list" THEN zone' = zone ELSE
  /\ {r \in zone : ~SameSet(r, call)} = {r \in zone' : ~SameSet(r, call)}
  /\ \A r \in zone' \ (zone \cup past) :
        /\ call.op \in {"create", "update"}
        /\ \/ <<r.name, r.type, r.val>> = <<call.rec.name, call.rec.type, call.rec.val>>
           \/ wide /\ r.type = "HTTPS"
  /\ precise => \A r \in (zone \ zone') \cap kept :
        \/ r.type \in {"CNAME", "HTTPS"}
        \/ r.val = call.rec.val
        \/ call.op = "update" /\ r.val = call.old.val

Remember ==
  /\ past' = past \cup zone'
  /\ kept' = kept \cap zone'
  /\ done' = (done \/ Goal(call, past, zone'))

Init ==
  /\ zone = {} /\ call = NoCall /\ result = "none" /\ listed = {}
  /\ past = {} /\ kept = {} /\ done = FALSE /\ outside = 0
  /\ wide \in BOOLEAN /\ precise \in BOOLEAN /\ exact \in BOOLEAN /\ torn \in BOOLEAN
  /\ stores \in SUBSET STRING

Invoke ==
  /\ call = NoCall
  /\ call' # NoCall
  /\ zone' = zone /\ past' = zone /\ kept' = zone
  /\ done' = Goal(call', {}, zone)
  /\ result' = "none" /\ listed' = {} /\ outside' = outside

Work ==
  /\ call # NoCall /\ call' = call
  /\ WithinScope
  /\ Remember
  /\ UNCHANGED <<result, listed, outside>>

Return ==
  /\ call # NoCall /\ call' = NoCall
  /\ result' \in Results
  /\ WithinScope \/ (torn /\ zone' \subseteq zone /\ result' # "ok")
  /\ result' = "ok" => done \/ Goal(call, past, zone')
  /\ IF call.op = "list" /\ result' = "ok"
     THEN /\ Visible(kept) \subseteq listed'
          /\ listed' \subseteq Visible(past)
     ELSE listed' = {}
  /\ past' = {} /\ kept' = {} /\ done' = FALSE /\ outside' = outside

(* Another client of the backend: an administrator, another instance. The  *)
(* count keeps what the provider itself does from passing for such a step. *)
Outside ==
  /\ outside' = outside + 1
  /\ UNCHANGED <<call, result, listed>>
  /\ IF call = NoCall THEN UNCHANGED <<past, kept, done>> ELSE Remember

Next == /\ Invoke \/ Work \/ Return \/ Outside
        /\ UNCHANGED <<wide, precise, exact, torn, stores>>

Spec == Init /\ [][Next]_vars
=============================================================================
