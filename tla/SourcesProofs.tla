---------------------------- MODULE SourcesProofs ----------------------------
(***************************************************************************)
(* Facts about the operators of Hostnames, Sources and Platforms, for      *)
(* every input: what the parsers and listers take out of an object, in     *)
(* whatever order Go iterates.  The proofs of Discovery rest on them.      *)
(*                                                                         *)
(* The induction theorems of the library have operator parameters.  Here   *)
(* induction is over sets of numbers, from the well-foundedness of < on    *)
(* the naturals.                                                           *)
(***************************************************************************)
EXTENDS Platforms, FiniteSetTheorems, WellFoundedInduction, TLAPS

-----------------------------------------------------------------------------
(* Induction. *)

Below == {p \in Nat \X Nat : p[1] < p[2]}

\* A nonempty set of naturals has a least element.
LEMMA NatLeast ==
  ASSUME NEW T \in SUBSET Nat, T # {}
  PROVE  \E m \in T : \A k \in T : m <= k
<1>1. OpToRel(<, Nat) = Below
  BY Zenon DEF OpToRel, Below
<1>2. \E x \in T : \A y \in T : ~(<<y, x>> \in OpToRel(<, Nat))
  BY NatLessThanWellFounded, WFMin, Zenon
<1>3. PICK m \in T : \A y \in T : ~(<<y, m>> \in Below)
  BY <1>1, <1>2, Zenon
<1>4. \A y \in T : y < m => <<y, m>> \in Below
  BY DEF Below
<1>5. \A y \in T : ~(y < m)
  BY <1>3, <1>4, Zenon
<1>. QED BY <1>5

\* Induction over the naturals, for a set.
LEMMA SetInduction ==
  ASSUME NEW T, 0 \in T, \A n \in Nat : n \in T => n + 1 \in T
  PROVE  Nat \subseteq T
<1>. SUFFICES ASSUME Nat \ T # {} PROVE FALSE
  OBVIOUS
<1>1. PICK m \in Nat \ T : \A k \in Nat \ T : m <= k
  BY NatLeast
<1>2. m - 1 \in Nat
  BY <1>1
<1>3. m - 1 \in T
  BY <1>1, <1>2
<1>. QED BY <1>1, <1>2, <1>3

-----------------------------------------------------------------------------
(* Sequences. *)

LEMMA SeqIsSeq ==
  ASSUME NEW S, NEW s \in Seq(S)
  PROVE  IsSeq(s)
BY DEF IsSeq

LEMMA IsSeqSeq ==
  ASSUME NEW s, IsSeq(s)
  PROVE  s \in Seq(ToSet(s)) /\ Len(s) \in Nat /\ DOMAIN s = 1..Len(s)
BY DEF IsSeq, ToSet

LEMMA EmptyIsSeq == IsSeq(<<>>) /\ ToSet(<<>>) = {} /\ Len(<<>>) = 0
<1>1. <<>> \in Seq({})
  OBVIOUS
<1>2. DOMAIN <<>> = {}
  OBVIOUS
<1>. QED BY <1>1, <1>2, SeqIsSeq DEF ToSet

LEMMA LenZero ==
  ASSUME NEW s, IsSeq(s), Len(s) = 0
  PROVE  s = <<>> /\ ToSet(s) = {}
<1>1. s = <<>>
  BY IsSeqSeq
<1>. QED BY <1>1, EmptyIsSeq

LEMMA OneIsSeq ==
  ASSUME NEW e
  PROVE  IsSeq(<<e>>) /\ ToSet(<<e>>) = {e} /\ Len(<<e>>) = 1
<1>1. <<e>> \in Seq({e}) /\ Len(<<e>>) = 1
  OBVIOUS
<1>2. DOMAIN <<e>> = {1} /\ <<e>>[1] = e
  OBVIOUS
<1>. QED BY <1>1, <1>2, SeqIsSeq DEF ToSet

\* A function on the positions of a sequence is a sequence.
LEMMA MapIsSeq ==
  ASSUME NEW s, IsSeq(s), NEW t, t = [i \in DOMAIN s |-> t[i]]
  PROVE  IsSeq(t) /\ Len(t) = Len(s) /\ DOMAIN t = DOMAIN s
<1>1. DOMAIN s = 1..Len(s) /\ Len(s) \in Nat
  BY IsSeqSeq
<1>2. t \in [1..Len(s) -> ToSet(t)]
  BY <1>1 DEF ToSet
<1>3. t \in Seq(ToSet(t)) /\ Len(t) = Len(s)
  BY <1>1, <1>2
<1>. QED BY <1>1, <1>2, <1>3, SeqIsSeq

LEMMA ConcatIsSeq ==
  ASSUME NEW s, NEW t, IsSeq(s), IsSeq(t)
  PROVE  IsSeq(s \o t) /\ ToSet(s \o t) = ToSet(s) \cup ToSet(t)
<1>1. s \in Seq(ToSet(s) \cup ToSet(t)) /\ t \in Seq(ToSet(s) \cup ToSet(t))
  BY IsSeqSeq
<1>2. s \o t \in Seq(ToSet(s) \cup ToSet(t)) /\ Len(s \o t) = Len(s) + Len(t)
  BY <1>1
<1>3. \A i \in 1..Len(s) : (s \o t)[i] = s[i]
  BY <1>1
<1>4. \A i \in 1..Len(t) : (s \o t)[Len(s) + i] = t[i]
  BY <1>1
<1>5. \A i \in (Len(s) + 1)..(Len(s) + Len(t)) : (s \o t)[i] = t[i - Len(s)]
  BY <1>1
<1>6. DOMAIN (s \o t) = 1..(Len(s) + Len(t))
  BY <1>2
<1>7. DOMAIN s = 1..Len(s) /\ DOMAIN t = 1..Len(t) /\ Len(s) \in Nat /\ Len(t) \in Nat
  BY <1>1
<1>8. ToSet(s \o t) \subseteq ToSet(s) \cup ToSet(t)
  BY <1>3, <1>5, <1>6, <1>7 DEF ToSet
<1>9. ToSet(s) \subseteq ToSet(s \o t)
  BY <1>3, <1>6, <1>7 DEF ToSet
<1>10. ASSUME NEW i \in 1..Len(t) PROVE t[i] \in ToSet(s \o t)
  <2>1. Len(s) + i \in DOMAIN (s \o t) /\ (s \o t)[Len(s) + i] = t[i]
    BY <1>4, <1>6, <1>7
  <2>. QED BY <2>1 DEF ToSet
<1>11. ToSet(t) \subseteq ToSet(s \o t)
  BY <1>7, <1>10 DEF ToSet
<1>. QED BY <1>2, <1>8, <1>9, <1>11, SeqIsSeq

LEMMA AppendIsSeq ==
  ASSUME NEW s, IsSeq(s), NEW e
  PROVE  IsSeq(Append(s, e)) /\ ToSet(Append(s, e)) = ToSet(s) \cup {e}
<1>1. s \in Seq(ToSet(s) \cup {e})
  BY IsSeqSeq
<1>2. Append(s, e) = s \o <<e>>
  BY <1>1
<1>. QED BY <1>2, OneIsSeq, ConcatIsSeq

LEMMA TailIsSeq ==
  ASSUME NEW s, IsSeq(s), s # <<>>
  PROVE  /\ IsSeq(Tail(s)) /\ Len(Tail(s)) = Len(s) - 1
         /\ Len(s) > 0 /\ s[1] \in ToSet(s)
         /\ \A i \in 1..(Len(s) - 1) : Tail(s)[i] = s[i + 1]
         /\ ToSet(s) = {s[1]} \cup ToSet(Tail(s))
<1>1. s \in Seq(ToSet(s)) /\ Len(s) \in Nat /\ DOMAIN s = 1..Len(s)
  BY IsSeqSeq
<1>2. Len(s) > 0
  BY <1>1
<1>3. /\ Tail(s) \in Seq(ToSet(s)) /\ Len(Tail(s)) = Len(s) - 1
      /\ \A i \in 1..(Len(s) - 1) : Tail(s)[i] = s[i + 1]
  BY <1>1, <1>2
<1>4. DOMAIN Tail(s) = 1..(Len(s) - 1)
  BY <1>3
<1>5. ToSet(Tail(s)) \subseteq ToSet(s) /\ s[1] \in ToSet(s)
  BY <1>1, <1>2, <1>3, <1>4 DEF ToSet
<1>6. ASSUME NEW i \in 2..Len(s) PROVE s[i] \in ToSet(Tail(s))
  <2>1. i - 1 \in 1..(Len(s) - 1) /\ Tail(s)[i - 1] = s[i]
    BY <1>1, <1>3
  <2>. QED BY <2>1, <1>4 DEF ToSet
<1>7. ToSet(s) \subseteq {s[1]} \cup ToSet(Tail(s))
  BY <1>1, <1>6 DEF ToSet
<1>. QED BY <1>2, <1>3, <1>5, <1>7, SeqIsSeq

\* What Chosen returns: the elements at the chosen positions.
LEMMA ChosenProps ==
  ASSUME NEW s, IsSeq(s), NEW P
  PROVE  /\ IsSeq(Chosen(s, P))
         /\ ToSet(Chosen(s, P)) = {s[i] : i \in P \cap DOMAIN s}
<1>. DEFINE Body(n, F) == [i \in 0..n |-> IF i = 0 THEN <<>>
                                         ELSE IF i \in P THEN Append(F[i - 1], s[i]) ELSE F[i - 1]]
            T == {n \in Nat : \E F : F = Body(n, F)}
<1>1. 0 \in T
  <2>. DEFINE F == [i \in 0..0 |-> <<>>]
  <2>1. F = Body(0, F)
    OBVIOUS
  <2>. QED BY <2>1
<1>2. ASSUME NEW n \in Nat, n \in T PROVE n + 1 \in T
  <2>1. PICK F : F = Body(n, F)
    BY <1>2
  <2>. DEFINE G == [i \in 0..(n + 1) |-> IF i = n + 1
                                        THEN IF i \in P THEN Append(F[n], s[i]) ELSE F[n]
                                        ELSE F[i]]
  <2>2. ASSUME NEW i \in 0..(n + 1) PROVE G[i] = Body(n + 1, G)[i]
    <3>1. CASE i = n + 1
      BY <3>1
    <3>2. CASE i # n + 1
      <4>1. i \in 0..n /\ G[i] = F[i] /\ (i # 0 => G[i - 1] = F[i - 1])
        BY <3>2
      <4>. QED BY <2>1, <4>1
    <3>. QED BY <3>1, <3>2
  <2>3. G = Body(n + 1, G)
    BY <2>2
  <2>. HIDE DEF G
  <2>4. \E H : H = Body(n + 1, H)
    BY <2>3, Zenon
  <2>. HIDE DEF Body
  <2>. QED BY <2>4
<1>3. Len(s) \in Nat /\ DOMAIN s = 1..Len(s)
  BY IsSeqSeq
<1>4. Len(s) \in T
  <2>. HIDE DEF T
  <2>. QED BY <1>1, <1>2, <1>3, SetInduction
<1>. DEFINE F == CHOOSE F : F = Body(Len(s), F)
<1>5. F = Body(Len(s), F)
  BY <1>4
<1>6. Chosen(s, P) = F[Len(s)]
  BY DEF Chosen
<1>. HIDE DEF F
<1>. DEFINE U == {n \in Nat : n <= Len(s) =>
                     IsSeq(F[n]) /\ ToSet(F[n]) = {s[i] : i \in P \cap (1..n)}}
<1>7. 0 \in U
  <2>1. F[0] = <<>> /\ P \cap (1..0) = {}
    BY <1>3, <1>5
  <2>. QED BY <2>1, EmptyIsSeq
<1>8. ASSUME NEW n \in Nat, n \in U PROVE n + 1 \in U
  <2>. SUFFICES ASSUME n + 1 <= Len(s)
                PROVE  IsSeq(F[n + 1]) /\ ToSet(F[n + 1]) = {s[i] : i \in P \cap (1..(n + 1))}
    OBVIOUS
  <2>1. n <= Len(s) /\ n + 1 \in 0..Len(s) /\ n + 1 # 0 /\ (n + 1) - 1 = n
    BY <1>3
  <2>2. IsSeq(F[n]) /\ ToSet(F[n]) = {s[i] : i \in P \cap (1..n)}
    BY <1>8, <2>1
  <2>3. F[n + 1] = IF n + 1 \in P THEN Append(F[n], s[n + 1]) ELSE F[n]
    BY <1>5, <2>1
  <2>4. CASE n + 1 \in P
    <3>1. P \cap (1..(n + 1)) = (P \cap (1..n)) \cup {n + 1}
      BY <2>4
    <3>2. {s[i] : i \in P \cap (1..(n + 1))} = {s[i] : i \in P \cap (1..n)} \cup {s[n + 1]}
      BY <3>1
    <3>. QED BY <2>2, <2>3, <2>4, <3>2, AppendIsSeq
  <2>5. CASE n + 1 \notin P
    <3>1. P \cap (1..(n + 1)) = P \cap (1..n)
      BY <2>5
    <3>. QED BY <2>2, <2>3, <2>5, <3>1
  <2>. QED BY <2>4, <2>5
<1>9. Len(s) \in U
  <2>. HIDE DEF U
  <2>. QED BY <1>3, <1>7, <1>8, SetInduction
<1>. QED BY <1>3, <1>6, <1>9

\* FlattenSeq keeps every element of every part and adds none.
LEMMA FlattenProps ==
  ASSUME NEW s, IsSeq(s), \A i \in DOMAIN s : IsSeq(s[i])
  PROVE  /\ IsSeq(FlattenSeq(s))
         /\ ToSet(FlattenSeq(s)) = UNION {ToSet(s[i]) : i \in DOMAIN s}
<1>. DEFINE Body(n, F) == [i \in 1..n |-> IF i = 1 THEN s[i] ELSE F[i - 1] \o s[i]]
            T == {n \in Nat : \E F : F = Body(n, F)}
<1>1. 0 \in T
  <2>. DEFINE F == [i \in 1..0 |-> <<>>]
  <2>1. F = Body(0, F)
    OBVIOUS
  <2>. QED BY <2>1
<1>2. ASSUME NEW n \in Nat, n \in T PROVE n + 1 \in T
  <2>1. PICK F : F = Body(n, F)
    BY <1>2
  <2>. DEFINE G == [i \in 1..(n + 1) |-> IF i = n + 1
                                        THEN IF i = 1 THEN s[i] ELSE F[n] \o s[i]
                                        ELSE F[i]]
  <2>2. ASSUME NEW i \in 1..(n + 1) PROVE G[i] = Body(n + 1, G)[i]
    <3>1. CASE i = n + 1
      BY <3>1
    <3>2. CASE i # n + 1
      <4>1. i \in 1..n /\ G[i] = F[i] /\ (i # 1 => G[i - 1] = F[i - 1])
        BY <3>2
      <4>. QED BY <2>1, <4>1
    <3>. QED BY <3>1, <3>2
  <2>3. G = Body(n + 1, G)
    <3>1. G = [i \in 1..(n + 1) |-> G[i]] /\ Body(n + 1, G) = [i \in 1..(n + 1) |-> Body(n + 1, G)[i]]
      OBVIOUS
    <3>. HIDE DEF G, Body
    <3>. QED BY <2>2, <3>1
  <2>. HIDE DEF G
  <2>4. \E H : H = Body(n + 1, H)
    BY <2>3, Zenon
  <2>. HIDE DEF Body
  <2>. QED BY <2>4
<1>3. Len(s) \in Nat /\ DOMAIN s = 1..Len(s)
  BY IsSeqSeq
<1>4. Len(s) \in T
  <2>. HIDE DEF T
  <2>. QED BY <1>1, <1>2, <1>3, SetInduction
<1>5. CASE Len(s) = 0
  <2>1. FlattenSeq(s) = s /\ DOMAIN s = {}
    BY <1>3, <1>5 DEF FlattenSeq
  <2>. QED BY <2>1, <1>5, LenZero
<1>6. CASE Len(s) # 0
  <2>. DEFINE F == CHOOSE F : F = Body(Len(s), F)
  <2>1. F = Body(Len(s), F)
    BY <1>4
  <2>2. FlattenSeq(s) = F[Len(s)]
    BY <1>6 DEF FlattenSeq
  <2>. HIDE DEF F
  <2>. DEFINE U == {n \in Nat : n + 1 <= Len(s) =>
                       IsSeq(F[n + 1]) /\ ToSet(F[n + 1]) = UNION {ToSet(s[i]) : i \in 1..(n + 1)}}
  <2>3. 0 \in U
    <3>1. F[1] = s[1] /\ 1 \in DOMAIN s /\ 1..(0 + 1) = {1}
      BY <1>3, <1>6, <2>1
    <3>. QED BY <3>1
  <2>4. ASSUME NEW n \in Nat, n \in U PROVE n + 1 \in U
    <3>. SUFFICES ASSUME (n + 1) + 1 <= Len(s)
                  PROVE  /\ IsSeq(F[(n + 1) + 1])
                         /\ ToSet(F[(n + 1) + 1]) = UNION {ToSet(s[i]) : i \in 1..((n + 1) + 1)}
      OBVIOUS
    <3>. DEFINE m == (n + 1) + 1
    <3>1. n + 1 <= Len(s) /\ m \in 1..Len(s) /\ m # 1 /\ m - 1 = n + 1
      BY <1>3
    <3>2. IsSeq(F[n + 1]) /\ ToSet(F[n + 1]) = UNION {ToSet(s[i]) : i \in 1..(n + 1)}
      BY <2>4, <3>1
    <3>3. F[m] = F[n + 1] \o s[m]
      BY <2>1, <3>1
    <3>4. 1..m = (1..(n + 1)) \cup {m}
      OBVIOUS
    <3>5. IsSeq(s[m])
      BY <1>3, <3>1
    <3>6. IsSeq(F[m]) /\ ToSet(F[m]) = ToSet(F[n + 1]) \cup ToSet(s[m])
      BY <3>2, <3>3, <3>5, ConcatIsSeq
    <3>. HIDE DEF m
    <3>7. UNION {ToSet(s[i]) : i \in (1..(n + 1)) \cup {m}}
            = (UNION {ToSet(s[i]) : i \in 1..(n + 1)}) \cup ToSet(s[m])
      OBVIOUS
    <3>. QED BY <3>2, <3>4, <3>6, <3>7 DEF m
  <2>5. Len(s) - 1 \in U
    <3>1. Len(s) - 1 \in Nat
      BY <1>3, <1>6
    <3>. HIDE DEF U
    <3>. QED BY <2>3, <2>4, <3>1, SetInduction
  <2>6. (Len(s) - 1) + 1 = Len(s)
    BY <1>3
  <2>. QED BY <1>3, <2>2, <2>5, <2>6
<1>. QED BY <1>5, <1>6

\* An ordering of a finite set is a sequence of exactly its elements.
LEMMA OrderProps ==
  ASSUME NEW S, IsFiniteSet(S), NEW order \in SetToSeqs(S)
  PROVE  IsSeq(order) /\ ToSet(order) = S
<1>. DEFINE n == Cardinality(S)
            D == 1..n
<1>1. n \in Nat /\ IsFiniteSet(D) /\ Cardinality(D) = n
  BY FS_CardinalityType, FS_Interval
<1>2. order \in [D -> S] /\ \A i, j \in D : i # j => order[i] # order[j]
  BY DEF SetToSeqs
<1>. HIDE DEF n
<1>3. order \in Injection(D, S)
  BY <1>2 DEF Injection, IsInjective
<1>4. order \in Surjection(D, S)
  <2>1. Cardinality(D) = Cardinality(S)
    BY <1>1 DEF n
  <2>. HIDE DEF D
  <2>. QED BY <1>3, <2>1, FS_Injection
<1>5. \A x \in S : \E i \in D : order[i] = x
  BY <1>4 DEF Surjection
<1>6. order \in Seq(S) /\ DOMAIN order = D
  BY <1>1, <1>2
<1>7. IsSeq(order)
  BY <1>6, SeqIsSeq
<1>. QED BY <1>2, <1>5, <1>6, <1>7 DEF ToSet

\* The image of a finite set under a function is finite.
LEMMA ImageFinite ==
  ASSUME NEW S, IsFiniteSet(S), NEW f, DOMAIN f = S
  PROVE  IsFiniteSet({f[x] : x \in S})
<1>. DEFINE g == [x \in S |-> f[x]]
<1>1. g \in Surjection(S, {f[x] : x \in S})
  BY DEF Surjection
<1>. QED BY <1>1, FS_Surjection

\* Filter and the parsers' maps of names already seen, as sets.
LEMMA DedupProps ==
  ASSUME NEW s, IsSeq(s)
  PROVE  IsSeq(Dedup(s)) /\ ToSet(Dedup(s)) = ToSet(s)
<1>. DEFINE P == {i \in DOMAIN s : \A j \in 1..(i - 1) : s[j] # s[i]}
<1>1. IsSeq(Dedup(s)) /\ ToSet(Dedup(s)) = {s[i] : i \in P \cap DOMAIN s}
  BY ChosenProps DEF Dedup
<1>2. DOMAIN s = 1..Len(s) /\ Len(s) \in Nat
  BY IsSeqSeq
<1>3. ASSUME NEW i \in DOMAIN s PROVE \E k \in P : s[k] = s[i]
  <2>. DEFINE T == {k \in DOMAIN s : s[k] = s[i]}
  <2>1. T \in SUBSET Nat /\ T # {}
    BY <1>2
  <2>2. PICK k \in T : \A j \in T : k <= j
    BY <2>1, NatLeast
  <2>3. \A j \in 1..(k - 1) : s[j] # s[k]
    BY <1>2, <2>2
  <2>. QED BY <2>2, <2>3
<1>4. {s[i] : i \in P \cap DOMAIN s} = {s[i] : i \in DOMAIN s}
  <2>. HIDE DEF P
  <2>1. P \subseteq DOMAIN s
    BY DEF P
  <2>. QED BY <1>3, <2>1
<1>. QED BY <1>1, <1>4 DEF ToSet

-----------------------------------------------------------------------------
(* Reports. *)

\* What decides on the names of a report: the written name and the type of record.
Shown(es) == {<<e.host, e.hints.type>> : e \in ToSet(es)}

\* The names that pass validation, as the reconciler keys them.
ValidNames(es) == {NormalizeHostname(e.host) : e \in {x \in ToSet(es) : Validate(x)}}

LEMMA ShownDecides ==
  ASSUME NEW a, NEW b, Shown(a) \subseteq Shown(b)
  PROVE  ValidNames(a) \subseteq ValidNames(b)
<1>. SUFFICES ASSUME NEW e \in ToSet(a), Validate(e) PROVE NormalizeHostname(e.host) \in ValidNames(b)
  BY DEF ValidNames
<1>0. <<e.host, e.hints.type>> \in Shown(b)
  BY DEF Shown
<1>1. PICK x \in ToSet(b) : <<e.host, e.hints.type>> = <<x.host, x.hints.type>>
  BY <1>0, Zenon DEF Shown
<1>2. x.host = e.host /\ x.hints.type = e.hints.type
  BY <1>1
<1>3. Validate(x)
  BY <1>2 DEF Validate
<1>. QED BY <1>2, <1>3 DEF ValidNames

LEMMA ValidateAllProps ==
  ASSUME NEW es, IsSeq(es)
  PROVE  /\ IsSeq(ValidateAll(es))
         /\ ToSet(ValidateAll(es)) = {e \in ToSet(es) : Validate(e)}
<1>. DEFINE P == {i \in DOMAIN es : Validate(es[i])}
<1>1. IsSeq(ValidateAll(es)) /\ ToSet(ValidateAll(es)) = {es[i] : i \in P \cap DOMAIN es}
  BY ChosenProps DEF ValidateAll, Filter
<1>. QED BY <1>1 DEF ToSet

\* The labels and names that a lister puts into a workload.
IsWorkload(w) ==
    IsLabels(w.labels) /\ IsLabels(w.annotations) /\ IsSeq(w.hostnames) /\ IsSeq(w.tags)

-----------------------------------------------------------------------------
(* sources/traefik *)

\* A router reports each host of its rule, and nothing else, whatever its entrypoints.
LEMMA RouterProps ==
  ASSUME NEW r, NEW hosts, IsSeq(hosts), NEW declared, IsSeq(declared)
  PROVE  /\ IsSeq(RouterExtractions(r, hosts, declared))
         /\ {e[1] : e \in ToSet(RouterExtractions(r, hosts, declared))} = ToSet(hosts)
<1>. DEFINE eps == IF declared # <<>> THEN declared
                  ELSE IF DefaultEntryPoints # <<>> THEN DefaultEntryPoints ELSE <<"">>
            hs == Dedup(hosts)
            of(h) == [k \in DOMAIN eps |-> <<h, r, eps[k]>>]
            parts == [i \in DOMAIN hs |-> of(hs[i])]
<1>1. IsSeq(eps) /\ eps # <<>>
  BY SourcesAssumption, OneIsSeq
<1>2. IsSeq(hs) /\ ToSet(hs) = ToSet(hosts)
  BY DedupProps
<1>3. RouterExtractions(r, hosts, declared) = FlattenSeq(parts)
  BY DEF RouterExtractions, MapSeq
<1>. HIDE DEF eps, hs
<1>4. ASSUME NEW h PROVE IsSeq(of(h)) /\ DOMAIN of(h) = DOMAIN eps
  BY <1>1, MapIsSeq
<1>5. IsSeq(parts) /\ DOMAIN parts = DOMAIN hs
  BY <1>2, MapIsSeq
<1>6. /\ IsSeq(FlattenSeq(parts))
      /\ ToSet(FlattenSeq(parts)) = UNION {ToSet(parts[i]) : i \in DOMAIN parts}
  BY <1>4, <1>5, FlattenProps
<1>7. \A h : ToSet(of(h)) = {<<h, r, eps[k]>> : k \in DOMAIN eps}
  BY DEF ToSet
<1>8. 1 \in DOMAIN eps
  BY <1>1, TailIsSeq, IsSeqSeq
<1>9. ASSUME NEW e \in ToSet(FlattenSeq(parts)) PROVE e[1] \in ToSet(hosts)
  <2>1. PICK i \in DOMAIN hs : e \in ToSet(of(hs[i]))
    BY <1>5, <1>6
  <2>2. PICK k \in DOMAIN eps : e = <<hs[i], r, eps[k]>>
    BY <1>7, <2>1, Zenon
  <2>3. e[1] = hs[i]
    BY <2>2
  <2>. QED BY <1>2, <2>3 DEF ToSet
<1>10. ASSUME NEW h \in ToSet(hosts) PROVE \E e \in ToSet(FlattenSeq(parts)) : e[1] = h
  <2>1. PICK i \in DOMAIN hs : hs[i] = h
    BY <1>2 DEF ToSet
  <2>2. <<h, r, eps[1]>> \in ToSet(parts[i])
    BY <1>7, <1>8, <2>1
  <2>3. <<h, r, eps[1]>> \in ToSet(FlattenSeq(parts))
    BY <1>5, <1>6, <2>2
  <2>4. <<h, r, eps[1]>>[1] = h
    OBVIOUS
  <2>. QED BY <2>3, <2>4
<1>. HIDE DEF parts
<1>. QED BY <1>3, <1>6, <1>9, <1>10

LEMMA FirstOfPairProps ==
  ASSUME NEW es, IsSeq(es)
  PROVE  /\ IsSeq(FirstOfPair(es)) /\ ToSet(FirstOfPair(es)) \subseteq ToSet(es)
         /\ {e[1] : e \in ToSet(FirstOfPair(es))} = {e[1] : e \in ToSet(es)}
<1>. DEFINE P == {i \in DOMAIN es : \A j \in 1..(i - 1) : ~(es[j][1] = es[i][1] /\ es[j][3] = es[i][3])}
<1>1. IsSeq(FirstOfPair(es)) /\ ToSet(FirstOfPair(es)) = {es[i] : i \in P \cap DOMAIN es}
  BY ChosenProps DEF FirstOfPair
<1>2. DOMAIN es = 1..Len(es) /\ Len(es) \in Nat
  BY IsSeqSeq
<1>3. ASSUME NEW i \in DOMAIN es PROVE \E k \in P : es[k][1] = es[i][1]
  <2>. DEFINE T == {k \in DOMAIN es : es[k][1] = es[i][1] /\ es[k][3] = es[i][3]}
  <2>1. T \in SUBSET Nat /\ T # {}
    BY <1>2
  <2>2. PICK k \in T : \A j \in T : k <= j
    BY <2>1, NatLeast
  <2>3. \A j \in 1..(k - 1) : ~(es[j][1] = es[k][1] /\ es[j][3] = es[k][3])
    BY <1>2, <2>2
  <2>. QED BY <2>2, <2>3
<1>4. P \subseteq DOMAIN es
  OBVIOUS
<1>. HIDE DEF P
<1>5. ToSet(FirstOfPair(es)) \subseteq ToSet(es)
  BY <1>1 DEF ToSet
<1>6. ASSUME NEW e \in ToSet(es) PROVE \E x \in ToSet(FirstOfPair(es)) : x[1] = e[1]
  <2>1. PICK i \in DOMAIN es : es[i] = e
    BY DEF ToSet
  <2>2. PICK k \in P : es[k][1] = es[i][1]
    BY <1>3
  <2>3. es[k] \in ToSet(FirstOfPair(es))
    BY <1>1, <1>4
  <2>. QED BY <2>1, <2>2, <2>3
<1>. QED BY <1>1, <1>5, <1>6

\* Parts in any order: the flattening holds the elements of all of them.
LEMMA AnyOrder ==
  ASSUME NEW R, IsFiniteSet(R), NEW order \in SetToSeqs(R),
         NEW X, \A r \in R : IsSeq(X[r]),
         NEW parts, parts = [i \in DOMAIN order |-> X[order[i]]]
  PROVE  IsSeq(FlattenSeq(parts)) /\ ToSet(FlattenSeq(parts)) = UNION {ToSet(X[r]) : r \in R}
<1>1. IsSeq(order) /\ ToSet(order) = R
  BY OrderProps
<1>2. \A i \in DOMAIN order : order[i] \in R
  BY <1>1 DEF ToSet
<1>3. \A r \in R : \E i \in DOMAIN order : order[i] = r
  BY <1>1 DEF ToSet
<1>4. parts = [i \in DOMAIN order |-> parts[i]]
  OBVIOUS
<1>5. IsSeq(parts) /\ DOMAIN parts = DOMAIN order
  BY <1>1, <1>4, MapIsSeq
<1>6. \A i \in DOMAIN parts : IsSeq(parts[i])
  BY <1>2, <1>5
<1>7. /\ IsSeq(FlattenSeq(parts))
      /\ ToSet(FlattenSeq(parts)) = UNION {ToSet(parts[i]) : i \in DOMAIN parts}
  BY <1>5, <1>6, FlattenProps
<1>8. UNION {ToSet(parts[i]) : i \in DOMAIN parts} \subseteq UNION {ToSet(X[r]) : r \in R}
  BY <1>2, <1>5
<1>9. ASSUME NEW r \in R PROVE ToSet(X[r]) \subseteq UNION {ToSet(parts[i]) : i \in DOMAIN parts}
  <2>1. PICK i \in DOMAIN order : order[i] = r
    BY <1>3
  <2>2. parts[i] = X[r] /\ i \in DOMAIN parts
    BY <1>5, <2>1
  <2>. QED BY <2>2
<1>. QED BY <1>7, <1>8, <1>9

\* TraefikHostname keeps the host and gives no hints.
LEMMA TraefikHostnames ==
  ASSUME NEW xs, IsSeq(xs)
  PROVE  /\ IsSeq(MapSeq(TraefikHostname, xs))
         /\ \A e \in ToSet(MapSeq(TraefikHostname, xs)) : e.source = "traefik"
         /\ Shown(MapSeq(TraefikHostname, xs)) = {<<x[1], "">> : x \in ToSet(xs)}
<1>. DEFINE es == [i \in DOMAIN xs |-> TraefikHostname(xs[i])]
<1>1. MapSeq(TraefikHostname, xs) = es
  BY DEF MapSeq
<1>2. IsSeq(es) /\ DOMAIN es = DOMAIN xs
  BY MapIsSeq
<1>3. \A i \in DOMAIN xs : es[i].source = "traefik" /\ es[i].host = xs[i][1] /\ es[i].hints.type = ""
  BY DEF TraefikHostname, Hostname, NoHints
<1>. HIDE DEF es
<1>4. \A e \in ToSet(es) : e.source = "traefik"
  BY <1>2, <1>3 DEF ToSet
<1>5. Shown(es) = {<<es[i].host, es[i].hints.type>> : i \in DOMAIN es}
  BY Zenon DEF Shown, ToSet
<1>6. {<<x[1], "">> : x \in ToSet(xs)} = {<<xs[i][1], "">> : i \in DOMAIN xs}
  BY Zenon DEF ToSet
<1>7. {<<es[i].host, es[i].hints.type>> : i \in DOMAIN es} = {<<xs[i][1], "">> : i \in DOMAIN xs}
  BY <1>2, <1>3
<1>. QED BY <1>1, <1>2, <1>4, <1>5, <1>6, <1>7

RuleKeys(labels) == {k \in DOMAIN labels : k[1] = "traefik" /\ k[3] = "rule"}

LEMMA RuleKey ==
  ASSUME NEW labels, IsLabels(labels), NEW k \in RuleKeys(labels)
  PROVE  k = <<"traefik", k[2], "rule">> /\ IsSeq(labels[k]) /\ k \in DOMAIN labels
<1>1. Entry(k, labels[k]) /\ k \in DOMAIN labels /\ k[1] = "traefik" /\ k[3] = "rule"
  BY DEF IsLabels, RuleKeys
<1>2. IsSeq(k) /\ Len(k) = 3
  BY <1>1 DEF Entry
<1>3. k = [i \in 1..3 |-> k[i]]
  BY <1>2 DEF IsSeq
<1>4. k = <<"traefik", k[2], "rule">>
  BY <1>1, <1>3
<1>5. IsSeq(labels[k])
  BY <1>1 DEF Entry, ListValued
<1>. QED BY <1>1, <1>4, <1>5

\* TraefikExtract reports the hosts of every rule label, in whatever order it meets them.
LEMMA TraefikReports ==
  ASSUME NEW w, IsLabels(w.labels), NEW es \in TraefikExtract(w)
  PROVE  /\ IsSeq(es) /\ \A e \in ToSet(es) : e.source = "traefik"
         /\ Shown(es) = {<<h, "">> : h \in UNION {ToSet(w.labels[k]) : k \in RuleKeys(w.labels)}}
<1>. DEFINE L == w.labels
            R == {k[2] : k \in RuleKeys(L)}
            X == [r \in R |-> RouterExtractions(r, L[<<"traefik", r, "rule">>],
                                                Get(L, <<"traefik", r, "entrypoints">>, <<>>))]
            Parts(order) == [i \in DOMAIN order |-> X[order[i]]]
<1>1. PICK xs \in TraefikLabels(L) : es = MapSeq(TraefikHostname, xs)
  BY Zenon DEF TraefikExtract
<1>2. IsFiniteSet(R)
  <2>1. IsFiniteSet(RuleKeys(L))
    BY FS_Subset DEF IsLabels, RuleKeys
  <2>. DEFINE f == [k \in RuleKeys(L) |-> k[2]]
  <2>2. R = {f[k] : k \in RuleKeys(L)}
    OBVIOUS
  <2>. HIDE DEF f, R
  <2>3. DOMAIN f = RuleKeys(L)
    BY DEF f
  <2>. QED BY <2>1, <2>2, <2>3, ImageFinite
<1>3. PICK order \in SetToSeqs(R) : xs = FirstOfPair(FlattenSeq(Parts(order)))
  <2>1. PICK order \in SetToSeqs(R) :
           xs = FirstOfPair(FlattenSeq([i \in DOMAIN order |->
                    RouterExtractions(order[i], L[<<"traefik", order[i], "rule">>],
                                      Get(L, <<"traefik", order[i], "entrypoints">>, <<>>))]))
    BY <1>1, Zenon DEF TraefikLabels, MapSeq, RuleKeys
  <2>. HIDE DEF R
  <2>2. \A i \in DOMAIN order : order[i] \in R
    BY <1>2, OrderProps DEF ToSet
  <2>3. Parts(order) = [i \in DOMAIN order |->
                    RouterExtractions(order[i], L[<<"traefik", order[i], "rule">>],
                                      Get(L, <<"traefik", order[i], "entrypoints">>, <<>>))]
    BY <2>2
  <2>. QED BY <2>1, <2>3
<1>4. ASSUME NEW r \in R
      PROVE  /\ IsSeq(X[r]) /\ <<"traefik", r, "rule">> \in RuleKeys(L)
             /\ {e[1] : e \in ToSet(X[r])} = ToSet(L[<<"traefik", r, "rule">>])
  <2>1. PICK k \in RuleKeys(L) : k[2] = r
    OBVIOUS
  <2>2. k = <<"traefik", r, "rule">> /\ IsSeq(L[k])
    BY <2>1, RuleKey
  <2>. DEFINE ep == <<"traefik", r, "entrypoints">>
  <2>3. ep \in DOMAIN L => IsSeq(L[ep])
    <3>1. ep[1] = "traefik"
      OBVIOUS
    <3>2. ep \in DOMAIN L => Entry(ep, L[ep])
      BY DEF IsLabels
    <3>. HIDE DEF ep
    <3>. QED BY <3>1, <3>2 DEF Entry, ListValued
  <2>4. IsSeq(Get(L, ep, <<>>))
    BY <2>3, EmptyIsSeq DEF Get
  <2>. HIDE DEF ep
  <2>5. X[r] = RouterExtractions(r, L[k], Get(L, ep, <<>>))
    BY <2>2 DEF ep
  <2>. QED BY <2>2, <2>4, <2>5, RouterProps
<1>. HIDE DEF X
<1>. DEFINE flat == FlattenSeq(Parts(order))
<1>5. IsSeq(flat) /\ ToSet(flat) = UNION {ToSet(X[r]) : r \in R}
  <2>1. \A r \in R : IsSeq(X[r])
    BY <1>4
  <2>. DEFINE parts == Parts(order)
  <2>2. parts = [i \in DOMAIN order |-> X[order[i]]]
    OBVIOUS
  <2>. HIDE DEF R, parts
  <2>3. IsSeq(FlattenSeq(parts)) /\ ToSet(FlattenSeq(parts)) = UNION {ToSet(X[r]) : r \in R}
    BY <1>2, <2>1, <2>2, AnyOrder
  <2>. QED BY <2>3 DEF parts
<1>. HIDE DEF flat
<1>6. {e[1] : e \in ToSet(flat)} = UNION {ToSet(L[k]) : k \in RuleKeys(L)}
  <2>1. ASSUME NEW e \in ToSet(flat) PROVE e[1] \in UNION {ToSet(L[k]) : k \in RuleKeys(L)}
    <3>1. PICK r \in R : e \in ToSet(X[r])
      BY <1>5
    <3>. QED BY <1>4, <3>1
  <2>2. ASSUME NEW k \in RuleKeys(L), NEW h \in ToSet(L[k]) PROVE \E e \in ToSet(flat) : e[1] = h
    <3>1. k[2] \in R /\ k = <<"traefik", k[2], "rule">>
      BY RuleKey
    <3>2. {e[1] : e \in ToSet(X[k[2]])} = ToSet(L[k])
      BY <1>4, <3>1
    <3>3. PICK e \in ToSet(X[k[2]]) : e[1] = h
      BY <3>2
    <3>. QED BY <1>5, <3>1, <3>3
  <2>. QED BY <2>1, <2>2
<1>7. IsSeq(xs) /\ {e[1] : e \in ToSet(xs)} = {e[1] : e \in ToSet(flat)}
  BY <1>3, <1>5, FirstOfPairProps DEF flat
<1>8. IsSeq(es) /\ (\A e \in ToSet(es) : e.source = "traefik") /\ Shown(es) = {<<x[1], "">> : x \in ToSet(xs)}
  BY <1>1, <1>7, TraefikHostnames
<1>9. {<<x[1], "">> : x \in ToSet(xs)} = {<<h, "">> : h \in {x[1] : x \in ToSet(xs)}}
  BY Zenon
<1>. QED BY <1>6, <1>7, <1>8, <1>9

\* A file reports the hosts of all its rules.
LEMMA FileReports ==
  ASSUME NEW routers, IsFiniteSet(DOMAIN routers),
         \A r \in DOMAIN routers : IsSeq(routers[r].rule) /\ IsSeq(routers[r].entryPoints),
         NEW xs \in ExtractFromConfig(routers)
  PROVE  /\ IsSeq(MapSeq(TraefikHostname, xs))
         /\ \A e \in ToSet(MapSeq(TraefikHostname, xs)) : e.source = "traefik"
         /\ Shown(MapSeq(TraefikHostname, xs))
              = {<<h, "">> : h \in UNION {ToSet(routers[r].rule) : r \in DOMAIN routers}}
<1>. DEFINE X == [r \in DOMAIN routers |-> RouterExtractions(r, routers[r].rule, routers[r].entryPoints)]
            Parts(order) == [i \in DOMAIN order |-> X[order[i]]]
<1>1. \A r \in DOMAIN routers : IsSeq(X[r]) /\ {e[1] : e \in ToSet(X[r])} = ToSet(routers[r].rule)
  BY RouterProps
<1>2. PICK order \in SetToSeqs(DOMAIN routers) : xs = FlattenSeq(Parts(order))
  <2>1. PICK order \in SetToSeqs(DOMAIN routers) :
           xs = FlattenSeq([i \in DOMAIN order |->
                    RouterExtractions(order[i], routers[order[i]].rule, routers[order[i]].entryPoints)])
    BY Zenon DEF ExtractFromConfig, MapSeq
  <2>2. \A i \in DOMAIN order : order[i] \in DOMAIN routers
    BY OrderProps DEF ToSet
  <2>3. Parts(order) = [i \in DOMAIN order |->
                    RouterExtractions(order[i], routers[order[i]].rule, routers[order[i]].entryPoints)]
    BY <2>2
  <2>. QED BY <2>1, <2>3
<1>. DEFINE parts == Parts(order)
<1>3. parts = [i \in DOMAIN order |-> X[order[i]]]
  OBVIOUS
<1>. HIDE DEF X, parts
<1>4. IsSeq(xs) /\ ToSet(xs) = UNION {ToSet(X[r]) : r \in DOMAIN routers}
  BY <1>1, <1>2, <1>3, AnyOrder DEF parts
<1>5. {x[1] : x \in ToSet(xs)} = UNION {ToSet(routers[r].rule) : r \in DOMAIN routers}
  <2>1. ASSUME NEW x \in ToSet(xs) PROVE x[1] \in UNION {ToSet(routers[r].rule) : r \in DOMAIN routers}
    <3>1. PICK r \in DOMAIN routers : x \in ToSet(X[r])
      BY <1>4
    <3>. QED BY <1>1, <3>1
  <2>2. ASSUME NEW r \in DOMAIN routers, NEW h \in ToSet(routers[r].rule) PROVE \E x \in ToSet(xs) : x[1] = h
    <3>1. PICK x \in ToSet(X[r]) : x[1] = h
      BY <1>1
    <3>. QED BY <1>4, <3>1
  <2>. QED BY <2>1, <2>2
<1>6. {<<x[1], "">> : x \in ToSet(xs)} = {<<h, "">> : h \in {x[1] : x \in ToSet(xs)}}
  BY Zenon
<1>. QED BY <1>4, <1>5, <1>6, TraefikHostnames

-----------------------------------------------------------------------------
(* sources/caddy and sources/nginxproxy *)

LEMMA FirstOfNameProps ==
  ASSUME NEW s, IsSeq(s), NEW P, P = {i \in DOMAIN s : \A j \in 1..(i - 1) : s[j][1] # s[i][1]}
  PROVE  /\ IsSeq(Chosen(s, P))
         /\ {x[1] : x \in ToSet(Chosen(s, P))} = {x[1] : x \in ToSet(s)}
<1>1. IsSeq(Chosen(s, P)) /\ ToSet(Chosen(s, P)) = {s[i] : i \in P \cap DOMAIN s}
  BY ChosenProps
<1>2. DOMAIN s = 1..Len(s) /\ Len(s) \in Nat
  BY IsSeqSeq
<1>3. ASSUME NEW i \in DOMAIN s PROVE \E k \in P : s[k][1] = s[i][1]
  <2>. DEFINE T == {k \in DOMAIN s : s[k][1] = s[i][1]}
  <2>1. T \in SUBSET Nat /\ T # {}
    BY <1>2
  <2>2. PICK k \in T : \A j \in T : k <= j
    BY <2>1, NatLeast
  <2>3. \A j \in 1..(k - 1) : s[j][1] # s[k][1]
    BY <1>2, <2>2
  <2>. QED BY <2>2, <2>3
<1>4. P \subseteq DOMAIN s
  OBVIOUS
<1>5. ASSUME NEW x \in ToSet(s) PROVE \E y \in ToSet(Chosen(s, P)) : y[1] = x[1]
  <2>1. PICK i \in DOMAIN s : s[i] = x
    BY DEF ToSet
  <2>2. PICK k \in P : s[k][1] = s[i][1]
    BY <1>3
  <2>3. s[k] \in ToSet(Chosen(s, P))
    BY <1>1, <1>4
  <2>. QED BY <2>1, <2>2, <2>3
<1>6. ToSet(Chosen(s, P)) \subseteq ToSet(s)
  BY <1>1 DEF ToSet
<1>. QED BY <1>1, <1>5, <1>6

\* The lower-cased names under some keys, as a report shows them.
LoweredNames(labels, K) == {<<h, "">> : h \in UNION {{LowerCase(n) : n \in ToSet(labels[k])} : k \in K}}

LEMMA KeyedReports ==
  ASSUME NEW source, NEW labels, NEW keys, IsSeq(keys), \A k \in ToSet(keys) : IsSeq(labels[k])
  PROVE  /\ IsSeq(KeyedNames(source, keys, labels))
         /\ \A e \in ToSet(KeyedNames(source, keys, labels)) : e.source = source
         /\ Shown(KeyedNames(source, keys, labels)) = LoweredNames(labels, ToSet(keys))
<1>. DEFINE of(k) == [j \in DOMAIN labels[k] |-> <<LowerCase(labels[k][j]), k>>]
            parts == [i \in DOMAIN keys |-> of(keys[i])]
            names == FlattenSeq(parts)
            first == Chosen(names, {i \in DOMAIN names : \A j \in 1..(i - 1) : names[j][1] # names[i][1]})
            es == [i \in DOMAIN first |-> Hostname(first[i][1], source, "", NoHints, "")]
<1>1. KeyedNames(source, keys, labels) = es
  BY DEF KeyedNames, MapSeq
<1>2. \A k \in ToSet(keys) : IsSeq(of(k)) /\ DOMAIN of(k) = DOMAIN labels[k]
  BY MapIsSeq
<1>3. IsSeq(parts) /\ DOMAIN parts = DOMAIN keys
  BY MapIsSeq
<1>4. \A i \in DOMAIN keys : keys[i] \in ToSet(keys)
  BY DEF ToSet
<1>5. IsSeq(names) /\ ToSet(names) = UNION {ToSet(parts[i]) : i \in DOMAIN parts}
  BY <1>2, <1>3, <1>4, FlattenProps
<1>6. {x[1] : x \in ToSet(names)} = UNION {{LowerCase(n) : n \in ToSet(labels[k])} : k \in ToSet(keys)}
  <2>. HIDE DEF names
  <2>1. ASSUME NEW x \in ToSet(names)
        PROVE  \E k \in ToSet(keys) : \E n \in ToSet(labels[k]) : x[1] = LowerCase(n)
    <3>1. PICK i \in DOMAIN keys : x \in ToSet(of(keys[i]))
      BY <1>3, <1>5
    <3>2. PICK j \in DOMAIN labels[keys[i]] : x = <<LowerCase(labels[keys[i]][j]), keys[i]>>
      BY <1>2, <1>4, <3>1 DEF ToSet
    <3>3. labels[keys[i]][j] \in ToSet(labels[keys[i]])
      BY DEF ToSet
    <3>. QED BY <1>4, <3>2, <3>3
  <2>2. ASSUME NEW k \in ToSet(keys), NEW n \in ToSet(labels[k])
        PROVE  \E x \in ToSet(names) : x[1] = LowerCase(n)
    <3>1. PICK i \in DOMAIN keys : keys[i] = k
      BY DEF ToSet
    <3>2. PICK j \in DOMAIN labels[k] : labels[k][j] = n
      BY DEF ToSet
    <3>. DEFINE x == <<LowerCase(n), k>>
    <3>3. of(k)[j] = x /\ j \in DOMAIN of(k)
      BY <3>2
    <3>4. x \in ToSet(of(k))
      BY <3>3 DEF ToSet
    <3>5. x \in ToSet(parts[i]) /\ i \in DOMAIN parts
      BY <1>3, <3>1, <3>4
    <3>. HIDE DEF parts, x
    <3>6. x \in ToSet(names)
      BY <1>5, <3>5
    <3>7. x[1] = LowerCase(n)
      BY DEF x
    <3>. QED BY <3>6, <3>7
  <2>. QED BY <2>1, <2>2
<1>. HIDE DEF names
<1>7. IsSeq(first) /\ {x[1] : x \in ToSet(first)} = {x[1] : x \in ToSet(names)}
  <2>. DEFINE P == {i \in DOMAIN names : \A j \in 1..(i - 1) : names[j][1] # names[i][1]}
  <2>1. P = {i \in DOMAIN names : \A j \in 1..(i - 1) : names[j][1] # names[i][1]} /\ first = Chosen(names, P)
    OBVIOUS
  <2>. HIDE DEF P, first
  <2>. QED BY <1>5, <2>1, FirstOfNameProps
<1>. HIDE DEF first
<1>8. IsSeq(es) /\ DOMAIN es = DOMAIN first
  BY <1>7, MapIsSeq
<1>9. \A i \in DOMAIN first : es[i].source = source /\ es[i].host = first[i][1] /\ es[i].hints.type = ""
  BY DEF Hostname, NoHints
<1>. HIDE DEF es
<1>10. \A e \in ToSet(es) : e.source = source
  BY <1>8, <1>9 DEF ToSet
<1>11. Shown(es) = {<<es[i].host, es[i].hints.type>> : i \in DOMAIN es}
  BY Zenon DEF Shown, ToSet
<1>12. {<<h, "">> : h \in {x[1] : x \in ToSet(first)}} = {<<first[i][1], "">> : i \in DOMAIN first}
  BY Zenon DEF ToSet
<1>13. {<<es[i].host, es[i].hints.type>> : i \in DOMAIN es} = {<<first[i][1], "">> : i \in DOMAIN first}
  BY <1>8, <1>9
<1>. QED BY <1>1, <1>6, <1>7, <1>8, <1>10, <1>11, <1>12, <1>13 DEF LoweredNames

LEMMA CaddyReports ==
  ASSUME NEW w, IsLabels(w.labels), NEW es \in CaddyExtract(w)
  PROVE  /\ IsSeq(es) /\ \A e \in ToSet(es) : e.source = "caddy"
         /\ Shown(es) = LoweredNames(w.labels, {k \in DOMAIN w.labels : k[1] = "caddy"})
<1>. DEFINE K == {k \in DOMAIN w.labels : k[1] = "caddy"}
<1>1. PICK keys \in SetToSeqs(K) : es = KeyedNames("caddy", keys, w.labels)
  BY Zenon DEF CaddyExtract
<1>2. IsFiniteSet(K) /\ \A k \in K : IsSeq(w.labels[k])
  BY FS_Subset DEF IsLabels, Entry, ListValued
<1>. HIDE DEF K
<1>3. IsSeq(keys) /\ ToSet(keys) = K
  BY <1>1, <1>2, OrderProps
<1>4. \A k \in ToSet(keys) : IsSeq(w.labels[k])
  BY <1>2, <1>3
<1>5. /\ IsSeq(es) /\ \A e \in ToSet(es) : e.source = "caddy"
      /\ Shown(es) = LoweredNames(w.labels, ToSet(keys))
  BY <1>1, <1>3, <1>4, KeyedReports
<1>. QED BY <1>3, <1>5 DEF K

LEMMA NginxProxyReports ==
  ASSUME NEW w, IsLabels(w.labels), NEW es \in NginxProxyExtract(w)
  PROVE  /\ IsSeq(es) /\ \A e \in ToSet(es) : e.source = "nginx-proxy"
         /\ NginxProxyExtract(w) = {es}
         /\ w.labels = NoMap => ToSet(es) = {}
<1>. DEFINE ks == <<<<"VIRTUAL_HOST">>, <<"com.nginx-proxy.virtual_host">>>>
            P == {i \in DOMAIN ks : ks[i] \in DOMAIN w.labels}
            keys == Chosen(ks, P)
<1>1. es = KeyedNames("nginx-proxy", keys, w.labels) /\ NginxProxyExtract(w) = {es}
  BY DEF NginxProxyExtract, Filter
<1>2. IsSeq(ks) /\ DOMAIN ks = {1, 2} /\ \A i \in DOMAIN ks : ks[i][1] \in {"VIRTUAL_HOST", "com.nginx-proxy.virtual_host"}
  <2>1. ks \in Seq({<<"VIRTUAL_HOST">>, <<"com.nginx-proxy.virtual_host">>})
    OBVIOUS
  <2>2. DOMAIN ks = {1, 2} /\ ks[1][1] = "VIRTUAL_HOST" /\ ks[2][1] = "com.nginx-proxy.virtual_host"
    OBVIOUS
  <2>3. IsSeq(ks)
    BY <2>1, SeqIsSeq
  <2>. HIDE DEF ks
  <2>. QED BY <2>2, <2>3
<1>. HIDE DEF ks
<1>3. IsSeq(keys) /\ ToSet(keys) = {ks[i] : i \in P \cap DOMAIN ks}
  BY <1>2, ChosenProps
<1>. HIDE DEF keys
<1>4. \A k \in ToSet(keys) : k \in DOMAIN w.labels /\ k[1] \in {"VIRTUAL_HOST", "com.nginx-proxy.virtual_host"}
  BY <1>2, <1>3
<1>5. \A k \in ToSet(keys) : IsSeq(w.labels[k])
  BY <1>4 DEF IsLabels, Entry, ListValued
<1>6. /\ IsSeq(es) /\ \A e \in ToSet(es) : e.source = "nginx-proxy"
      /\ Shown(es) = LoweredNames(w.labels, ToSet(keys))
  BY <1>1, <1>3, <1>5, KeyedReports
<1>7. ASSUME w.labels = NoMap PROVE ToSet(es) = {}
  <2>1. ToSet(keys) = {}
    BY <1>4, <1>7 DEF NoMap
  <2>2. Shown(es) = {}
    BY <1>6, <2>1 DEF LoweredNames
  <2>. QED BY <2>2, Zenon DEF Shown
<1>. QED BY <1>1, <1>6, <1>7

-----------------------------------------------------------------------------
(* sources/dnsweaver *)

\* A key with another first part.
LEMMA Renamed ==
  ASSUME NEW x, IsSeq(x), x # <<>>, NEW c
  PROVE  LET y == <<c>> \o Tail(x)
         IN  /\ IsSeq(y) /\ Len(y) = Len(x) /\ y[1] = c /\ Tail(y) = Tail(x) /\ y # <<>>
             /\ \A i \in 2..Len(x) : y[i] = x[i]
             /\ c = x[1] => y = x
<1>. DEFINE S == ToSet(x) \cup {c}
            y == <<c>> \o Tail(x)
<1>1. x \in Seq(S) /\ Len(x) \in Nat /\ Len(x) > 0
  BY IsSeqSeq, TailIsSeq
<1>2. Tail(x) \in Seq(S) /\ Len(Tail(x)) = Len(x) - 1 /\ \A i \in 1..(Len(x) - 1) : Tail(x)[i] = x[i + 1]
  BY <1>1
<1>3. y \in Seq(S) /\ Len(y) = Len(x) /\ y[1] = c
  BY <1>1, <1>2
<1>4. \A i \in 2..Len(x) : y[i] = x[i]
  <2>. SUFFICES ASSUME NEW i \in 2..Len(x) PROVE y[i] = x[i]
    OBVIOUS
  <2>1. i - 1 \in 1..(Len(x) - 1) /\ y[i] = Tail(x)[i - 1]
    BY <1>1, <1>2
  <2>. QED BY <1>1, <1>2, <2>1
<1>5. Tail(y) \in Seq(S) /\ Len(Tail(y)) = Len(x) - 1 /\ \A i \in 1..(Len(x) - 1) : Tail(y)[i] = y[i + 1]
  BY <1>1, <1>3
<1>6. \A i \in 1..(Len(x) - 1) : Tail(y)[i] = Tail(x)[i]
  BY <1>1, <1>2, <1>4, <1>5
<1>. HIDE DEF y, S
<1>7. Tail(y) = Tail(x)
  BY <1>2, <1>5, <1>6
<1>8. c = x[1] => \A i \in 1..Len(x) : y[i] = x[i]
  BY <1>1, <1>3, <1>4
<1>9. c = x[1] => y = x
  BY <1>1, <1>3, <1>8
<1>10. IsSeq(y) /\ y # <<>>
  BY <1>1, <1>3, SeqIsSeq
<1>. QED BY <1>3, <1>4, <1>7, <1>9, <1>10 DEF y

\* The native labels of a workload: finitely many, and the value of a name key is a list,
\* also where it comes from an annotation.
LEMMA EffectiveProps ==
  ASSUME NEW w, IsWorkload(w)
  PROVE  /\ IsFiniteSet(DOMAIN EffectiveLabels(w))
         /\ \A k \in DOMAIN EffectiveLabels(w) :
               k[1] = "dnsweaver" /\ k[Len(k)] \in {"hostname", "hostnames"} => IsSeq(EffectiveLabels(w)[k])
<1>1. /\ IsFiniteSet(DOMAIN w.labels) /\ IsFiniteSet(DOMAIN w.annotations)
      /\ \A k \in DOMAIN w.labels : Entry(k, w.labels[k])
      /\ \A k \in DOMAIN w.annotations : Entry(k, w.annotations[k])
  BY DEF IsWorkload, IsLabels
<1>2. CASE w.platform # "kubernetes"
  <2>1. EffectiveLabels(w) = w.labels
    BY <1>2 DEF EffectiveLabels
  <2>. QED BY <1>1, <2>1 DEF Entry, ListValued
<1>3. CASE w.platform = "kubernetes"
  <2>. DEFINE own == {k \in DOMAIN w.annotations : k[1] = "dnsweaver.dev"}
              ren == [x \in own |-> <<"dnsweaver">> \o Tail(x)]
              C == {<<"dnsweaver">> \o Tail(x) : x \in own}
              converted == [k \in C |-> w.annotations[<<"dnsweaver.dev">> \o Tail(k)]]
              E == [k \in DOMAIN w.labels \cup C |-> IF k \in DOMAIN w.labels THEN w.labels[k] ELSE converted[k]]
  <2>1. EffectiveLabels(w) = E
    BY <1>3 DEF EffectiveLabels
  <2>2. IsFiniteSet(C)
    <3>1. IsFiniteSet(own)
      BY <1>1, FS_Subset
    <3>2. C = {ren[x] : x \in own} /\ DOMAIN ren = own
      OBVIOUS
    <3>. HIDE DEF own, ren, C
    <3>. QED BY <3>1, <3>2, ImageFinite
  <2>3. ASSUME NEW k \in C, k[Len(k)] \in {"hostname", "hostnames"} PROVE IsSeq(converted[k])
    <3>1. PICK x \in own : k = <<"dnsweaver">> \o Tail(x)
      OBVIOUS
    <3>2. IsSeq(x) /\ x # <<>> /\ x[1] = "dnsweaver.dev" /\ Entry(x, w.annotations[x])
      BY <1>1 DEF Entry
    <3>3. Tail(k) = Tail(x) /\ Len(k) = Len(x) /\ k[1] = "dnsweaver" /\ \A i \in 2..Len(x) : k[i] = x[i]
      BY <3>1, <3>2, Renamed
    <3>4. <<"dnsweaver.dev">> \o Tail(x) = x
      BY <3>2, Renamed
    <3>5. converted[k] = w.annotations[x]
      BY <3>3, <3>4
    <3>6. Len(x) \in Nat /\ Len(x) > 0
      BY <3>2, IsSeqSeq, TailIsSeq
    <3>7. x[Len(x)] = k[Len(k)]
      BY <2>3, <3>3, <3>6
    <3>. QED BY <2>3, <3>2, <3>5, <3>7 DEF Entry, ListValued
  <2>. HIDE DEF C, converted
  <2>4. IsFiniteSet(DOMAIN E)
    BY <1>1, <2>2, FS_Union
  <2>5. \A k \in DOMAIN w.labels : k[Len(k)] \in {"hostname", "hostnames"} => IsSeq(w.labels[k])
    BY <1>1 DEF Entry, ListValued
  <2>. QED BY <2>1, <2>3, <2>4, <2>5
<1>. QED BY <1>2, <1>3

\* Names reported with the same hints.
LEMMA NamesReported ==
  ASSUME NEW names, IsSeq(names), NEW src, NEW router, NEW hints, NEW ep, NEW es,
         es = [i \in DOMAIN names |-> Hostname(names[i], src, router, hints, ep)]
  PROVE  /\ IsSeq(es)
         /\ \A e \in ToSet(es) : e.source = src /\ e.router = router /\ e.hints = hints /\ e.host \in ToSet(names)
         /\ \A h \in ToSet(names) : \E e \in ToSet(es) : e.host = h /\ e.hints = hints
<1>1. IsSeq(es) /\ DOMAIN es = DOMAIN names
  BY MapIsSeq
<1>2. \A i \in DOMAIN names : es[i].source = src /\ es[i].router = router /\ es[i].hints = hints /\ es[i].host = names[i]
  BY DEF Hostname
<1>3. ASSUME NEW h \in ToSet(names) PROVE \E e \in ToSet(es) : e.host = h /\ e.hints = hints
  <2>1. PICK i \in DOMAIN names : names[i] = h
    BY DEF ToSet
  <2>2. es[i] \in ToSet(es)
    BY <1>1 DEF ToSet
  <2>. QED BY <1>2, <2>1, <2>2
<1>4. ASSUME NEW e \in ToSet(es)
      PROVE  e.source = src /\ e.router = router /\ e.hints = hints /\ e.host \in ToSet(names)
  <2>1. PICK i \in DOMAIN names : e = es[i]
    BY <1>1 DEF ToSet
  <2>. QED BY <1>2, <2>1 DEF ToSet
<1>. QED BY <1>1, <1>3, <1>4

\* The named records of a set of labels that are not switched off.
RecordNames(labels) ==
    {k[3] : k \in {x \in DOMAIN labels : Len(x) = 4 /\ x[1] = "dnsweaver" /\ x[2] = "records"}}

EnabledRecords(labels) ==
    {r \in RecordNames(labels) : Get(labels, <<"dnsweaver", "records", r, "enabled">>, "true") # "false"}

\* DNSWeaverExtract reports the simple names and those of every enabled record, in
\* whatever order it meets the records.
LEMMA DNSWeaverReports ==
  ASSUME NEW w, IsWorkload(w), NEW es \in DNSWeaverExtract(w)
  PROVE  LET L == EffectiveLabels(w)
         IN  /\ IsSeq(es) /\ \A e \in ToSet(es) : e.source = "dnsweaver"
             /\ ToSet(es) = IF Get(L, <<"dnsweaver", "enabled">>, "true") = "false" THEN {}
                            ELSE ToSet(SimpleExtractions(L))
                                   \cup UNION {ToSet(RecordExtraction(L, r)) : r \in EnabledRecords(L)}
             /\ w.platform # "kubernetes" /\ w.labels = NoMap => ToSet(es) = {}
<1>. DEFINE L == EffectiveLabels(w)
            R == EnabledRecords(L)
            X == [r \in R |-> RecordExtraction(L, r)]
<1>1. /\ IsFiniteSet(DOMAIN L)
      /\ \A k \in DOMAIN L : k[1] = "dnsweaver" /\ k[Len(k)] \in {"hostname", "hostnames"} => IsSeq(L[k])
  BY EffectiveProps
<1>2. CASE Get(L, <<"dnsweaver", "enabled">>, "true") = "false"
  <2>1. es = <<>>
    BY <1>2 DEF DNSWeaverExtract
  <2>. QED BY <1>2, <2>1, EmptyIsSeq
<1>3. CASE Get(L, <<"dnsweaver", "enabled">>, "true") # "false"
  <2>1. IsFiniteSet(R)
    <3>. DEFINE D == {x \in DOMAIN L : Len(x) = 4 /\ x[1] = "dnsweaver" /\ x[2] = "records"}
                f == [k \in D |-> k[3]]
    <3>. HIDE DEF L
    <3>1. IsFiniteSet(D)
      BY <1>1, FS_Subset
    <3>2. RecordNames(L) = {f[k] : k \in D} /\ DOMAIN f = D
      BY DEF RecordNames
    <3>. HIDE DEF D, f
    <3>3. IsFiniteSet(RecordNames(L))
      BY <3>1, <3>2, ImageFinite
    <3>. QED BY <3>3, FS_Subset DEF EnabledRecords
  <2>2. PICK order \in SetToSeqs(R) :
           es = SimpleExtractions(L) \o FlattenSeq([i \in DOMAIN order |-> RecordExtraction(L, order[i])])
    BY <1>3, Zenon DEF DNSWeaverExtract, MapSeq, EnabledRecords, RecordNames
  <2>. DEFINE parts == [i \in DOMAIN order |-> RecordExtraction(L, order[i])]
  <2>3. \A k : k[1] = "dnsweaver" /\ k[Len(k)] \in {"hostname", "hostnames"} => IsSeq(Get(L, k, <<>>))
    <3>. HIDE DEF L
    <3>. QED BY <1>1, EmptyIsSeq DEF Get
  <2>4. IsSeq(SimpleExtractions(L)) /\ \A e \in ToSet(SimpleExtractions(L)) : e.source = "dnsweaver"
    <3>. DEFINE k1 == <<"dnsweaver", "hostname">>
                k2 == <<"dnsweaver", "hostnames">>
                names == Get(L, k1, <<>>) \o Get(L, k2, <<>>)
                hints == [NoHints EXCEPT !.ttl = Get(L, <<"dnsweaver", "ttl">>, 0),
                                 !.proxied = Proxied(Get(L, <<"dnsweaver", "proxied">>, ""))]
                none == ""
                s == [i \in DOMAIN names |-> Hostname(names[i], "dnsweaver", none, hints, none)]
    <3>1. SimpleExtractions(L) = s
      BY DEF SimpleExtractions, MapSeq
    <3>2. k1[1] = "dnsweaver" /\ k1[Len(k1)] = "hostname" /\ k2[1] = "dnsweaver" /\ k2[Len(k2)] = "hostnames"
      OBVIOUS
    <3>3. IsSeq(Get(L, k1, <<>>)) /\ IsSeq(Get(L, k2, <<>>))
      <4>. HIDE DEF L, k1, k2
      <4>. QED BY <2>3, <3>2
    <3>4. IsSeq(names)
      BY <3>3, ConcatIsSeq
    <3>. HIDE DEF names, hints, none
    <3>5. s = [i \in DOMAIN names |-> Hostname(names[i], "dnsweaver", none, hints, none)]
      OBVIOUS
    <3>. HIDE DEF s
    <3>6. IsSeq(s) /\ \A e \in ToSet(s) : e.source = "dnsweaver"
      BY <3>4, <3>5, NamesReported
    <3>. QED BY <3>1, <3>6
  <2>5. ASSUME NEW r
        PROVE  IsSeq(RecordExtraction(L, r)) /\ \A e \in ToSet(RecordExtraction(L, r)) : e.source = "dnsweaver"
    <3>. DEFINE k == <<"dnsweaver", "records", r, "hostname">>
                names == Get(L, k, <<>>)
                none == ""
    <3>1. PICK hints : RecordExtraction(L, r) = [i \in DOMAIN names |-> Hostname(names[i], "dnsweaver", r, hints, none)]
      BY DEF RecordExtraction, MapSeq
    <3>2. k[1] = "dnsweaver" /\ k[Len(k)] = "hostname"
      OBVIOUS
    <3>3. IsSeq(names)
      <4>. HIDE DEF L, k
      <4>. QED BY <2>3, <3>2
    <3>. HIDE DEF names, none
    <3>. QED BY <3>1, <3>3, NamesReported
  <2>6. parts = [i \in DOMAIN order |-> X[order[i]]]
    <3>1. \A i \in DOMAIN order : order[i] \in R
      BY <2>1, OrderProps DEF ToSet
    <3>. QED BY <3>1
  <2>7. \A r \in R : IsSeq(X[r])
    BY <2>5
  <2>8. \A r \in R : X[r] = RecordExtraction(L, r)
    OBVIOUS
  <2>. DEFINE flat == FlattenSeq(parts)
  <2>9. IsSeq(flat) /\ ToSet(flat) = UNION {ToSet(X[r]) : r \in R}
    <3>. HIDE DEF parts, X, R
    <3>. QED BY <2>1, <2>6, <2>7, AnyOrder
  <2>10. es = SimpleExtractions(L) \o flat
    BY <2>2
  <2>. HIDE DEF flat, X, R, L
  <2>11. IsSeq(es) /\ ToSet(es) = ToSet(SimpleExtractions(L)) \cup ToSet(flat)
    BY <2>4, <2>9, <2>10, ConcatIsSeq
  <2>12. ToSet(flat) = UNION {ToSet(RecordExtraction(L, r)) : r \in R}
    BY <2>8, <2>9
  <2>13. \A e \in ToSet(es) : e.source = "dnsweaver"
    BY <2>4, <2>5, <2>11, <2>12
  <2>14. ASSUME w.platform # "kubernetes", w.labels = NoMap PROVE ToSet(es) = {}
    <3>1. L = NoMap
      BY <2>14 DEF EffectiveLabels, L
    <3>2. DOMAIN L = {}
      BY <3>1 DEF NoMap
    <3>3. R = {}
      BY <3>2 DEF R, EnabledRecords, RecordNames
    <3>4. Get(L, <<"dnsweaver", "hostname">>, <<>>) = <<>> /\ Get(L, <<"dnsweaver", "hostnames">>, <<>>) = <<>>
      BY <3>2 DEF Get
    <3>5. <<>> \o <<>> = <<>> /\ DOMAIN <<>> = {}
      OBVIOUS
    <3>6. DOMAIN SimpleExtractions(L) = {}
      BY <3>4, <3>5 DEF SimpleExtractions, MapSeq
    <3>7. ToSet(SimpleExtractions(L)) = {}
      BY <3>6 DEF ToSet
    <3>. QED BY <2>11, <2>12, <3>3, <3>7
  <2>. QED BY <1>3, <2>11, <2>12, <2>13, <2>14 DEF R, L
<1>. QED BY <1>2, <1>3

-----------------------------------------------------------------------------
(* sources/kubernetes, sources/proxmox and sources/incus *)

\* No address, no type, no name: the empty string.
Blank == ""

LEMMA KubernetesReports ==
  ASSUME NEW w, IsSeq(w.hostnames), NEW es \in KubernetesExtract(w)
  PROVE  /\ IsSeq(es) /\ \A e \in ToSet(es) : e.source = "kubernetes"
         /\ KubernetesExtract(w) = {es}
<1>. DEFINE names == w.hostnames
            hints == ParseRecordHints(w.annotations)
            s == [i \in DOMAIN names |-> Hostname(names[i], "kubernetes", w.name, hints, Blank)]
<1>1. KubernetesExtract(w) = {IF IsEnabled(w.annotations) THEN s ELSE <<>>}
  BY Zenon DEF KubernetesExtract, MapSeq, Blank
<1>2. s = [i \in DOMAIN names |-> Hostname(names[i], "kubernetes", w.name, hints, Blank)]
  OBVIOUS
<1>. HIDE DEF s, hints
<1>3. IsSeq(s) /\ \A e \in ToSet(s) : e.source = "kubernetes"
  BY <1>2, NamesReported
<1>4. es = s \/ es = <<>>
  BY <1>1
<1>. QED BY <1>1, <1>3, <1>4, EmptyIsSeq

\* The hints of a guest: its address or nothing, and a type that the address does not decide.
LEMMA GuestHintsProps ==
  ASSUME NEW mode, NEW ip
  PROVE  /\ GuestHints(mode, ip).target \in {Blank, ip}
         /\ GuestHints(mode, ip).type = IF mode = "guest-ip" THEN "A" ELSE Blank
<1>1. CASE mode = "guest-ip"
  <2>. DEFINE h == [NoHints EXCEPT !.type = "A", !.target = ip]
  <2>1. GuestHints(mode, ip) = h
    BY <1>1, Zenon DEF GuestHints
  <2>2. NoHints = [type |-> Blank, target |-> Blank, ttl |-> 0, provider |-> Blank, srv |-> FALSE, proxied |-> Blank]
    BY Zenon DEF NoHints, Blank
  <2>3. h.target = ip /\ h.type = "A"
    BY <2>2
  <2>. HIDE DEF h
  <2>. QED BY <1>1, <2>1, <2>3
<1>2. CASE mode # "guest-ip"
  <2>1. GuestHints(mode, ip) = NoHints
    BY <1>2, Zenon DEF GuestHints
  <2>2. NoHints = [type |-> Blank, target |-> Blank, ttl |-> 0, provider |-> Blank, srv |-> FALSE, proxied |-> Blank]
    BY Zenon DEF NoHints, Blank
  <2>3. NoHints.target = Blank /\ NoHints.type = Blank
    BY <2>2
  <2>. QED BY <1>2, <2>1, <2>3
<1>. QED BY <1>1, <1>2

\* A guest reports its names exactly when it has an address, which is then the target.
LEMMA GuestReports ==
  ASSUME NEW source, NEW w, NEW names, IsSeq(names), NEW mode, NEW es \in GuestExtract(source, w, names, mode)
  PROVE  /\ IsSeq(es) /\ GuestExtract(source, w, names, mode) = {es}
         /\ \A e \in ToSet(es) : /\ e.source = source /\ e.router = w.name /\ e.host \in ToSet(names)
                                 /\ e.hints = GuestHints(mode, w.ip) /\ w.ip # Blank
         /\ w.ip # Blank => \A h \in ToSet(names) : \E e \in ToSet(es) : e.host = h /\ e.hints = GuestHints(mode, w.ip)
<1>. DEFINE hints == GuestHints(mode, w.ip)
            s == [i \in DOMAIN names |-> Hostname(names[i], source, w.name, hints, Blank)]
<1>1. GuestExtract(source, w, names, mode) = {IF w.ip = Blank THEN <<>> ELSE s}
  BY Zenon DEF GuestExtract, MapSeq, Blank
<1>2. s = [i \in DOMAIN names |-> Hostname(names[i], source, w.name, hints, Blank)]
  OBVIOUS
<1>. HIDE DEF s
<1>3. /\ IsSeq(s)
      /\ \A e \in ToSet(s) : e.source = source /\ e.router = w.name /\ e.hints = hints /\ e.host \in ToSet(names)
      /\ \A h \in ToSet(names) : \E e \in ToSet(s) : e.host = h /\ e.hints = hints
  <2>. HIDE DEF hints
  <2>. QED BY <1>2, NamesReported
<1>4. CASE w.ip = Blank
  <2>1. es = <<>> /\ GuestExtract(source, w, names, mode) = {es}
    BY <1>1, <1>4
  <2>. QED BY <1>4, <2>1, EmptyIsSeq
<1>5. CASE w.ip # Blank
  <2>1. es = s /\ GuestExtract(source, w, names, mode) = {es}
    BY <1>1, <1>5
  <2>. QED BY <1>3, <1>5, <2>1
<1>. QED BY <1>4, <1>5

LEMMA QualifyIsSeq ==
  ASSUME NEW name, NEW domain
  PROVE  IsSeq(Qualify(name, domain))
<1>1. Qualify(name, domain) = <<>> \/ \E e : Qualify(name, domain) = <<e>>
  BY Zenon DEF Qualify
<1>. QED BY <1>1, EmptyIsSeq, OneIsSeq

LEMMA ProxmoxHostnameIsSeq ==
  ASSUME NEW w
  PROVE  IsSeq(ProxmoxHostname(w))
<1>1. \/ ResolveHostnameFromTags(w) = <<>>
      \/ \E e : ResolveHostnameFromTags(w) = <<e>>
      \/ \E n : ResolveHostnameFromTags(w) = Qualify(n, ProxmoxCfg.domain)
  BY Zenon DEF ResolveHostnameFromTags
<1>2. IsSeq(ResolveHostnameFromTags(w))
  BY <1>1, EmptyIsSeq, OneIsSeq, QualifyIsSeq
<1>3. IsSeq(Qualify(w.guest, ProxmoxCfg.domain))
  BY QualifyIsSeq
<1>. QED BY <1>2, <1>3 DEF ProxmoxHostname

LEMMA IncusHostnameIsSeq ==
  ASSUME NEW w, IsLabels(w.labels)
  PROVE  IsSeq(IncusHostname(w))
<1>. DEFINE k1 == <<"user", "dnsweaver", "hostname">>
            k2 == <<"dnsweaver", "hostname">>
<1>1. k1[Len(k1)] = "hostname" /\ k2[Len(k2)] = "hostname"
  OBVIOUS
<1>. DEFINE native == Get(w.labels, k1, <<>>)
            compose == Get(w.labels, k2, <<>>)
<1>2. IncusHostname(w) = IF native # <<>> THEN native ELSE IF compose # <<>> THEN compose
                         ELSE Qualify(w.guest, IncusCfg.domain)
  BY DEF IncusHostname
<1>. HIDE DEF k1, k2
<1>3. IsSeq(native) /\ IsSeq(compose)
  BY <1>1, EmptyIsSeq DEF Get, IsLabels, Entry, ListValued
<1>4. IsSeq(Qualify(w.guest, IncusCfg.domain))
  BY QualifyIsSeq
<1>. HIDE DEF native, compose
<1>. QED BY <1>2, <1>3, <1>4

-----------------------------------------------------------------------------
(* pkg/source/registry.go *)

\* What a source reports is a list under its name; a guest is reported with its address
\* or without a target.
LEMMA SourceReports ==
  ASSUME NEW w, IsWorkload(w), NEW src \in SourceNames, NEW es \in Extract(src, w)
  PROVE  /\ IsSeq(es)
         /\ \A e \in ToSet(es) :
               /\ e.source = src
               /\ src \in {"proxmox", "incus"} => e.router = w.name /\ e.hints.target \in {Blank, w.ip}
<1>0. IsLabels(w.labels) /\ IsSeq(w.hostnames)
  BY DEF IsWorkload
<1>1. CASE src = "traefik"
  <2>1. es \in TraefikExtract(w)
    BY <1>1 DEF Extract
  <2>. QED BY <1>0, <1>1, <2>1, TraefikReports
<1>2. CASE src = "caddy"
  <2>1. es \in CaddyExtract(w)
    BY <1>2 DEF Extract
  <2>. QED BY <1>0, <1>2, <2>1, CaddyReports
<1>3. CASE src = "nginx-proxy"
  <2>1. es \in NginxProxyExtract(w)
    BY <1>3 DEF Extract
  <2>. QED BY <1>0, <1>3, <2>1, NginxProxyReports
<1>4. CASE src = "dnsweaver"
  <2>1. es \in DNSWeaverExtract(w)
    BY <1>4 DEF Extract
  <2>2. IsSeq(es) /\ \A e \in ToSet(es) : e.source = "dnsweaver"
    BY <2>1, DNSWeaverReports, Zenon
  <2>. QED BY <1>4, <2>2
<1>5. CASE src = "kubernetes"
  <2>1. es \in KubernetesExtract(w)
    BY <1>5 DEF Extract
  <2>. QED BY <1>0, <1>5, <2>1, KubernetesReports
<1>6. CASE src = "proxmox"
  <2>1. es \in GuestExtract("proxmox", w, ProxmoxHostname(w), ProxmoxCfg.targetMode)
    BY <1>6 DEF Extract, ProxmoxExtract
  <2>2. IsSeq(ProxmoxHostname(w))
    BY ProxmoxHostnameIsSeq
  <2>. DEFINE hints == GuestHints(ProxmoxCfg.targetMode, w.ip)
  <2>3. hints.target \in {Blank, w.ip}
    BY GuestHintsProps
  <2>. HIDE DEF hints
  <2>. DEFINE names == ProxmoxHostname(w)
              mode == ProxmoxCfg.targetMode
  <2>. HIDE DEF names, mode
  <2>4. /\ IsSeq(es)
        /\ \A e \in ToSet(es) : /\ e.source = "proxmox" /\ e.router = w.name /\ e.host \in ToSet(names)
                                /\ e.hints = GuestHints(mode, w.ip) /\ w.ip # Blank
    BY <2>1, <2>2, GuestReports DEF names, mode
  <2>. QED BY <1>6, <2>3, <2>4 DEF hints, mode
<1>7. CASE src = "incus"
  <2>1. es \in GuestExtract("incus", w, IncusHostname(w), IncusCfg.targetMode)
    BY <1>7 DEF Extract, IncusExtract
  <2>2. IsSeq(IncusHostname(w))
    BY <1>0, IncusHostnameIsSeq
  <2>. DEFINE hints == GuestHints(IncusCfg.targetMode, w.ip)
  <2>3. hints.target \in {Blank, w.ip}
    BY GuestHintsProps
  <2>. HIDE DEF hints
  <2>. DEFINE names == IncusHostname(w)
              mode == IncusCfg.targetMode
  <2>. HIDE DEF names, mode
  <2>4. /\ IsSeq(es)
        /\ \A e \in ToSet(es) : /\ e.source = "incus" /\ e.router = w.name /\ e.host \in ToSet(names)
                                /\ e.hints = GuestHints(mode, w.ip) /\ w.ip # Blank
    BY <2>1, <2>2, GuestReports DEF names, mode
  <2>. QED BY <1>7, <2>3, <2>4 DEF hints, mode
<1>. QED BY <1>1, <1>2, <1>3, <1>4, <1>5, <1>6, <1>7 DEF SourceNames

\* The order in which Go iterates over labels never decides which names a source reports.
LEMMA SameNames ==
  ASSUME NEW w, IsWorkload(w), NEW src \in SourceNames, NEW a \in Extract(src, w), NEW b \in Extract(src, w)
  PROVE  Shown(a) = Shown(b)
<1>0. IsLabels(w.labels) /\ IsSeq(w.hostnames)
  BY DEF IsWorkload
<1>1. CASE src = "traefik"
  <2>1. a \in TraefikExtract(w) /\ b \in TraefikExtract(w)
    BY <1>1 DEF Extract
  <2>. DEFINE Z == {<<h, "">> : h \in UNION {ToSet(w.labels[k]) : k \in RuleKeys(w.labels)}}
  <2>2. Shown(a) = Z /\ Shown(b) = Z
    BY <1>0, <2>1, TraefikReports, Zenon
  <2>. HIDE DEF Z
  <2>. QED BY <2>2
<1>2. CASE src = "caddy"
  <2>1. a \in CaddyExtract(w) /\ b \in CaddyExtract(w)
    BY <1>2 DEF Extract
  <2>. QED BY <1>0, <2>1, CaddyReports
<1>3. CASE src = "nginx-proxy"
  <2>1. a \in NginxProxyExtract(w) /\ b \in NginxProxyExtract(w)
    BY <1>3 DEF Extract
  <2>2. a = b
    BY <1>0, <2>1, NginxProxyReports
  <2>. QED BY <2>2
<1>4. CASE src = "dnsweaver"
  <2>1. a \in DNSWeaverExtract(w) /\ b \in DNSWeaverExtract(w)
    BY <1>4 DEF Extract
  <2>. DEFINE L == EffectiveLabels(w)
              Z == IF Get(L, <<"dnsweaver", "enabled">>, "true") = "false" THEN {}
                   ELSE ToSet(SimpleExtractions(L))
                          \cup UNION {ToSet(RecordExtraction(L, r)) : r \in EnabledRecords(L)}
  <2>2. ToSet(a) = Z /\ ToSet(b) = Z
    BY <2>1, DNSWeaverReports, Zenon
  <2>. HIDE DEF Z
  <2>. QED BY <2>2, Zenon DEF Shown
<1>5. CASE src = "kubernetes"
  <2>1. a \in KubernetesExtract(w) /\ b \in KubernetesExtract(w)
    BY <1>5 DEF Extract
  <2>2. a = b
    BY <1>0, <2>1, KubernetesReports
  <2>. QED BY <2>2
<1>6. CASE src = "proxmox"
  <2>1. {a, b} \subseteq GuestExtract("proxmox", w, ProxmoxHostname(w), ProxmoxCfg.targetMode)
    BY <1>6 DEF Extract, ProxmoxExtract
  <2>2. IsSeq(ProxmoxHostname(w))
    BY ProxmoxHostnameIsSeq
  <2>3. a = b
    BY <2>1, <2>2, GuestReports
  <2>. QED BY <2>3
<1>7. CASE src = "incus"
  <2>1. {a, b} \subseteq GuestExtract("incus", w, IncusHostname(w), IncusCfg.targetMode)
    BY <1>7 DEF Extract, IncusExtract
  <2>2. IsSeq(IncusHostname(w))
    BY <1>0, IncusHostnameIsSeq
  <2>3. a = b
    BY <2>1, <2>2, GuestReports
  <2>. QED BY <2>3
<1>. QED BY <1>1, <1>2, <1>3, <1>4, <1>5, <1>6, <1>7 DEF SourceNames

\* A workload without labels, as Proxmox guests are, is reported by no label source.
LEMMA NoLabelNames ==
  ASSUME NEW w, IsWorkload(w), w.labels = NoMap, w.platform # "kubernetes",
         NEW src \in {"traefik", "caddy", "nginx-proxy", "dnsweaver"}, NEW es \in Extract(src, w)
  PROVE  ToSet(es) = {}
<1>0. IsLabels(w.labels) /\ DOMAIN w.labels = {}
  BY DEF IsWorkload, NoMap
<1>. SUFFICES Shown(es) = {} \/ ToSet(es) = {}
  BY Zenon DEF Shown
<1>1. CASE src = "traefik"
  <2>1. es \in TraefikExtract(w)
    BY <1>1 DEF Extract
  <2>2. RuleKeys(w.labels) = {}
    BY <1>0 DEF RuleKeys
  <2>. DEFINE H == UNION {ToSet(w.labels[k]) : k \in RuleKeys(w.labels)}
              Z == {<<h, "">> : h \in H}
  <2>3. Shown(es) = Z
    BY <1>0, <2>1, TraefikReports, Zenon
  <2>4. H = {}
    BY <2>2
  <2>. HIDE DEF H
  <2>5. Z = {}
    BY <2>4, Zenon
  <2>. HIDE DEF Z
  <2>. QED BY <2>3, <2>5
<1>2. CASE src = "caddy"
  <2>1. es \in CaddyExtract(w)
    BY <1>2 DEF Extract
  <2>2. Shown(es) = LoweredNames(w.labels, {k \in DOMAIN w.labels : k[1] = "caddy"})
    BY <1>0, <2>1, CaddyReports
  <2>3. {k \in DOMAIN w.labels : k[1] = "caddy"} = {}
    BY <1>0
  <2>4. LoweredNames(w.labels, {}) = {}
    BY Zenon DEF LoweredNames
  <2>. QED BY <2>2, <2>3, <2>4
<1>3. CASE src = "nginx-proxy"
  <2>1. es \in NginxProxyExtract(w)
    BY <1>3 DEF Extract
  <2>. QED BY <1>0, <2>1, NginxProxyReports
<1>4. CASE src = "dnsweaver"
  <2>1. es \in DNSWeaverExtract(w)
    BY <1>4 DEF Extract
  <2>. QED BY <2>1, DNSWeaverReports, Zenon
<1>. QED BY <1>1, <1>2, <1>3, <1>4

\* The registered sources are known ones, and a platform in use has its own source.
LEMMA RegisteredProps ==
  ASSUME NEW platforms
  PROVE  /\ IsSeq(RegisterSources(platforms)) /\ ToSet(RegisterSources(platforms)) \subseteq SourceNames
         /\ platforms \cap {"kubernetes", "proxmox", "incus"} \subseteq ToSet(RegisterSources(platforms))
<1>. DEFINE own == <<"kubernetes", "proxmox", "incus">>
            P == {i \in DOMAIN own : own[i] \in platforms /\ ~Contains(Listed, own[i])}
            added == Chosen(own, P)
<1>1. RegisterSources(platforms) = Listed \o added
  BY DEF RegisterSources, Filter
<1>2. own \in Seq(SourceNames) /\ DOMAIN own = 1..3 /\ own[1] = "kubernetes" /\ own[2] = "proxmox" /\ own[3] = "incus"
  BY DEF SourceNames
<1>3. IsSeq(own) /\ \A s \in {"kubernetes", "proxmox", "incus"} : \E i \in DOMAIN own : own[i] = s
  <2>1. IsSeq(own)
    BY <1>2, SeqIsSeq
  <2>. HIDE DEF own
  <2>. QED BY <1>2, <2>1
<1>4. \A i \in DOMAIN own : own[i] \in SourceNames
  BY <1>2
<1>. HIDE DEF own
<1>5. IsSeq(added) /\ ToSet(added) = {own[i] : i \in P \cap DOMAIN own}
  BY <1>3, ChosenProps
<1>. HIDE DEF added
<1>6. /\ IsSeq(RegisterSources(platforms))
      /\ ToSet(RegisterSources(platforms)) = ToSet(Listed) \cup ToSet(added)
  BY <1>1, <1>5, SourcesAssumption, ConcatIsSeq
<1>7. ToSet(added) \subseteq SourceNames
  BY <1>4, <1>5
<1>8. ASSUME NEW s \in platforms \cap {"kubernetes", "proxmox", "incus"}
      PROVE  s \in ToSet(Listed) \cup ToSet(added)
  <2>1. CASE Contains(Listed, s)
    BY <2>1 DEF Contains, ToSet
  <2>2. CASE ~Contains(Listed, s)
    <3>1. PICK i \in DOMAIN own : own[i] = s
      BY <1>3
    <3>2. i \in P
      BY <2>2, <3>1
    <3>. HIDE DEF P
    <3>. QED BY <1>5, <3>1, <3>2
  <2>. QED BY <2>1, <2>2
<1>. QED BY <1>6, <1>7, <1>8, SourcesAssumption

\* The concatenations of a report of A with a report of B.
Joined(A, B) == {a \o b : a \in A, b \in B}

\* ExtractAll joins one report of every source that supports the platform.
LEMMA ExtractAllProps ==
  ASSUME NEW w, IsWorkload(w), NEW registered, IsSeq(registered), ToSet(registered) \subseteq SourceNames,
         NEW es \in ExtractAll(w, registered)
  PROVE  /\ IsSeq(es)
         /\ IsWorkloadDisabled(w) => ToSet(es) = {}
         /\ \A e \in ToSet(es) : \E s \in ToSet(registered) :
               SourceSupports(s, w.platform) /\ \E r \in Extract(s, w) : e \in ToSet(r)
         /\ ~IsWorkloadDisabled(w) =>
               \A s \in ToSet(registered) :
                  SourceSupports(s, w.platform) => \E r \in Extract(s, w) : ToSet(r) \subseteq ToSet(es)
<1>1. CASE IsWorkloadDisabled(w)
  <2>1. es = <<>>
    BY <1>1 DEF ExtractAll
  <2>. QED BY <1>1, <2>1, EmptyIsSeq
<1>2. CASE ~IsWorkloadDisabled(w)
  <2>. DEFINE P == {i \in DOMAIN registered : SourceSupports(registered[i], w.platform)}
              srcs == Chosen(registered, P)
              Body(n, F) == [i \in 0..n |-> IF i = 0 THEN {<<>>} ELSE Joined(F[i - 1], Extract(srcs[i], w))]
              T == {n \in Nat : \E F : F = Body(n, F)}
  <2>1. IsSeq(srcs) /\ ToSet(srcs) = {registered[i] : i \in P \cap DOMAIN registered}
    BY ChosenProps
  <2>2. ToSet(srcs) = {s \in ToSet(registered) : SourceSupports(s, w.platform)}
    <3>. HIDE DEF srcs
    <3>. QED BY <2>1 DEF ToSet
  <2>. DEFINE all == CHOOSE F : F = Body(Len(srcs), F)
  <2>3. ExtractAll(w, registered) = all[Len(srcs)]
    BY <1>2 DEF ExtractAll, Filter, Joined
  <2>. HIDE DEF srcs
  <2>4. 0 \in T
    <3>. DEFINE F == [i \in 0..0 |-> {<<>>}]
    <3>1. F = Body(0, F)
      OBVIOUS
    <3>. QED BY <3>1
  <2>5. ASSUME NEW n \in Nat, n \in T PROVE n + 1 \in T
    <3>1. PICK F : F = Body(n, F)
      BY <2>5
    <3>. DEFINE G == [i \in 0..(n + 1) |-> IF i = n + 1 THEN Joined(F[n], Extract(srcs[i], w)) ELSE F[i]]
    <3>2. ASSUME NEW i \in 0..(n + 1) PROVE G[i] = Body(n + 1, G)[i]
      <4>1. CASE i = n + 1
        BY <4>1
      <4>2. CASE i # n + 1
        <5>1. i \in 0..n /\ G[i] = F[i] /\ (i # 0 => G[i - 1] = F[i - 1])
          BY <4>2
        <5>. QED BY <3>1, <5>1
      <4>. QED BY <4>1, <4>2
    <3>3. G = Body(n + 1, G)
      <4>1. G = [i \in 0..(n + 1) |-> G[i]] /\ Body(n + 1, G) = [i \in 0..(n + 1) |-> Body(n + 1, G)[i]]
        OBVIOUS
      <4>. HIDE DEF G, Body
      <4>. QED BY <3>2, <4>1
    <3>. HIDE DEF G
    <3>4. \E H : H = Body(n + 1, H)
      BY <3>3, Zenon
    <3>. HIDE DEF Body
    <3>. QED BY <3>4
  <2>6. Len(srcs) \in Nat /\ DOMAIN srcs = 1..Len(srcs)
    BY <2>1, IsSeqSeq
  <2>7. Len(srcs) \in T
    <3>. HIDE DEF T
    <3>. QED BY <2>4, <2>5, <2>6, SetInduction
  <2>8. all = Body(Len(srcs), all)
    BY <2>7
  <2>. HIDE DEF all
  <2>. DEFINE Good(x, n) == /\ IsSeq(x)
                            /\ \A e \in ToSet(x) : \E i \in 1..n : \E r \in Extract(srcs[i], w) : e \in ToSet(r)
                            /\ \A i \in 1..n : \E r \in Extract(srcs[i], w) : ToSet(r) \subseteq ToSet(x)
              U == {n \in Nat : n <= Len(srcs) => \A x \in all[n] : Good(x, n)}
  <2>9. 0 \in U
    <3>1. all[0] = {<<>>} /\ 1..0 = {}
      BY <2>6, <2>8
    <3>. QED BY <3>1, EmptyIsSeq
  <2>10. ASSUME NEW n \in Nat, n \in U PROVE n + 1 \in U
    <3>. SUFFICES ASSUME n + 1 <= Len(srcs), NEW x \in all[n + 1] PROVE Good(x, n + 1)
      OBVIOUS
    <3>1. n <= Len(srcs) /\ n + 1 \in 0..Len(srcs) /\ n + 1 # 0 /\ (n + 1) - 1 = n /\ n + 1 \in DOMAIN srcs
      BY <2>6
    <3>2. all[n + 1] = Joined(all[n], Extract(srcs[n + 1], w))
      BY <2>8, <3>1
    <3>3. PICK a \in all[n], b \in Extract(srcs[n + 1], w) : x = a \o b
      BY <3>2 DEF Joined
    <3>4. Good(a, n)
      BY <2>10, <3>1
    <3>5. srcs[n + 1] \in SourceNames
      BY <2>2, <3>1 DEF ToSet
    <3>6. IsSeq(b)
      BY <3>5, SourceReports
    <3>7. IsSeq(x) /\ ToSet(x) = ToSet(a) \cup ToSet(b)
      BY <3>3, <3>4, <3>6, ConcatIsSeq
    <3>8. \A e \in ToSet(x) : \E i \in 1..(n + 1) : \E r \in Extract(srcs[i], w) : e \in ToSet(r)
      <4>. SUFFICES ASSUME NEW e \in ToSet(x) PROVE \E i \in 1..(n + 1) : \E r \in Extract(srcs[i], w) : e \in ToSet(r)
        OBVIOUS
      <4>1. CASE e \in ToSet(b)
        <5>1. n + 1 \in 1..(n + 1)
          OBVIOUS
        <5>. QED BY <4>1, <5>1
      <4>2. CASE e \in ToSet(a)
        <5>1. PICK i \in 1..n : \E r \in Extract(srcs[i], w) : e \in ToSet(r)
          BY <3>4, <4>2
        <5>2. i \in 1..(n + 1)
          OBVIOUS
        <5>. QED BY <5>1, <5>2
      <4>. QED BY <3>7, <4>1, <4>2
    <3>9. \A i \in 1..(n + 1) : \E r \in Extract(srcs[i], w) : ToSet(r) \subseteq ToSet(x)
      <4>. SUFFICES ASSUME NEW i \in 1..(n + 1) PROVE \E r \in Extract(srcs[i], w) : ToSet(r) \subseteq ToSet(x)
        OBVIOUS
      <4>1. CASE i = n + 1
        BY <3>7, <4>1
      <4>2. CASE i # n + 1
        <5>1. i \in 1..n
          BY <4>2
        <5>. QED BY <3>4, <3>7, <5>1
      <4>. QED BY <4>1, <4>2
    <3>. QED BY <3>7, <3>8, <3>9
  <2>11. Len(srcs) \in U
    <3>. HIDE DEF U
    <3>. QED BY <2>6, <2>9, <2>10, SetInduction
  <2>12. Good(es, Len(srcs))
    BY <2>3, <2>6, <2>11
  <2>13. \A i \in 1..Len(srcs) : srcs[i] \in ToSet(registered) /\ SourceSupports(srcs[i], w.platform)
    BY <2>2, <2>6 DEF ToSet
  <2>14. \A s \in ToSet(registered) : SourceSupports(s, w.platform) => \E i \in 1..Len(srcs) : srcs[i] = s
    BY <2>2, <2>6 DEF ToSet
  <2>. QED BY <1>2, <2>12, <2>13, <2>14
<1>. QED BY <1>1, <1>2

\* Whatever the order of iteration, a workload declares the same names.
LEMMA AllSameNames ==
  ASSUME NEW w, IsWorkload(w), NEW registered, IsSeq(registered), ToSet(registered) \subseteq SourceNames,
         NEW a \in ExtractAll(w, registered), NEW b \in ExtractAll(w, registered)
  PROVE  Shown(a) \subseteq Shown(b) /\ ValidNames(a) \subseteq ValidNames(b)
<1>1. CASE IsWorkloadDisabled(w)
  <2>1. ToSet(a) = {}
    BY <1>1, ExtractAllProps
  <2>2. Shown(a) = {}
    BY <2>1, Zenon DEF Shown
  <2>3. Shown(a) \subseteq Shown(b)
    BY <2>2
  <2>. QED BY <2>3, ShownDecides
<1>2. CASE ~IsWorkloadDisabled(w)
  <2>1. ASSUME NEW e \in ToSet(a) PROVE <<e.host, e.hints.type>> \in Shown(b)
    <3>1. PICK s \in ToSet(registered) : SourceSupports(s, w.platform) /\ \E r \in Extract(s, w) : e \in ToSet(r)
      BY ExtractAllProps
    <3>2. PICK r \in Extract(s, w) : e \in ToSet(r)
      BY <3>1
    <3>3. PICK q \in Extract(s, w) : ToSet(q) \subseteq ToSet(b)
      BY <1>2, <3>1, ExtractAllProps
    <3>4. Shown(r) = Shown(q)
      BY SameNames
    <3>5. <<e.host, e.hints.type>> \in Shown(r)
      BY <3>2 DEF Shown
    <3>6. Shown(q) \subseteq Shown(b)
      BY <3>3, Zenon DEF Shown
    <3>. QED BY <3>4, <3>5, <3>6
  <2>2. Shown(a) \subseteq Shown(b)
    BY <2>1, Zenon DEF Shown
  <2>. QED BY <2>2, ShownDecides
<1>. QED BY <1>1, <1>2

-----------------------------------------------------------------------------
(* The workloads of the listers. *)

LEMMA NoLabels == IsLabels(NoMap) /\ DOMAIN NoMap = {}
<1>1. DOMAIN NoMap = {}
  BY Zenon DEF NoMap
<1>. QED BY <1>1, FS_EmptySet DEF IsLabels

LEMMA WorkloadFields ==
  ASSUME NEW platform, NEW name, NEW labels, NEW w, w = Workload(platform, name, labels)
  PROVE  \E guest : w = [platform |-> platform, name |-> name, labels |-> labels, annotations |-> NoMap,
                         hostnames |-> <<>>, guest |-> guest, ip |-> Blank, tags |-> <<>>]
BY Zenon DEF Workload, Blank

LEMMA DockerIsWorkload ==
  ASSUME NEW i, NEW obj, IsDockerObject(obj), NEW w, w = DockerWorkload(i, obj)
  PROVE  /\ IsWorkload(w) /\ w.platform = "docker" /\ w.name = i
         /\ w.labels = obj.labels /\ w.annotations = NoMap
<1>. DEFINE v == Workload("docker", i, obj.labels)
<1>0. w = v
  BY DEF DockerWorkload
<1>1. PICK guest : v = [platform |-> "docker", name |-> i, labels |-> obj.labels, annotations |-> NoMap,
                        hostnames |-> <<>>, guest |-> guest, ip |-> Blank, tags |-> <<>>]
  BY WorkloadFields, Zenon
<1>. HIDE DEF v
<1>2. /\ w.platform = "docker" /\ w.name = i /\ w.labels = obj.labels /\ w.annotations = NoMap
      /\ w.hostnames = <<>> /\ w.tags = <<>>
  BY <1>0, <1>1
<1>. QED BY <1>2, NoLabels, EmptyIsSeq DEF IsWorkload, IsDockerObject

\* A filtered list keeps some of the elements.
LEMMA KubernetesNames ==
  ASSUME NEW obj, IsKubernetesObject(obj)
  PROVE  /\ IsSeq(ConvertIngress(obj)) /\ IsSeq(ConvertIngressRoute(obj))
         /\ IsSeq(ConvertHTTPRoute(obj)) /\ IsSeq(ConvertService(obj))
<1>1. IsSeq(Dedup(obj.rules)) /\ IsSeq(Dedup(obj.tls)) /\ IsSeq(obj.rules)
  BY DedupProps DEF IsKubernetesObject
<1>2. IsSeq(ConvertIngress(obj))
  <2>. DEFINE d == Dedup(obj.tls)
              c == Chosen(d, {i \in DOMAIN d : ~Contains(obj.rules, d[i])})
  <2>1. ConvertIngress(obj) = obj.rules \o c
    BY DEF ConvertIngress, Filter
  <2>2. IsSeq(c)
    BY <1>1, ChosenProps
  <2>. HIDE DEF c
  <2>. QED BY <1>1, <2>1, <2>2, ConcatIsSeq
<1>3. IsSeq(ConvertService(obj))
  <2>. DEFINE k1 == <<"external-dns", "hostname">>
              k2 == <<"dnsweaver.dev", "hostname">>
              k3 == <<"dnsweaver.dev", "hostnames">>
              g(k) == Get(obj.annotations, k, <<>>)
  <2>1. k1[Len(k1)] = "hostname" /\ k2[Len(k2)] = "hostname" /\ k3[Len(k3)] = "hostnames"
    OBVIOUS
  <2>2. ConvertService(obj) = Dedup(g(k1) \o g(k2) \o g(k3))
    BY DEF ConvertService
  <2>. HIDE DEF k1, k2, k3
  <2>3. IsSeq(g(k1)) /\ IsSeq(g(k2)) /\ IsSeq(g(k3))
    BY <2>1, EmptyIsSeq DEF Get, IsKubernetesObject, IsLabels, Entry, ListValued
  <2>. HIDE DEF g
  <2>4. IsSeq(g(k1) \o g(k2))
    BY <2>3, ConcatIsSeq
  <2>5. IsSeq(g(k1) \o g(k2) \o g(k3))
    BY <2>3, <2>4, ConcatIsSeq
  <2>. QED BY <2>2, <2>5, DedupProps
<1>. QED BY <1>1, <1>2, <1>3 DEF ConvertIngressRoute, ConvertHTTPRoute

LEMMA KubernetesIsWorkload ==
  ASSUME NEW i, NEW obj, IsKubernetesObject(obj), obj.kind \in KubernetesKinds,
         NEW w, w = KubernetesWorkload(i, obj)
  PROVE  /\ IsWorkload(w) /\ w.platform = "kubernetes" /\ w.name = i
         /\ w.labels = obj.labels /\ w.annotations = obj.annotations
<1>. DEFINE names == CASE obj.kind = "Ingress" -> ConvertIngress(obj)
                       [] obj.kind = "IngressRoute" -> ConvertIngressRoute(obj)
                       [] obj.kind = "HTTPRoute" -> ConvertHTTPRoute(obj)
                       [] obj.kind = "Service" -> ConvertService(obj)
            v == Workload("kubernetes", i, obj.labels)
<1>1. IsSeq(names)
  BY KubernetesNames DEF KubernetesKinds
<1>2. w = [v EXCEPT !.annotations = obj.annotations, !.hostnames = names]
  BY Zenon DEF KubernetesWorkload
<1>3. PICK guest : v = [platform |-> "kubernetes", name |-> i, labels |-> obj.labels, annotations |-> NoMap,
                        hostnames |-> <<>>, guest |-> guest, ip |-> Blank, tags |-> <<>>]
  BY WorkloadFields, Zenon
<1>. HIDE DEF names, v
<1>4. /\ w.platform = "kubernetes" /\ w.name = i /\ w.labels = obj.labels
      /\ w.annotations = obj.annotations /\ w.hostnames = names /\ w.tags = <<>>
  BY <1>2, <1>3
<1>. QED BY <1>1, <1>4, EmptyIsSeq DEF IsWorkload, IsKubernetesObject

LEMMA ProxmoxIsWorkload ==
  ASSUME NEW i, NEW obj, IsProxmoxObject(obj), NEW ip, NEW w, w = ProxmoxWorkload(i, obj, ip)
  PROVE  /\ IsWorkload(w) /\ w.platform = "proxmox" /\ w.name = i
         /\ w.labels = NoMap /\ w.annotations = NoMap /\ w.ip = ip /\ w.tags = obj.tags /\ w.guest = obj.name
<1>. DEFINE v == Workload("proxmox", i, NoMap)
<1>1. w = [v EXCEPT !.guest = obj.name, !.ip = ip, !.tags = obj.tags]
  BY Zenon DEF ProxmoxWorkload
<1>2. PICK guest : v = [platform |-> "proxmox", name |-> i, labels |-> NoMap, annotations |-> NoMap,
                        hostnames |-> <<>>, guest |-> guest, ip |-> Blank, tags |-> <<>>]
  BY WorkloadFields, Zenon
<1>. HIDE DEF v
<1>3. /\ w.platform = "proxmox" /\ w.name = i /\ w.labels = NoMap /\ w.annotations = NoMap
      /\ w.hostnames = <<>> /\ w.ip = ip /\ w.tags = obj.tags /\ w.guest = obj.name
  BY <1>1, <1>2
<1>. QED BY <1>3, NoLabels, EmptyIsSeq DEF IsWorkload, IsProxmoxObject

\* An Incus instance has its config keys as labels and its compose labels without their
\* prefix.
LEMMA IncusIsWorkload ==
  ASSUME NEW i, NEW obj, IsIncusObject(obj), NEW w, w = IncusWorkload(i, obj)
  PROVE  /\ IsWorkload(w) /\ w.platform = "incus" /\ w.name = i /\ w.ip = IncusResolveIP(obj)
         /\ \A k \in DOMAIN obj.config : k \in DOMAIN w.labels /\ w.labels[k] = obj.config[k]
         /\ \A x \in DOMAIN obj.config : x[1] = "user.label" /\ Tail(x) \notin DOMAIN obj.config =>
               Tail(x) \in DOMAIN w.labels /\ w.labels[Tail(x)] = obj.config[x]
<1>. DEFINE f == obj.config
            S == {x \in DOMAIN f : x[1] = "user.label"}
            tails == {Tail(k) : k \in S}
            stripped == tails \ DOMAIN f
            labels == [k \in DOMAIN f \cup stripped |->
                         IF k \in DOMAIN f THEN f[k] ELSE f[<<"user.label">> \o k]]
            v == Workload("incus", i, labels)
<1>1. w = [v EXCEPT !.guest = obj.name, !.ip = IncusResolveIP(obj)]
  BY Zenon DEF IncusWorkload
<1>2. PICK guest : v = [platform |-> "incus", name |-> i, labels |-> labels, annotations |-> NoMap,
                        hostnames |-> <<>>, guest |-> guest, ip |-> Blank, tags |-> <<>>]
  BY WorkloadFields, Zenon
<1>. HIDE DEF v, labels
<1>3. /\ w.platform = "incus" /\ w.name = i /\ w.labels = labels /\ w.annotations = NoMap
      /\ w.hostnames = <<>> /\ w.ip = IncusResolveIP(obj) /\ w.tags = <<>>
  BY <1>1, <1>2
<1>4. IsFiniteSet(DOMAIN f) /\ \A k \in DOMAIN f : Entry(k, f[k])
  BY DEF IsIncusObject, IsLabels
<1>5. IsFiniteSet(stripped)
  <2>. DEFINE g == [k \in S |-> Tail(k)]
  <2>1. IsFiniteSet(S)
    BY <1>4, FS_Subset
  <2>2. tails = {g[k] : k \in S} /\ DOMAIN g = S
    OBVIOUS
  <2>. HIDE DEF S, g, tails
  <2>3. IsFiniteSet(tails)
    BY <2>1, <2>2, ImageFinite
  <2>. QED BY <2>3, FS_Subset
<1>6. DOMAIN labels = DOMAIN f \cup stripped /\ \A k \in DOMAIN f : labels[k] = f[k]
  BY DEF labels
<1>7. ASSUME NEW x \in S, Tail(x) \notin DOMAIN f
      PROVE  Tail(x) \in DOMAIN labels /\ labels[Tail(x)] = f[x] /\ Entry(Tail(x), labels[Tail(x)])
  <2>1. IsSeq(x) /\ x # <<>> /\ x[1] = "user.label" /\ Entry(Tail(x), f[x])
    BY <1>4 DEF Entry, IsIncusObject
  <2>2. <<"user.label">> \o Tail(x) = x
    BY <2>1, Renamed
  <2>3. Tail(x) \in stripped
    BY <1>7
  <2>4. labels[Tail(x)] = f[<<"user.label">> \o Tail(x)]
    BY <1>7, <2>3 DEF labels
  <2>. QED BY <1>6, <2>1, <2>2, <2>3, <2>4
<1>8. IsFiniteSet(DOMAIN labels)
  <2>. HIDE DEF stripped
  <2>. QED BY <1>4, <1>5, <1>6, FS_Union
<1>9. ASSUME NEW k \in DOMAIN labels PROVE Entry(k, labels[k])
  <2>1. CASE k \in DOMAIN f
    BY <1>4, <1>6, <2>1
  <2>2. CASE k \notin DOMAIN f
    <3>1. k \in tails
      BY <1>6, <2>2
    <3>2. PICK x \in S : k = Tail(x)
      BY <3>1
    <3>. QED BY <1>7, <2>2, <3>2
  <2>. QED BY <2>1, <2>2
<1>10. IsLabels(labels)
  BY <1>8, <1>9 DEF IsLabels
<1>11. IsWorkload(w)
  BY <1>3, <1>10, NoLabels, EmptyIsSeq DEF IsWorkload
<1>. QED BY <1>3, <1>6, <1>7, <1>11

-----------------------------------------------------------------------------
(* Addresses. *)

LEMMA BlankNotRoutable == Blank \notin Routable
BY PlatformsAssumption, Zenon DEF Blank

\* FirstAddress finds a routable address exactly when there is one.
LEMMA FirstAddressProps ==
  ASSUME NEW addrs, IsSeq(addrs)
  PROVE  /\ FirstAddress(addrs) # Blank => FirstAddress(addrs) \in ToSet(addrs) \cap Routable
         /\ ToSet(addrs) \cap Routable # {} => FirstAddress(addrs) # Blank
<1>. DEFINE P == {i \in DOMAIN addrs : addrs[i] \in Routable}
            good == Chosen(addrs, P)
<1>1. FirstAddress(addrs) = IF good = <<>> THEN Blank ELSE good[1]
  BY Zenon DEF FirstAddress, Filter, Blank
<1>2. IsSeq(good) /\ ToSet(good) = {addrs[i] : i \in P \cap DOMAIN addrs}
  BY ChosenProps
<1>3. ToSet(good) = ToSet(addrs) \cap Routable
  <2>. HIDE DEF good
  <2>. QED BY <1>2 DEF ToSet
<1>. HIDE DEF good
<1>4. good # <<>> => good[1] \in ToSet(addrs) \cap Routable
  BY <1>2, <1>3, TailIsSeq
<1>5. ToSet(addrs) \cap Routable # {} => good # <<>>
  BY <1>3, EmptyIsSeq
<1>. QED BY <1>1, <1>4, <1>5, BlankNotRoutable

\* The addresses on the interfaces of a guest other than its loopback.
OnLan(fs) == UNION {ToSet(fs[j].addrs) : j \in {x \in DOMAIN fs : fs[x].name # "lo"}}

LEMMA FlatAddrs ==
  ASSUME NEW fs, AreInterfaces(fs), NEW P, P \subseteq DOMAIN fs,
         NEW c, c = Chosen(fs, P), NEW parts, parts = [i \in DOMAIN c |-> c[i].addrs]
  PROVE  /\ IsSeq(FlattenSeq(parts))
         /\ ToSet(FlattenSeq(parts)) = UNION {ToSet(fs[j].addrs) : j \in P}
<1>1. IsSeq(fs) /\ \A j \in DOMAIN fs : IsSeq(fs[j].addrs)
  BY DEF AreInterfaces
<1>2. P \cap DOMAIN fs = P
  OBVIOUS
<1>3. IsSeq(c) /\ ToSet(c) = {fs[j] : j \in P}
  BY <1>1, <1>2, ChosenProps
<1>4. IsSeq(parts) /\ DOMAIN parts = DOMAIN c
  BY <1>3, MapIsSeq
<1>5. \A i \in DOMAIN c : \E j \in P : c[i] = fs[j]
  BY <1>3 DEF ToSet
<1>6. \A j \in P : \E i \in DOMAIN c : c[i] = fs[j]
  BY <1>3 DEF ToSet
<1>7. \A i \in DOMAIN parts : IsSeq(parts[i])
  BY <1>1, <1>4, <1>5
<1>8. IsSeq(FlattenSeq(parts)) /\ ToSet(FlattenSeq(parts)) = UNION {ToSet(parts[i]) : i \in DOMAIN parts}
  BY <1>4, <1>7, FlattenProps
<1>9. \A i \in DOMAIN parts : \E j \in P : parts[i] = fs[j].addrs
  BY <1>4, <1>5
<1>10. \A j \in P : \E i \in DOMAIN parts : parts[i] = fs[j].addrs
  BY <1>4, <1>6
<1>11. UNION {ToSet(parts[i]) : i \in DOMAIN parts} = UNION {ToSet(fs[j].addrs) : j \in P}
  BY <1>9, <1>10
<1>. QED BY <1>8, <1>11

\* No routable address on the loopback.
LocalLoopback(fs) == \A j \in DOMAIN fs : fs[j].name = "lo" => ToSet(fs[j].addrs) \cap Routable = {}

\* A virtual machine whose agent runs has an address exactly when one of its interfaces
\* has a routable one, whichever interface is preferred.
LEMMA VMAddress ==
  ASSUME NEW obj, AreInterfaces(obj.ifaces), LocalLoopback(obj.ifaces), NEW tags
  PROVE  /\ ResolveVMIP(obj, tags) # Blank => ResolveVMIP(obj, tags) \in OnLan(obj.ifaces) \cap Routable
         /\ ResolveVMIP(obj, tags) # Blank <=> obj.agent /\ OnLan(obj.ifaces) \cap Routable # {}
<1>. DEFINE fs == obj.ifaces
            selected == SelectInterfaceForIP(fs, ParseInterfacePreferenceFromTags(tags))
            P == {j \in DOMAIN fs : fs[j].name = selected}
            Q == {j \in DOMAIN fs : fs[j].name # "lo"}
            cp == Chosen(fs, P)
            cq == Chosen(fs, Q)
            pp == [i \in DOMAIN cp |-> cp[i].addrs]
            qq == [i \in DOMAIN cq |-> cq[i].addrs]
            chosen == FirstAddress(FlattenSeq(pp))
            any == FirstAddress(FlattenSeq(qq))
<1>1. ResolveVMIP(obj, tags) = IF ~obj.agent THEN Blank ELSE IF chosen # Blank THEN chosen ELSE any
  BY Zenon DEF ResolveVMIP, Filter, MapSeq, Blank
<1>. HIDE DEF selected
<1>2. IsSeq(FlattenSeq(pp)) /\ ToSet(FlattenSeq(pp)) = UNION {ToSet(fs[j].addrs) : j \in P}
  <2>1. P \subseteq DOMAIN fs /\ cp = Chosen(fs, P) /\ pp = [i \in DOMAIN cp |-> cp[i].addrs]
    OBVIOUS
  <2>. HIDE DEF P, cp, pp
  <2>. QED BY <2>1, FlatAddrs
<1>3. IsSeq(FlattenSeq(qq)) /\ ToSet(FlattenSeq(qq)) = UNION {ToSet(fs[j].addrs) : j \in Q}
  <2>1. Q \subseteq DOMAIN fs /\ cq = Chosen(fs, Q) /\ qq = [i \in DOMAIN cq |-> cq[i].addrs]
    OBVIOUS
  <2>. HIDE DEF Q, cq, qq
  <2>. QED BY <2>1, FlatAddrs
<1>4. UNION {ToSet(fs[j].addrs) : j \in Q} = OnLan(fs)
  BY DEF OnLan
<1>5. ASSUME NEW a \in Routable, a \in UNION {ToSet(fs[j].addrs) : j \in P} PROVE a \in OnLan(fs)
  <2>1. PICK j \in P : a \in ToSet(fs[j].addrs)
    BY <1>5
  <2>2. fs[j].name # "lo"
    BY <2>1 DEF LocalLoopback
  <2>. QED BY <2>1, <2>2 DEF OnLan
<1>. DEFINE fp == FlattenSeq(pp)
            fq == FlattenSeq(qq)
<1>6. IsSeq(fp) /\ IsSeq(fq) /\ ToSet(fq) = OnLan(fs) /\ ToSet(fp) \cap Routable \subseteq OnLan(fs)
  <2>. HIDE DEF P, Q, pp, qq
  <2>. QED BY <1>2, <1>3, <1>4, <1>5
<1>. HIDE DEF fp, fq
<1>7. chosen # Blank => chosen \in OnLan(fs) \cap Routable
  <2>1. FirstAddress(fp) # Blank => FirstAddress(fp) \in ToSet(fp) \cap Routable
    BY <1>6, FirstAddressProps
  <2>. QED BY <1>6, <2>1 DEF fp
<1>8. (any # Blank => any \in OnLan(fs) \cap Routable) /\ (OnLan(fs) \cap Routable # {} => any # Blank)
  <2>1. /\ FirstAddress(fq) # Blank => FirstAddress(fq) \in ToSet(fq) \cap Routable
        /\ ToSet(fq) \cap Routable # {} => FirstAddress(fq) # Blank
    BY <1>6, FirstAddressProps
  <2>. QED BY <1>6, <2>1 DEF fq
<1>. HIDE DEF chosen, any, fs
<1>9. OnLan(obj.ifaces) = OnLan(fs)
  BY DEF fs
<1>10. CASE obj.agent
  BY <1>1, <1>7, <1>8, <1>9, <1>10
<1>11. CASE ~obj.agent
  BY <1>1, <1>11
<1>. QED BY <1>10, <1>11

LEMMA GuestAddress ==
  ASSUME NEW obj, IsProxmoxObject(obj), LocalLoopback(obj.ifaces), NEW tags
  PROVE  /\ ResolveIP(obj, tags) # Blank => ResolveIP(obj, tags) \in (OnLan(obj.ifaces) \cup {obj.net0}) \cap Routable
         /\ \A other : ResolveIP(obj, tags) # Blank <=> ResolveIP(obj, other) # Blank
<1>1. CASE obj.type = "lxc"
  <2>1. \A t : ResolveIP(obj, t) = FirstAddress(<<obj.net0>>)
    BY <1>1 DEF ResolveIP, ResolveLXCIP
  <2>2. IsSeq(<<obj.net0>>) /\ ToSet(<<obj.net0>>) = {obj.net0}
    BY OneIsSeq
  <2>. DEFINE a == <<obj.net0>>
  <2>. HIDE DEF a
  <2>3. FirstAddress(a) # Blank => FirstAddress(a) \in ToSet(a) \cap Routable
    BY <2>2, FirstAddressProps DEF a
  <2>4. ToSet(a) = {obj.net0} /\ \A t : ResolveIP(obj, t) = FirstAddress(a)
    BY <2>1, <2>2 DEF a
  <2>. QED BY <2>3, <2>4
<1>2. CASE obj.type # "lxc"
  <2>1. \A t : ResolveIP(obj, t) = ResolveVMIP(obj, t)
    BY <1>2 DEF ResolveIP
  <2>2. AreInterfaces(obj.ifaces)
    BY DEF IsProxmoxObject
  <2>3. ASSUME NEW t
        PROVE  /\ ResolveVMIP(obj, t) # Blank => ResolveVMIP(obj, t) \in OnLan(obj.ifaces) \cap Routable
               /\ ResolveVMIP(obj, t) # Blank <=> obj.agent /\ OnLan(obj.ifaces) \cap Routable # {}
    BY <2>2, VMAddress
  <2>4. ASSUME NEW other PROVE ResolveVMIP(obj, tags) # Blank <=> ResolveVMIP(obj, other) # Blank
    BY <2>3
  <2>5. ResolveVMIP(obj, tags) # Blank => ResolveVMIP(obj, tags) \in OnLan(obj.ifaces) \cap Routable
    BY <2>3
  <2>. QED BY <2>1, <2>4, <2>5
<1>. QED BY <1>1, <1>2

LEMMA IncusAddress ==
  ASSUME NEW obj, AreInterfaces(obj.ifaces)
  PROVE  IncusResolveIP(obj) # Blank => IncusResolveIP(obj) \in OnLan(obj.ifaces) \cap Routable
<1>. DEFINE fs == obj.ifaces
            Q == {j \in DOMAIN fs : fs[j].name # "lo"}
            c == Chosen(fs, Q)
            few(s) == Chosen(s, {k \in DOMAIN s : s[k] \notin obj.scoped})
            parts == [i \in DOMAIN c |-> few(c[i].addrs)]
            flat == FlattenSeq(parts)
<1>1. IncusResolveIP(obj) = FirstAddress(flat)
  BY DEF IncusResolveIP, Filter, MapSeq
<1>2. IsSeq(fs) /\ \A j \in DOMAIN fs : IsSeq(fs[j].addrs)
  BY DEF AreInterfaces
<1>3. \A j \in DOMAIN fs : IsSeq(few(fs[j].addrs)) /\ ToSet(few(fs[j].addrs)) \subseteq ToSet(fs[j].addrs)
  <2>. SUFFICES ASSUME NEW j \in DOMAIN fs
                PROVE  IsSeq(few(fs[j].addrs)) /\ ToSet(few(fs[j].addrs)) \subseteq ToSet(fs[j].addrs)
    OBVIOUS
  <2>. DEFINE s == fs[j].addrs
              P == {k \in DOMAIN s : s[k] \notin obj.scoped}
  <2>1. IsSeq(s)
    BY <1>2
  <2>. HIDE DEF s
  <2>2. IsSeq(Chosen(s, P)) /\ ToSet(Chosen(s, P)) = {s[k] : k \in P \cap DOMAIN s}
    BY <2>1, ChosenProps
  <2>3. IsSeq(few(s)) /\ ToSet(few(s)) \subseteq ToSet(s)
    BY <2>2 DEF ToSet
  <2>. HIDE DEF few
  <2>. QED BY <2>3 DEF s
<1>. HIDE DEF few
<1>4. IsSeq(c) /\ ToSet(c) = {fs[j] : j \in Q \cap DOMAIN fs}
  BY <1>2, ChosenProps
<1>. HIDE DEF c
<1>5. \A i \in DOMAIN c : \E j \in DOMAIN fs : c[i] = fs[j] /\ fs[j].name # "lo"
  BY <1>4 DEF ToSet
<1>6. IsSeq(parts) /\ DOMAIN parts = DOMAIN c
  BY <1>4, MapIsSeq
<1>7. \A i \in DOMAIN parts : IsSeq(parts[i])
  BY <1>3, <1>5, <1>6
<1>8. IsSeq(flat) /\ ToSet(flat) = UNION {ToSet(parts[i]) : i \in DOMAIN parts}
  <2>. HIDE DEF parts
  <2>. QED BY <1>6, <1>7, FlattenProps
<1>9. ASSUME NEW a \in ToSet(flat) PROVE a \in OnLan(fs)
  <2>1. PICK i \in DOMAIN c : a \in ToSet(few(c[i].addrs))
    <3>. HIDE DEF flat
    <3>. QED BY <1>6, <1>8
  <2>2. PICK j \in DOMAIN fs : c[i] = fs[j] /\ fs[j].name # "lo"
    BY <1>5
  <2>3. a \in ToSet(fs[j].addrs)
    BY <1>3, <2>1, <2>2
  <2>. QED BY <2>2, <2>3 DEF OnLan
<1>. HIDE DEF flat, fs
<1>10. FirstAddress(flat) # Blank => FirstAddress(flat) \in ToSet(flat) \cap Routable
  BY <1>8, FirstAddressProps
<1>. QED BY <1>1, <1>9, <1>10 DEF fs

-----------------------------------------------------------------------------
(* The reports for guests. *)

\* Only the source of the guest's own platform speaks for it, with the address that was
\* resolved.
LEMMA GuestSource ==
  ASSUME NEW w, IsWorkload(w), NEW registered, IsSeq(registered), ToSet(registered) \subseteq SourceNames,
         NEW es \in ExtractAll(w, registered), NEW e \in ToSet(es), e.source \in {"proxmox", "incus"}
  PROVE  e.source = w.platform /\ e.router = w.name /\ e.hints.target \in {Blank, w.ip}
<1>1. PICK s \in ToSet(registered) : SourceSupports(s, w.platform) /\ \E r \in Extract(s, w) : e \in ToSet(r)
  BY ExtractAllProps
<1>2. PICK r \in Extract(s, w) : e \in ToSet(r)
  BY <1>1
<1>3. s \in SourceNames
  OBVIOUS
<1>4. e.source = s /\ (s \in {"proxmox", "incus"} => e.router = w.name /\ e.hints.target \in {Blank, w.ip})
  BY <1>2, <1>3, SourceReports
<1>. QED BY <1>1, <1>4 DEF SourceSupports

\* A Proxmox guest is reported under the names of its tags or its own, if it has an address.
LEMMA ProxmoxReports ==
  ASSUME NEW w, IsWorkload(w), w.platform = "proxmox", w.labels = NoMap, w.annotations = NoMap,
         NEW registered, IsSeq(registered), ToSet(registered) \subseteq SourceNames, "proxmox" \in ToSet(registered),
         NEW es \in ExtractAll(w, registered)
  PROVE  /\ \A e \in ToSet(es) : /\ e.host \in ToSet(ProxmoxHostname(w))
                                 /\ e.hints = GuestHints(ProxmoxCfg.targetMode, w.ip) /\ w.ip # Blank
         /\ w.ip # Blank => \A h \in ToSet(ProxmoxHostname(w)) :
               \E e \in ToSet(es) : e.host = h /\ e.hints = GuestHints(ProxmoxCfg.targetMode, w.ip)
<1>. DEFINE names == ProxmoxHostname(w)
            mode == ProxmoxCfg.targetMode
<1>1. ~IsWorkloadDisabled(w)
  BY NoLabels DEF IsWorkloadDisabled, Get
<1>2. IsSeq(names)
  BY ProxmoxHostnameIsSeq
<1>. HIDE DEF names, mode
<1>3. Extract("proxmox", w) = GuestExtract("proxmox", w, names, mode)
  BY DEF Extract, ProxmoxExtract, names, mode
<1>4. ASSUME NEW r \in Extract("proxmox", w)
      PROVE  /\ \A e \in ToSet(r) : e.host \in ToSet(names) /\ e.hints = GuestHints(mode, w.ip) /\ w.ip # Blank
             /\ w.ip # Blank => \A h \in ToSet(names) : \E e \in ToSet(r) : e.host = h /\ e.hints = GuestHints(mode, w.ip)
  BY <1>2, <1>3, GuestReports
<1>5. ASSUME NEW e \in ToSet(es) PROVE \E r \in Extract("proxmox", w) : e \in ToSet(r)
  <2>1. PICK s \in ToSet(registered) : SourceSupports(s, w.platform) /\ \E r \in Extract(s, w) : e \in ToSet(r)
    BY ExtractAllProps
  <2>2. PICK r \in Extract(s, w) : e \in ToSet(r)
    BY <2>1
  <2>3. s \in {"traefik", "caddy", "nginx-proxy", "dnsweaver", "proxmox"}
    BY <2>1 DEF SourceSupports, SourceNames
  <2>4. CASE s \in {"traefik", "caddy", "nginx-proxy", "dnsweaver"}
    BY <2>2, <2>4, NoLabelNames
  <2>5. CASE s = "proxmox"
    BY <2>2, <2>5
  <2>. QED BY <2>3, <2>4, <2>5
<1>6. PICK q \in Extract("proxmox", w) : ToSet(q) \subseteq ToSet(es)
  <2>1. SourceSupports("proxmox", w.platform)
    BY DEF SourceSupports
  <2>. QED BY <1>1, <2>1, ExtractAllProps
<1>7. \A e \in ToSet(es) : e.host \in ToSet(names) /\ e.hints = GuestHints(mode, w.ip) /\ w.ip # Blank
  BY <1>4, <1>5
<1>8. w.ip # Blank => \A h \in ToSet(names) : \E e \in ToSet(es) : e.host = h /\ e.hints = GuestHints(mode, w.ip)
  BY <1>4, <1>6
<1>. QED BY <1>7, <1>8 DEF names, mode

\* The names of a guest do not depend on its address.
LEMMA ProxmoxNames ==
  ASSUME NEW i, NEW obj, IsProxmoxObject(obj), NEW a, NEW b
  PROVE  ProxmoxHostname(ProxmoxWorkload(i, obj, a)) = ProxmoxHostname(ProxmoxWorkload(i, obj, b))
<1>. DEFINE u == ProxmoxWorkload(i, obj, a)
            v == ProxmoxWorkload(i, obj, b)
<1>1. u.tags = v.tags /\ u.guest = v.guest
  BY ProxmoxIsWorkload
<1>. HIDE DEF u, v
<1>2. ResolveHostnameFromTags(u) = ResolveHostnameFromTags(v)
  BY <1>1, Zenon DEF ResolveHostnameFromTags
<1>3. ProxmoxHostname(u) = ProxmoxHostname(v)
  BY <1>1, <1>2, Zenon DEF ProxmoxHostname
<1>. QED BY <1>3 DEF u, v
=============================================================================
