------------------------------ MODULE Hostnames ------------------------------
(***************************************************************************)
(* Host names as sources report them (pkg/source/hostname.go) and the      *)
(* domain patterns that route them to provider instances                   *)
(* (internal/matcher).  A written name is its labels in lower case and the *)
(* form of the spelling: "plain", "upper" (with capitals) or "dotted"      *)
(* (with a trailing dot).  The characters of a label are abstracted to its *)
(* membership in Words or Underscored.                                     *)
(***************************************************************************)
EXTENDS Naturals, Sequences, SequencesExt

CONSTANTS
    Words,        \* labels that match labelRegex
    Underscored,  \* labels that match srvLabelRegex
    MaxLabels     \* the 253 characters of a name, in labels

ASSUME HostnamesAssumption ==
    MaxLabels \in Nat /\ "*" \notin Words \cup Underscored /\ Words \cap Underscored = {}

\* The elements of s at the given positions, in their order.
Chosen(s, positions) ==
    LET upTo[n \in 0..Len(s)] ==
            IF n = 0 THEN <<>> ELSE IF n \in positions THEN Append(upTo[n - 1], s[n]) ELSE upTo[n - 1]
    IN  upTo[Len(s)]

Filter(s, Test(_)) == Chosen(s, {i \in DOMAIN s : Test(s[i])})

IsSeq(s) == Len(s) \in Nat /\ s = [i \in 1..Len(s) |-> s[i]]

Forms == {"plain", "upper", "dotted"}

\* The key of a name everywhere after validation: lower case, no trailing dot.
NormalizeHostname(h) == h.labels

LowerCase(h) == IF h.form = "upper" THEN [h EXCEPT !.form = "plain"] ELSE h

ValidateHostname(h) ==
    /\ Len(h.labels) \in 1..MaxLabels
    /\ \A i \in DOMAIN h.labels : h.labels[i] \in Words \cup (IF i = 1 THEN {"*"} ELSE {})

ValidateSRVHostname(h) ==
    /\ Len(h.labels) \in 3..MaxLabels
    /\ \A i \in DOMAIN h.labels : h.labels[i] \in (IF i <= 2 THEN Underscored ELSE Words)

\* What a source reports: the name, who found it where, the record hints and the
\* Traefik entrypoint of its Metadata ("" when the map has no such key).
NoHints == [type |-> "", target |-> "", ttl |-> 0, provider |-> "", srv |-> FALSE, proxied |-> ""]

Hostname(h, source, router, hints, entryPoint) ==
    [host |-> h, source |-> source, router |-> router, hints |-> hints, entryPoint |-> entryPoint]

Validate(e) ==
    IF e.hints.type = "SRV" THEN ValidateSRVHostname(e.host) ELSE ValidateHostname(e.host)

ValidateAll(es) == Filter(es, Validate)

-----------------------------------------------------------------------------
(* internal/matcher: a pattern is a sequence of labels in which "*" stands for ".*". *)

\* Whether the parts match the labels from end to end; a "*" takes one label or more.
GlobToRegex(parts, labels) ==
    LET m[i \in 0..Len(parts), j \in 0..Len(labels)] ==
            IF i = 0 THEN j = 0
            ELSE IF parts[i] = "*" THEN \E k \in 0..(j - 1) : m[i - 1, k]
            ELSE j > 0 /\ parts[i] = labels[j] /\ m[i - 1, j - 1]
    IN  m[Len(parts), Len(labels)]

\* A glob is anchored at both ends, a regular expression matches anywhere.
MatchString(parts, useRegex, labels) ==
    IF useRegex
    THEN \E i \in 1..(Len(labels) + 1), j \in 0..Len(labels) :
            GlobToRegex(parts, SubSeq(labels, i, j))
    ELSE GlobToRegex(parts, labels)

\* DomainMatcher.Matches: excludes first, then any include.
Matches(m, labels) ==
    /\ \A p \in m.excludes : ~MatchString(p, m.useRegex, labels)
    /\ \E p \in m.includes : MatchString(p, m.useRegex, labels)

\* MatchesWithMetadata: a name without the key is a wildcard, an instance without a
\* filter takes everything.
MatchesMetadataFilters(e, entryPoints) ==
    entryPoints = {} \/ e.entryPoint = "" \/ e.entryPoint \in entryPoints
=============================================================================
