----------------------------- MODULE ZoneIndex -----------------------------
(***************************************************************************)
(* The per-zone label index of src/types/zone.go.                          *)
(*                                                                         *)
(* NewZone builds an immutable radix tree keyed by the character-reversed  *)
(* location names ("www.a" is stored as "a.www."), with a nil entry at     *)
(* every "." boundary so that empty non-terminals can be recognised.       *)
(* FindLocation trims the zone suffix from a query, reverses it, takes the *)
(* longest key that is a prefix of it and classifies the match.            *)
(*                                                                         *)
(* Names are sequences of characters, so the reversal and the byte-wise    *)
(* longest-prefix match are modelled as the code does them; the radix tree *)
(* is modelled by what it stores: a function from keys to a location name  *)
(* or Nil.  The tree is built once (Init: the tree is immutable once      *)
(* built); each query runs FindLocation against it (Query).                *)
(*                                                                         *)
(* The result is compared with a reference matcher written from RFC 1034   *)
(* section 4.3.2 and RFC 4592 over label sequences.                        *)
(***************************************************************************)
EXTENDS Naturals, Sequences, SequencesExt, FiniteSets

CONSTANTS
    Labels,            \* the labels location names are made of: character sequences
    QueryLabels,       \* the labels query names are made of
    ZoneName,          \* the zone apex, a character sequence ending in "."
    MaxLocDepth,       \* the most labels of a location name
    MaxQueryDepth,     \* the most labels of a query below the apex
    MaxLocations,      \* the most locations of a zone
    InteriorWildcards, \* whether "*" may be a non-leftmost label of a location
    Nil                \* the nil value of an empty non-terminal entry

ASSUME /\ Labels \subseteq QueryLabels
       /\ MaxLocDepth \in Nat \ {0}
       /\ MaxQueryDepth \in Nat \ {0}
       /\ MaxLocations \in Nat \ {0}
       /\ InteriorWildcards \in BOOLEAN

VARIABLES
    locations,   \* Zone.LocationsList, as label sequences
    tree,        \* Zone.LocationsTree: reversed key |-> location name or Nil
    query,       \* the query name of the last FindLocation, as labels below the apex
    match        \* the (label, match kind) FindLocation returned for it

vars == <<locations, tree, query, match>>

\* The match kinds of zone.go, ExactMatch .. NoMatch.
ExactMatch == "ExactMatch"
WildCardMatch == "WildCardMatch"
EmptyNonterminalMatch == "EmptyNonterminalMatch"
CEMatch == "CEMatch"
NoMatch == "NoMatch"
MatchKinds == {ExactMatch, WildCardMatch, EmptyNonterminalMatch, CEMatch, NoMatch}

Dot == <<".">>
Star == <<"*">>
Apex == <<<<"@">>>>      \* the apex location, stored under the name "@"

\* A sequence of labels written as one character sequence, "a.b".
RECURSIVE Join(_)
Join(ls) == IF Len(ls) = 1 THEN ls[1] ELSE ls[1] \o Dot \o Join(Tail(ls))

LabelSeqs(L, n) == UNION {[1..d -> L] : d \in 1..n}

\* The location names a zone of the model may have: the apex and names of
\* up to MaxLocDepth labels, "*" only leftmost unless InteriorWildcards.
LocationNames ==
    {Apex} \cup {l \in LabelSeqs(Labels, MaxLocDepth) :
                    InteriorWildcards \/ \A i \in 2..Len(l) : l[i] # Star}

ZoneLocationSets == {S \in SUBSET LocationNames : Cardinality(S) \in 1..MaxLocations}

\* The query name, a character sequence ending in the zone name.
QueryName(ql) == IF ql = <<>> THEN ZoneName ELSE Join(ql) \o Dot \o ZoneName

-----------------------------------------------------------------------------
(* The code.                                                               *)

\* Mutant: the name is reversed without the leading ".".
ReverseNameNoDot(name) == Reverse(name)

\* ReverseName: the runes of "." + name in reverse order.
ReverseName(name) == Reverse(Dot \o name)

\* strings.TrimSuffix
TrimSuffix(s, suffix) ==
    IF IsSuffix(suffix, s) THEN SubSeq(s, 1, Len(s) - Len(suffix)) ELSE s

\* Mutant: NewZone without the loop that inserts the nil entries.
NewZoneWithoutEnts(locs) ==
    LET names == {Join(l) : l \in locs}
        rvalues == {ReverseName(n) : n \in names}
    IN [k \in rvalues |-> CHOOSE n \in names : ReverseName(n) = k]

\* NewZone: a nil entry for every "."-terminated prefix of every reversed
\* name not yet in the tree, then every reversed name with its location.
NewZone(locs) ==
    LET names == {Join(l) : l \in locs}
        rvalues == {ReverseName(n) : n \in names}
        ents == UNION {{SubSeq(rv, 1, i) : i \in {j \in 1..Len(rv) : rv[j] = "."}} :
                        rv \in rvalues}
    IN [k \in ents \cup rvalues |->
            IF k \in rvalues THEN CHOOSE n \in names : ReverseName(n) = k
                             ELSE Nil]

\* iradix Tree.Get: found and the stored value.
Found(t, k) == k \in DOMAIN t
HasValue(t, k) == Found(t, k) /\ t[k] # Nil

\* FindLocation(query) -> (label, match kind).
FindLocation(t, qname) ==
    IF qname = ZoneName THEN <<<<"@">>, ExactMatch>>
    ELSE
    LET q == TrimSuffix(qname, Dot \o ZoneName)
        rquery == ReverseName(q)
        prefixes == {k \in DOMAIN t : IsPrefix(k, rquery)}
    IN IF prefixes = {}
       THEN IF HasValue(t, <<"*", ".">>) THEN <<Star, WildCardMatch>>
                                        ELSE <<<<>>, NoMatch>>
       ELSE
       LET prefix == CHOOSE k \in prefixes : \A j \in prefixes : Len(j) <= Len(k)
           ss == prefix \o <<"*", ".">>
       IN IF t[prefix] # Nil
          THEN CASE prefix = rquery -> <<q, ExactMatch>>
                 [] HasValue(t, ss) -> <<t[ss], WildCardMatch>>
                 [] OTHER -> <<t[prefix], CEMatch>>
          ELSE CASE prefix = rquery -> <<<<>>, EmptyNonterminalMatch>>
                 [] HasValue(t, ss) -> <<t[ss], WildCardMatch>>
                 [] OTHER -> <<<<>>, NoMatch>>

-----------------------------------------------------------------------------
(* The specification.                                                      *)

Init ==
    \E locs \in ZoneLocationSets :
        /\ locations = locs
        /\ tree = NewZone(locs)
        /\ query = <<>>
        /\ match = FindLocation(NewZone(locs), ZoneName)

\* A query below the zone is classified against the current tree.
Query(ql) ==
    /\ query' = ql
    /\ match' = FindLocation(tree, QueryName(ql))
    /\ UNCHANGED <<locations, tree>>

Next ==
    \E ql \in {<<>>} \cup LabelSeqs(QueryLabels, MaxQueryDepth) : Query(ql)

Spec == Init /\ [][Next]_vars

-----------------------------------------------------------------------------
(* The reference: RFC 1034 4.3.2 and RFC 4592 name matching.  A name is    *)
(* the path of labels from the apex down; a name exists if it owns data or *)
(* has a descendant that does.  The outcome of a query is an answer from   *)
(* the data of one name, NODATA, or NXDOMAIN.                              *)

Path(l) == IF l = Apex THEN <<>> ELSE Reverse(l)

Answer(p) == [kind |-> "answer", name |-> p]
NoData == [kind |-> "nodata", name |-> <<>>]
NxDomain == [kind |-> "nxdomain", name |-> <<>>]

ReferenceOutcome(locs, ql) ==
    LET D == {Path(l) : l \in locs}
        Exists(p) == p = <<>> \/ \E d \in D : IsPrefix(p, d)
        qp == Reverse(ql)
        ancestors == {SubSeq(qp, 1, i) : i \in 0..Len(qp)}
        ce == CHOOSE a \in ancestors :
                /\ Exists(a)
                /\ \A b \in ancestors : Exists(b) => Len(b) <= Len(a)
        source == ce \o <<Star>>
    IN IF ce = qp THEN (IF qp \in D THEN Answer(qp) ELSE NoData)
       ELSE IF source \in D THEN Answer(source)
       ELSE IF Exists(source) THEN NoData
       ELSE NxDomain

\* What the resolver makes of a FindLocation result: the records of the
\* matched location (none, if it has no entry: NODATA), NODATA for an empty
\* non-terminal, NXDOMAIN for a closest-encloser match or no match.
CodeOutcome(locs, m) ==
    CASE m[2] \in {ExactMatch, WildCardMatch} ->
            IF \E l \in locs : Join(l) = m[1]
            THEN Answer(Path(CHOOSE l \in locs : Join(l) = m[1]))
            ELSE NoData
      [] m[2] = EmptyNonterminalMatch -> NoData
      [] OTHER -> NxDomain

-----------------------------------------------------------------------------
(* Properties.                                                             *)

TypeOK ==
    /\ locations \in ZoneLocationSets
    /\ \A k \in DOMAIN tree : Len(k) > 0 /\ Last(k) = "."
    /\ query \in {<<>>} \cup LabelSeqs(QueryLabels, MaxQueryDepth)
    /\ match[2] \in MatchKinds

\* FindLocation classifies every query as the DNS name-matching rules do:
\* an existing name answers from its own data or is NODATA, a missing name
\* is answered from the wildcard at its closest encloser, and otherwise
\* NXDOMAIN.  This relates the tree NewZone built (its empty non-terminal
\* entries, its reversed keys) to the longest-prefix walk of FindLocation.
MatchAgreesWithReference ==
    CodeOutcome(locations, match) = ReferenceOutcome(locations, query)
=============================================================================
