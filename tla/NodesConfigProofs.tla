------------------------- MODULE NodesConfigProofs -------------------------
(***************************************************************************)
(* What NodesConfig promises, proved for any subscriptions, answers,       *)
(* regions and selections.                                                 *)
(***************************************************************************)
EXTENDS NodesConfig, FiniteSetTheorems, WellFoundedInduction, TLAPS

-----------------------------------------------------------------------------
(* Sets of numbers.                                                        *)

(* A set of natural numbers has a least one.                               *)
LEMMA Least ==
  ASSUME NEW S \in SUBSET Nat, S # {}
  PROVE  \E n \in S : \A m \in S : n <= m
<1>1. PICK n \in S : \A m \in S : <<m, n>> \notin OpToRel(<, Nat)
  BY NatLessThanWellFounded, WFMin
<1>2. \A m \in S : ~(m < n)
  BY <1>1 DEF OpToRel
<1> QED BY <1>2

(* Every number of a finite set has a place of its own.                    *)
LEMMA PlacesDiffer ==
  ASSUME NEW S \in SUBSET Nat, IsFiniteSet(S), NEW n \in S, NEW m \in S
  PROVE  /\ Cardinality({h \in S : h <= n}) \in 1 .. Cardinality(S)
         /\ n < m => Cardinality({h \in S : h <= n}) # Cardinality({h \in S : h <= m})
<1> DEFINE Upto(x) == {h \in S : h <= x}
<1>1. Upto(n) \in SUBSET S /\ Upto(m) \in SUBSET S /\ n \in Upto(n)
  OBVIOUS
<1>2. n < m => Upto(n) \in SUBSET Upto(m) /\ m \in Upto(m) \ Upto(n)
  <2>1. \A x, y, z \in Nat : x < y /\ z <= x => z <= y /\ ~(y <= x) /\ y <= y
    OBVIOUS
  <2>2. n \in Nat /\ m \in Nat /\ \A h \in S : h \in Nat
    OBVIOUS
  <2>3. n < m => m <= m /\ ~(m <= n)
    BY <2>2
  <2> QED BY <2>1, <2>2, <2>3
<1> HIDE DEF Upto
<1>3. /\ IsFiniteSet(Upto(n)) /\ IsFiniteSet(Upto(m)) /\ Cardinality(S) \in Nat
      /\ Cardinality(Upto(n)) <= Cardinality(S) /\ Cardinality(Upto(n)) \in Nat
  BY <1>1, FS_Subset, FS_CardinalityType
<1>4. Cardinality(Upto(n)) # 0
  BY <1>1, <1>3, FS_EmptySet
<1>5. n < m => Cardinality(Upto(n)) # Cardinality(Upto(m))
  BY <1>2, <1>3, FS_Subset
<1> QED BY <1>3, <1>4, <1>5 DEF Upto

(* ... and every place its number.                                         *)
LEMMA NthIs ==
  ASSUME NEW S \in SUBSET Nat, IsFiniteSet(S)
  PROVE  /\ Cardinality(S) \in Nat
         /\ \A p \in 1 .. Cardinality(S) : Nth(S, p) \in S
         /\ \A p, q \in 1 .. Cardinality(S) : Nth(S, p) = Nth(S, q) => p = q
         /\ \A n \in S : \E p \in 1 .. Cardinality(S) : Nth(S, p) = n
<1> DEFINE Place(n) == Cardinality({h \in S : h <= n})
           f == [n \in S |-> Place(n)]
<1>1. \A n \in S : Place(n) \in 1 .. Cardinality(S)
  BY PlacesDiffer
<1>2. \A n, m \in S : n < m => Place(n) # Place(m)
  BY PlacesDiffer
<1>3. Nth(S, 1) = Nth(S, 1) /\ \A p : Nth(S, p) = CHOOSE n \in S : Place(n) = p
  BY DEF Nth
<1> HIDE DEF Place
<1>4. \A n, m \in S : Place(n) = Place(m) => n = m
  <2> SUFFICES ASSUME NEW n \in S, NEW m \in S, n # m  PROVE Place(n) # Place(m)
    OBVIOUS
  <2>1. n < m \/ m < n
    OBVIOUS
  <2> QED BY <1>2, <2>1
<1>5. f \in Injection(S, 1 .. Cardinality(S))
  BY <1>1, <1>4 DEF Injection, IsInjective
<1>6. /\ Cardinality(S) \in Nat /\ IsFiniteSet(1 .. Cardinality(S))
      /\ Cardinality(1 .. Cardinality(S)) = Cardinality(S)
  <2>1. Cardinality(S) \in Nat
    BY FS_CardinalityType
  <2> QED BY <2>1, FS_Interval
<1>7. f \in Surjection(S, 1 .. Cardinality(S))
  BY <1>5, <1>6, FS_Injection
<1>8. \A p \in 1 .. Cardinality(S) : \E n \in S : Place(n) = p
  BY <1>7 DEF Surjection
<1>9. \A p \in 1 .. Cardinality(S) : Nth(S, p) \in S /\ Place(Nth(S, p)) = p
  BY <1>3, <1>8
<1>10. \A n \in S : Nth(S, Place(n)) = n
  BY <1>1, <1>4, <1>9
<1> QED BY <1>1, <1>6, <1>9, <1>10

(* What is chosen of a sequence.                                           *)
LEMMA ChosenIs ==
  ASSUME NEW X, NEW s \in Seq(X), NEW S \in SUBSET DOMAIN s
  PROVE  /\ Chosen(s, S) \in Seq(X)
         /\ DOMAIN Chosen(s, S) = 1 .. Cardinality(S) /\ Cardinality(S) \in Nat
         /\ \A p \in DOMAIN Chosen(s, S) : Nth(S, p) \in S /\ Chosen(s, S)[p] = s[Nth(S, p)]
         /\ \A p, q \in DOMAIN Chosen(s, S) : Nth(S, p) = Nth(S, q) => p = q
         /\ \A n \in S : \E p \in DOMAIN Chosen(s, S) : Nth(S, p) = n
         /\ S # {} => DOMAIN Chosen(s, S) # {}
<1>1. S \in SUBSET Nat /\ IsFiniteSet(S)
  <2>1. IsFiniteSet(1 .. Len(s)) /\ DOMAIN s = 1 .. Len(s)
    BY FS_Interval
  <2> QED BY <2>1, FS_Subset
<1>2. /\ Cardinality(S) \in Nat
      /\ \A p \in 1 .. Cardinality(S) : Nth(S, p) \in S
      /\ \A p, q \in 1 .. Cardinality(S) : Nth(S, p) = Nth(S, q) => p = q
      /\ \A n \in S : \E p \in 1 .. Cardinality(S) : Nth(S, p) = n
  BY <1>1, NthIs
<1>3. Chosen(s, S) = [p \in 1 .. Cardinality(S) |-> s[Nth(S, p)]]
  BY DEF Chosen
<1>4. \A n \in S : s[n] \in X
  OBVIOUS
<1>5. Chosen(s, S) \in [1 .. Cardinality(S) -> X]
  BY <1>2, <1>3, <1>4
<1>6. Chosen(s, S) \in Seq(X)
  BY <1>2, <1>5
<1> QED BY <1>2, <1>3, <1>6

(* A finite set as a sequence.                                             *)
LEMMA SetToSeqIs ==
  ASSUME NEW S, IsFiniteSet(S)
  PROVE  /\ SetToSeq(S) \in Seq(S) /\ IsInjective(SetToSeq(S))
         /\ \A x \in S : \E p \in DOMAIN SetToSeq(S) : SetToSeq(S)[p] = x
<1>1. Cardinality(S) \in Nat /\ ExistsBijection(1 .. Cardinality(S), S)
  BY FS_CardinalityType
<1>2. PICK f \in Bijection(1 .. Cardinality(S), S) : TRUE
  BY <1>1 DEF ExistsBijection
<1>3. f \in [1 .. Cardinality(S) -> S] /\ IsInjective(f)
  BY <1>2 DEF Bijection, Injection
<1>4. SetToSeq(S) \in [1 .. Cardinality(S) -> S] /\ IsInjective(SetToSeq(S))
  BY <1>3 DEF SetToSeq
<1>5. SetToSeq(S) \in Injection(1 .. Cardinality(S), S)
  BY <1>4 DEF Injection
<1>6. SetToSeq(S) \in Surjection(1 .. Cardinality(S), S)
  <2>1. Cardinality(1 .. Cardinality(S)) = Cardinality(S)
    BY <1>1, FS_Interval
  <2> QED BY <1>5, <2>1, FS_Injection
<1> QED BY <1>1, <1>4, <1>6 DEF Surjection

-----------------------------------------------------------------------------
(* Tags.                                                                   *)

(* Different suffixes make different tags.                                 *)
LEMMA SuffixesDiffer ==
  ASSUME NEW sub \in STRING, NEW name \in Name
  PROVE  /\ \A n \in Nat : Suffixed(sub, name, n) \in NodeTag
         /\ \A n, m \in Nat : Suffixed(sub, name, n) = Suffixed(sub, name, m) => n = m
<1>1. name = <<name[1], name[2]>> /\ name[1] \in STRING /\ name[2] \in Seq(Nat)
  BY DEF Name
<1>2. \A n \in Nat : /\ Append(name[2], n) \in Seq(Nat)
                     /\ Len(Append(name[2], n)) = Len(name[2]) + 1
                     /\ Append(name[2], n)[Len(name[2]) + 1] = n
  BY <1>1
<1>3. \A n \in Nat : <<name[1], Append(name[2], n)>> \in Name
  BY <1>1, <1>2 DEF Name
<1>4. \A n \in Nat : <<name[1], Append(name[2], n)>> # name
  <2> SUFFICES ASSUME NEW n \in Nat, <<name[1], Append(name[2], n)>> = name
               PROVE  FALSE
    OBVIOUS
  <2>1. Append(name[2], n) = name[2] /\ Len(name[2]) \in Nat
    BY <1>1
  <2> QED BY <1>2, <2>1
<1>5. \A n, m \in Nat : Append(name[2], n) = Append(name[2], m) => n = m
  BY <1>2
<1>6. \A n \in Nat : Suffixed(sub, name, n) \in NodeTag
  BY <1>3 DEF Suffixed, NodeTag
<1>7. ASSUME NEW n \in Nat, NEW m \in Nat, Suffixed(sub, name, n) = Suffixed(sub, name, m)
      PROVE  n = m
  <2>1. (IF n = 0 THEN name ELSE <<name[1], Append(name[2], n)>>)
          = (IF m = 0 THEN name ELSE <<name[1], Append(name[2], m)>>)
    BY <1>7 DEF Suffixed
  <2>2. CASE n = 0 \/ m = 0
    BY <2>1, <2>2, <1>4
  <2>3. CASE n # 0 /\ m # 0
    BY <2>1, <2>3, <1>5
  <2> QED BY <2>2, <2>3
<1> QED BY <1>6, <1>7

(* The first suffix that is new is found among one more than there are     *)
(* tags.                                                                   *)
LEMMA FreshTagIs ==
  ASSUME NEW sub \in STRING, NEW name \in Name, NEW seen, IsFiniteSet(seen)
  PROVE  FreshTag(sub, name, seen) \in NodeTag \ seen
<1> DEFINE c == Cardinality(seen)
           New == {n \in 0 .. c : Suffixed(sub, name, n) \notin seen}
           f == [n \in 0 .. c |-> Suffixed(sub, name, n)]
<1>1. c \in Nat /\ IsFiniteSet(0 .. c) /\ Cardinality(0 .. c) = c + 1
  <2>1. c \in Nat
    BY FS_CardinalityType
  <2> QED BY <2>1, FS_Interval
<1>2. New # {}
  <2> SUFFICES ASSUME New = {}  PROVE FALSE
    OBVIOUS
  <2>1. f \in [0 .. c -> seen]
    OBVIOUS
  <2>2. PICK x, y \in 0 .. c : x # y /\ f[x] = f[y]
    <3> HIDE DEF f
    <3>1. Cardinality(seen) < Cardinality(0 .. c)
      BY <1>1
    <3> QED BY <1>1, <2>1, <3>1, FS_PigeonHole
  <2>3. Suffixed(sub, name, x) = Suffixed(sub, name, y)
    BY <2>2
  <2>4. x \in Nat /\ y \in Nat
    BY <1>1
  <2> HIDE DEF f, New, c
  <2> QED BY <2>2, <2>3, <2>4, SuffixesDiffer
<1>3. PICK n \in New : \A m \in New : n <= m
  <2>1. \A n \in New : n \in 0 .. c
    OBVIOUS
  <2> HIDE DEF New, c
  <2>2. New \in SUBSET Nat
    BY <1>1, <2>1
  <2> QED BY <1>2, <2>2, Least
<1> DEFINE h == CHOOSE n0 \in New : \A m \in New : n0 <= m
<1>4. h \in New
  BY <1>3
<1>5. FreshTag(sub, name, seen) = Suffixed(sub, name, h)
  BY DEF FreshTag
<1> HIDE DEF h
<1>6. h \in 0 .. c /\ Suffixed(sub, name, h) \notin seen
  BY <1>4
<1>7. h \in Nat
  <2> HIDE DEF c
  <2> QED BY <1>1, <1>6
<1> QED BY <1>5, <1>6, <1>7, SuffixesDiffer

(* No two nodes of the build have one tag.                                 *)
Distinct(ns) == \A m, n \in DOMAIN ns : ns[m].tag = ns[n].tag => m = n

(* A node more.                                                            *)
LEMMA AddNodeIs ==
  ASSUME NEW sub \in STRING, NEW ns \in Seq(Node), NEW entry \in Entry
  PROVE  /\ AddNode(sub, ns, entry) \in Seq(Node)
         /\ Distinct(ns) => Distinct(AddNode(sub, ns, entry))
         /\ entry.kind # "node" => AddNode(sub, ns, entry) = ns
         /\ entry.kind = "node" =>
              LET more == AddNode(sub, ns, entry)
              IN  /\ Len(more) = Len(ns) + 1
                  /\ \A n \in DOMAIN ns : more[n] = ns[n]
                  /\ more[Len(ns) + 1].sub = sub
                  /\ more[Len(ns) + 1].original = entry.name
                  /\ more[Len(ns) + 1].regions = entry.regions
                  /\ more[Len(ns) + 1].rate = entry.rate
<1>1. CASE entry.kind # "node"
  BY <1>1 DEF AddNode
<1>2. CASE entry.kind = "node"
  <2> DEFINE fresh == FreshTag(sub, entry.name, TagsOf(ns))
             node == [tag |-> fresh, sub |-> sub, original |-> entry.name,
                      regions |-> entry.regions, rate |-> entry.rate]
  <2>1. IsFiniteSet(TagsOf(ns))
    <3> DEFINE g == [n \in DOMAIN ns |-> ns[n].tag]
    <3>1. g \in Surjection(DOMAIN ns, TagsOf(ns))
      BY DEF Surjection, TagsOf
    <3>2. IsFiniteSet(DOMAIN ns)
      <4>1. DOMAIN ns = 1 .. Len(ns)
        OBVIOUS
      <4> QED BY <4>1, FS_Interval
    <3> HIDE DEF g
    <3> QED BY <3>1, <3>2, FS_Surjection
  <2>2. fresh \in NodeTag /\ fresh \notin TagsOf(ns)
    BY <2>1, FreshTagIs DEF Entry
  <2>3. AddNode(sub, ns, entry) = Append(ns, node)
    BY <1>2 DEF AddNode
  <2> HIDE DEF fresh
  <2>4. node \in Node
    BY <2>2 DEF Node, Entry
  <2>5. /\ node.tag = fresh /\ node.sub = sub /\ node.original = entry.name
        /\ node.regions = entry.regions /\ node.rate = entry.rate
    OBVIOUS
  <2>6. \A n \in DOMAIN ns : ns[n].tag # fresh
    BY <2>2 DEF TagsOf
  <2> HIDE DEF node
  <2>7. /\ Append(ns, node) \in Seq(Node) /\ Len(Append(ns, node)) = Len(ns) + 1
        /\ DOMAIN Append(ns, node) = DOMAIN ns \cup {Len(ns) + 1}
        /\ Append(ns, node)[Len(ns) + 1] = node
        /\ \A n \in DOMAIN ns : Append(ns, node)[n] = ns[n]
    BY <2>4
  <2>8. Distinct(ns) => Distinct(Append(ns, node))
    BY <2>5, <2>6, <2>7 DEF Distinct
  <2> QED BY <1>2, <2>3, <2>5, <2>7, <2>8
<1> QED BY <1>1, <1>2
-----------------------------------------------------------------------------
(* Lists of outbounds.                                                     *)
RegionTag == ({"URLTest", "HighRate URLTest", "HighRate", "group"} \X STRING)
             \cup ({"sub"} \X STRING \X STRING)
GlobalTag == {<<"LowRateNodes">>, <<"HighRateNodes URLTest">>, <<"HighRateNodes">>,
              <<"AllNodes">>}
Tag == NodeTag \cup RegionTag \cup GlobalTag
Outbounds == [type : {"node", "urltest", "selector"}, tag : Tag, members : Seq(Tag)]

TagsIn(list) == {list[n].tag : n \in DOMAIN list}
MembersIn(list) == UNION {ToSet(list[n].members) : n \in DOMAIN list}
Fine(list) == /\ list \in Seq(Outbounds) /\ Distinct(list)
              /\ \A n \in DOMAIN list : IsInjective(list[n].members)
Full(list) == \A n \in DOMAIN list : list[n].type # "node" => list[n].members # <<>>

(* The kinds of tags are told apart by how they begin.                     *)
LEMMA KindsDiffer ==
  /\ \A t \in NodeTag : t[1] = "node"
  /\ \A t \in RegionTag : t[1] \in {"URLTest", "HighRate URLTest", "HighRate", "group", "sub"}
  /\ \A t \in GlobalTag : t[1] \in {"LowRateNodes", "HighRateNodes URLTest",
                                    "HighRateNodes", "AllNodes"}
<1>1. \A t \in NodeTag : t[1] = "node"
  BY DEF NodeTag
<1>2. \A t \in {"URLTest", "HighRate URLTest", "HighRate", "group"} \X STRING :
        t[1] \in {"URLTest", "HighRate URLTest", "HighRate", "group"}
  OBVIOUS
<1>3. \A t \in {"sub"} \X STRING \X STRING : t[1] = "sub"
  OBVIOUS
<1>4. \A t \in GlobalTag : t[1] \in {"LowRateNodes", "HighRateNodes URLTest",
                                     "HighRateNodes", "AllNodes"}
  <2>1. \A x : <<x>>[1] = x
    OBVIOUS
  <2> QED BY <2>1 DEF GlobalTag
<1> QED BY <1>1, <1>2, <1>3, <1>4 DEF RegionTag

(* Every tag is one, of whichever kind.                                    *)
LEMMA TagsAreTags == \A t \in NodeTag \cup RegionTag \cup GlobalTag : t \in Tag
BY DEF Tag

(* Two sequences without repetitions and without a common element.         *)
LEMMA JoinTags ==
  ASSUME NEW X, NEW s \in Seq(X), NEW t \in Seq(X), IsInjective(s), IsInjective(t),
         ToSet(s) \cap ToSet(t) = {}
  PROVE  /\ s \o t \in Seq(X) /\ IsInjective(s \o t)
         /\ ToSet(s \o t) = ToSet(s) \cup ToSet(t)
         /\ s \o t = <<>> <=> s = <<>> /\ t = <<>>
<1>1. /\ s \o t \in Seq(X) /\ Len(s \o t) = Len(s) + Len(t)
      /\ Len(s) \in Nat /\ Len(t) \in Nat
      /\ DOMAIN s = 1 .. Len(s) /\ DOMAIN t = 1 .. Len(t)
      /\ DOMAIN (s \o t) = 1 .. Len(s) + Len(t)
  OBVIOUS
<1>2. \A n \in DOMAIN (s \o t) : (s \o t)[n] = IF n <= Len(s) THEN s[n] ELSE t[n - Len(s)]
  OBVIOUS
<1>3. /\ \A n \in DOMAIN s : n \in DOMAIN (s \o t) /\ (s \o t)[n] = s[n]
      /\ \A n \in DOMAIN t : /\ n + Len(s) \in DOMAIN (s \o t)
                             /\ (s \o t)[n + Len(s)] = t[n]
  BY <1>1, <1>2
<1>4. \A n \in DOMAIN (s \o t) : \/ n \in DOMAIN s
                                 \/ n - Len(s) \in DOMAIN t /\ n > Len(s)
  BY <1>1
<1>5. ToSet(s \o t) = ToSet(s) \cup ToSet(t)
  <2>1. \A x \in ToSet(s \o t) : x \in ToSet(s) \cup ToSet(t)
    <3>1. \A n \in DOMAIN (s \o t) : (s \o t)[n] \in ToSet(s) \cup ToSet(t)
      BY <1>1, <1>2, <1>4 DEF ToSet
    <3> QED BY <3>1 DEF ToSet
  <2>2. ToSet(s) \subseteq ToSet(s \o t)
    BY <1>3 DEF ToSet
  <2>3. ToSet(t) \subseteq ToSet(s \o t)
    BY <1>3 DEF ToSet
  <2> QED BY <2>1, <2>2, <2>3
<1>6. ASSUME NEW m \in DOMAIN (s \o t), NEW n \in DOMAIN (s \o t),
             (s \o t)[m] = (s \o t)[n]
      PROVE  m = n
  <2>1. CASE m <= Len(s) /\ n <= Len(s)
    BY <1>1, <1>2, <1>6, <2>1 DEF IsInjective
  <2>2. CASE m > Len(s) /\ n > Len(s)
    <3>1. m - Len(s) \in DOMAIN t /\ n - Len(s) \in DOMAIN t
      BY <1>1, <2>2
    <3>2. t[m - Len(s)] = t[n - Len(s)]
      BY <1>1, <1>2, <1>6, <2>2
    <3>3. m - Len(s) = n - Len(s)
      BY <3>1, <3>2 DEF IsInjective
    <3> QED BY <1>1, <3>3
  <2>3. CASE m <= Len(s) /\ n > Len(s)
    BY <1>1, <1>2, <1>6, <2>3 DEF ToSet
  <2>4. CASE m > Len(s) /\ n <= Len(s)
    BY <1>1, <1>2, <1>6, <2>4 DEF ToSet
  <2> QED BY <1>1, <2>1, <2>2, <2>3, <2>4
<1>7. s \o t = <<>> <=> s = <<>> /\ t = <<>>
  BY <1>1
<1> QED BY <1>1, <1>5, <1>6, <1>7 DEF IsInjective

(* The same of two lists of outbounds.                                     *)
LEMMA Join ==
  ASSUME NEW s, NEW t, Fine(s), Fine(t), TagsIn(s) \cap TagsIn(t) = {}
  PROVE  /\ Fine(s \o t)
         /\ TagsIn(s \o t) = TagsIn(s) \cup TagsIn(t)
         /\ MembersIn(s \o t) = MembersIn(s) \cup MembersIn(t)
         /\ Full(s) /\ Full(t) => Full(s \o t)
<1>1. /\ s \in Seq(Outbounds) /\ t \in Seq(Outbounds) /\ s \o t \in Seq(Outbounds)
      /\ Len(s) \in Nat /\ Len(t) \in Nat
      /\ DOMAIN s = 1 .. Len(s) /\ DOMAIN t = 1 .. Len(t)
      /\ DOMAIN (s \o t) = 1 .. Len(s) + Len(t)
  BY DEF Fine
<1>2. \A n \in DOMAIN (s \o t) : (s \o t)[n] = IF n <= Len(s) THEN s[n] ELSE t[n - Len(s)]
  BY <1>1
<1>3. /\ \A n \in DOMAIN s : n \in DOMAIN (s \o t) /\ (s \o t)[n] = s[n]
      /\ \A n \in DOMAIN t : /\ n + Len(s) \in DOMAIN (s \o t)
                             /\ (s \o t)[n + Len(s)] = t[n]
  BY <1>1, <1>2
<1>4. \A n \in DOMAIN (s \o t) :
        \/ n \in DOMAIN s /\ (s \o t)[n] = s[n]
        \/ n - Len(s) \in DOMAIN t /\ n > Len(s) /\ (s \o t)[n] = t[n - Len(s)]
  BY <1>1, <1>2
<1>5. TagsIn(s \o t) = TagsIn(s) \cup TagsIn(t)
  <2>1. \A n \in DOMAIN (s \o t) : (s \o t)[n].tag \in TagsIn(s) \cup TagsIn(t)
    BY <1>4 DEF TagsIn
  <2>2. TagsIn(s) \subseteq TagsIn(s \o t)
    BY <1>3 DEF TagsIn
  <2>3. TagsIn(t) \subseteq TagsIn(s \o t)
    BY <1>3 DEF TagsIn
  <2> QED BY <2>1, <2>2, <2>3 DEF TagsIn
<1>6. MembersIn(s \o t) = MembersIn(s) \cup MembersIn(t)
  BY <1>3, <1>4 DEF MembersIn
<1>7. Full(s) /\ Full(t) => Full(s \o t)
  BY <1>4 DEF Full
<1>8. \A n \in DOMAIN (s \o t) : IsInjective((s \o t)[n].members)
  BY <1>4 DEF Fine
<1>9. ASSUME NEW m \in DOMAIN (s \o t), NEW n \in DOMAIN (s \o t),
             (s \o t)[m].tag = (s \o t)[n].tag
      PROVE  m = n
  <2>1. CASE m <= Len(s) /\ n <= Len(s)
    BY <1>1, <1>2, <1>9, <2>1 DEF Fine, Distinct
  <2>2. CASE m > Len(s) /\ n > Len(s)
    <3>1. m - Len(s) \in DOMAIN t /\ n - Len(s) \in DOMAIN t
      BY <1>1, <2>2
    <3>2. t[m - Len(s)].tag = t[n - Len(s)].tag
      BY <1>1, <1>2, <1>9, <2>2
    <3>3. m - Len(s) = n - Len(s)
      BY <3>1, <3>2 DEF Fine, Distinct
    <3> QED BY <1>1, <3>3
  <2>3. CASE m <= Len(s) /\ n > Len(s)
    BY <1>1, <1>2, <1>9, <2>3 DEF TagsIn
  <2>4. CASE m > Len(s) /\ n <= Len(s)
    BY <1>1, <1>2, <1>9, <2>4 DEF TagsIn
  <2> QED BY <1>1, <2>1, <2>2, <2>3, <2>4
<1> QED BY <1>1, <1>5, <1>6, <1>7, <1>8, <1>9 DEF Fine, Distinct

(* The empty list.                                                         *)
LEMMA NoOutbound ==
  /\ Fine(<<>>) /\ Full(<<>>) /\ TagsIn(<<>>) = {} /\ MembersIn(<<>>) = {}
<1>1. <<>> \in Seq(Outbounds) /\ DOMAIN <<>> = {}
  OBVIOUS
<1> QED BY <1>1 DEF Fine, Full, TagsIn, MembersIn, Distinct

(* A list of one.                                                          *)
LEMMA OneOutbound ==
  ASSUME NEW type \in {"node", "urltest", "selector"}, NEW tag \in Tag,
         NEW members \in Seq(Tag), IsInjective(members)
  PROVE  LET list == <<Outbound(type, tag, members)>>
         IN  /\ Fine(list) /\ TagsIn(list) = {tag} /\ MembersIn(list) = ToSet(members)
             /\ type = "node" \/ members # <<>> => Full(list)
<1> DEFINE o == Outbound(type, tag, members)
<1>1. o \in Outbounds /\ o.tag = tag /\ o.members = members /\ o.type = type
  BY DEF Outbound, Outbounds
<1> HIDE DEF o
<1>2. <<o>> \in Seq(Outbounds) /\ DOMAIN <<o>> = {1} /\ <<o>>[1] = o
  BY <1>1
<1>3. Fine(<<o>>) /\ Full(<<o>>) = (type # "node" => members # <<>>)
  BY <1>1, <1>2 DEF Fine, Full, Distinct
<1>4. TagsIn(<<o>>) = {tag} /\ MembersIn(<<o>>) = ToSet(members)
  BY <1>1, <1>2 DEF TagsIn, MembersIn
<1> QED BY <1>3, <1>4 DEF o

(* The tags of the nodes at some places.                                   *)
LEMMA TagsIs ==
  ASSUME NEW ns \in Seq(Node), Distinct(ns), NEW S \in SUBSET DOMAIN ns
  PROVE  /\ Tags(ns, S) \in Seq(Tag) /\ IsInjective(Tags(ns, S))
         /\ ToSet(Tags(ns, S)) = {ns[n].tag : n \in S}
         /\ ToSet(Tags(ns, S)) \subseteq TagsOf(ns) \cap NodeTag
         /\ S # {} => Tags(ns, S) # <<>>
         /\ S = {} => Tags(ns, S) = <<>>
<1> DEFINE c == Chosen(ns, S)
<1>1. /\ c \in Seq(Node) /\ DOMAIN c = 1 .. Cardinality(S) /\ Cardinality(S) \in Nat
      /\ \A p \in DOMAIN c : Nth(S, p) \in S /\ c[p] = ns[Nth(S, p)]
      /\ \A p, q \in DOMAIN c : Nth(S, p) = Nth(S, q) => p = q
      /\ \A n \in S : \E p \in DOMAIN c : Nth(S, p) = n
      /\ S # {} => DOMAIN c # {}
  BY ChosenIs
<1>2. Tags(ns, S) = [p \in DOMAIN c |-> c[p].tag]
  BY DEF Tags
<1> HIDE DEF c
<1>3. \A n \in S : ns[n].tag \in NodeTag /\ ns[n].tag \in TagsOf(ns)
  <2>1. \A n \in DOMAIN ns : ns[n] \in Node
    OBVIOUS
  <2> QED BY <2>1 DEF Node, TagsOf
<1>4. Tags(ns, S) \in [1 .. Cardinality(S) -> Tag]
  BY <1>1, <1>2, <1>3, TagsAreTags
<1>5. Tags(ns, S) \in Seq(Tag)
  BY <1>1, <1>4
<1>6. IsInjective(Tags(ns, S))
  BY <1>1, <1>2 DEF IsInjective, Distinct
<1>7. ToSet(Tags(ns, S)) = {ns[n].tag : n \in S}
  BY <1>1, <1>2 DEF ToSet
<1>8. S # {} => Tags(ns, S) # <<>>
  BY <1>1, <1>2
<1>9. S = {} => Tags(ns, S) = <<>>
  BY <1>1, <1>2, <1>4
<1> QED BY <1>3, <1>5, <1>6, <1>7, <1>8, <1>9
-----------------------------------------------------------------------------
(* The groups.                                                             *)
LEMMA NodesAre ==
  ASSUME NEW ns \in Seq(Node), Distinct(ns)
  PROVE  /\ Fine(NodeOutbounds(ns)) /\ Full(NodeOutbounds(ns))
         /\ TagsIn(NodeOutbounds(ns)) = TagsOf(ns) /\ MembersIn(NodeOutbounds(ns)) = {}
<1> DEFINE list == NodeOutbounds(ns)
<1>1. /\ DOMAIN list = 1 .. Len(ns) /\ DOMAIN ns = 1 .. Len(ns) /\ Len(ns) \in Nat
      /\ \A n \in DOMAIN ns : list[n] = Outbound("node", ns[n].tag, <<>>)
      /\ list = [n \in 1 .. Len(ns) |-> list[n]]
  BY DEF NodeOutbounds
<1> HIDE DEF list
<1>2. \A n \in DOMAIN ns : ns[n].tag \in NodeTag
  <2>1. \A n \in DOMAIN ns : ns[n] \in Node
    OBVIOUS
  <2> QED BY <2>1 DEF Node
<1>3. \A n \in DOMAIN list : /\ list[n].tag = ns[n].tag /\ list[n].type = "node"
                             /\ list[n].members = <<>>
  BY <1>1 DEF Outbound
<1>4. <<>> \in Seq(Tag) /\ IsInjective(<<>>) /\ ToSet(<<>>) = {}
  BY DEF IsInjective, ToSet
<1>5. \A n \in DOMAIN list : list[n] \in Outbounds
  <2>1. \A t \in Tag : Outbound("node", t, <<>>) \in Outbounds
    BY <1>4 DEF Outbound, Outbounds
  <2> QED BY <1>1, <1>2, <2>1, TagsAreTags
<1>6. list \in [1 .. Len(ns) -> Outbounds]
  BY <1>1, <1>5
<1>7. list \in Seq(Outbounds)
  BY <1>1, <1>6
<1>8. Distinct(list) /\ Full(list)
  BY <1>1, <1>3 DEF Distinct, Full
<1>9. TagsIn(list) = TagsOf(ns)
  BY <1>1, <1>3 DEF TagsIn, TagsOf
<1>10. MembersIn(list) = {}
  BY <1>3, <1>4 DEF MembersIn
<1> QED BY <1>3, <1>4, <1>7, <1>8, <1>9, <1>10 DEF Fine, list

(* The names of the subscriptions that nodes at some places are from.      *)
SubsOf(ns, S) == {ns[n].tag[2] : n \in S}

(* BySub lists each of them once.                                          *)
LEMMA BySubIs ==
  ASSUME NEW ns \in Seq(Node), NEW S \in SUBSET DOMAIN ns
  PROVE  /\ BySub(ns, S) \in Seq(STRING) /\ IsInjective(BySub(ns, S))
         /\ \A p \in DOMAIN BySub(ns, S) : BySub(ns, S)[p] \in SubsOf(ns, S)
         /\ DOMAIN BySub(ns, S) = 1 .. Len(BySub(ns, S))
<1>1. SubsOf(ns, S) \subseteq STRING
  <2>1. \A n \in DOMAIN ns : ns[n] \in Node
    OBVIOUS
  <2>2. \A n \in DOMAIN ns : ns[n].tag[2] \in STRING
    BY <2>1 DEF Node, NodeTag
  <2> QED BY <2>2 DEF SubsOf
<1>2. IsFiniteSet(SubsOf(ns, S))
  <2> DEFINE f == [n \in S |-> ns[n].tag[2]]
  <2>1. f \in Surjection(S, SubsOf(ns, S))
    BY DEF Surjection, SubsOf
  <2>2. IsFiniteSet(S)
    <3>1. IsFiniteSet(1 .. Len(ns)) /\ DOMAIN ns = 1 .. Len(ns)
      BY FS_Interval
    <3> QED BY <3>1, FS_Subset
  <2> HIDE DEF f
  <2> QED BY <2>1, <2>2, FS_Surjection
<1>3. BySub(ns, S) = SetToSeq(SubsOf(ns, S))
  BY DEF BySub, SubsOf
<1>4. /\ BySub(ns, S) \in Seq(SubsOf(ns, S)) /\ IsInjective(BySub(ns, S))
  BY <1>2, <1>3, SetToSeqIs
<1> QED BY <1>1, <1>4

(* The groups of the nodes of normal rate in a region.                     *)
LEMMA NormalIs ==
  ASSUME NEW ns \in Seq(Node), Distinct(ns), NEW g \in STRING,
         NEW S \in SUBSET DOMAIN ns, S # {}
  PROVE  /\ Fine(NormalOutbounds(ns, g, S)) /\ Full(NormalOutbounds(ns, g, S))
         /\ MembersIn(NormalOutbounds(ns, g, S)) \subseteq TagsOf(ns)
         /\ TagsIn(NormalOutbounds(ns, g, S)) =
              {<<"URLTest", g>>}
              \cup {<<"sub", g, BySub(ns, S)[p]>> : p \in DOMAIN BySub(ns, S)}
<1> DEFINE by == BySub(ns, S)
           OfSub(p) == {n \in S : ns[n].tag[2] = by[p]}
           all == <<Outbound("urltest", <<"URLTest", g>>, Tags(ns, S))>>
           each == [p \in DOMAIN by |->
                      Outbound("urltest", <<"sub", g, by[p]>>, Tags(ns, OfSub(p)))]
<1>1. /\ by \in Seq(STRING) /\ IsInjective(by) /\ DOMAIN by = 1 .. Len(by) /\ Len(by) \in Nat
      /\ \A p \in DOMAIN by : by[p] \in SubsOf(ns, S)
  BY BySubIs
<1>2. NormalOutbounds(ns, g, S) = all \o each
  BY DEF NormalOutbounds
<1>3. <<"URLTest", g>> \in Tag /\ \A p \in DOMAIN by : <<"sub", g, by[p]>> \in Tag
  <2>1. \A p \in DOMAIN by : by[p] \in STRING
    BY <1>1
  <2> QED BY <2>1 DEF Tag, RegionTag
<1>4. /\ Fine(all) /\ Full(all) /\ TagsIn(all) = {<<"URLTest", g>>}
      /\ MembersIn(all) \subseteq TagsOf(ns)
  <2>1. /\ Tags(ns, S) \in Seq(Tag) /\ IsInjective(Tags(ns, S)) /\ Tags(ns, S) # <<>>
        /\ ToSet(Tags(ns, S)) \subseteq TagsOf(ns)
    BY TagsIs
  <2> QED BY <1>3, <2>1, OneOutbound
<1>5. ASSUME NEW p \in DOMAIN by
      PROVE  /\ each[p] \in Outbounds /\ each[p].tag = <<"sub", g, by[p]>>
             /\ IsInjective(each[p].members) /\ each[p].members # <<>>
             /\ ToSet(each[p].members) \subseteq TagsOf(ns)
  <2>1. OfSub(p) \in SUBSET DOMAIN ns /\ OfSub(p) # {}
    BY <1>1 DEF SubsOf
  <2>2. each[p] = Outbound("urltest", <<"sub", g, by[p]>>, Tags(ns, OfSub(p)))
    OBVIOUS
  <2> HIDE DEF OfSub, each
  <2>3. /\ Tags(ns, OfSub(p)) \in Seq(Tag) /\ IsInjective(Tags(ns, OfSub(p)))
        /\ ToSet(Tags(ns, OfSub(p))) \subseteq TagsOf(ns) /\ Tags(ns, OfSub(p)) # <<>>
    BY <2>1, TagsIs
  <2> QED BY <1>3, <2>2, <2>3 DEF Outbound, Outbounds
<1>6. DOMAIN each = DOMAIN by /\ each = [p \in DOMAIN by |-> each[p]]
  OBVIOUS
<1> HIDE DEF each, by
<1>7. each \in [1 .. Len(by) -> Outbounds]
  BY <1>1, <1>5, <1>6
<1>8. each \in Seq(Outbounds)
  BY <1>1, <1>7
<1>9. Distinct(each)
  <2>1. \A x, y : <<"sub", g, x>> = <<"sub", g, y>> => x = y
    OBVIOUS
  <2> QED BY <1>1, <1>5, <1>6, <2>1 DEF Distinct, IsInjective
<1>10. Fine(each) /\ Full(each)
  BY <1>5, <1>6, <1>8, <1>9 DEF Fine, Full
<1>11. TagsIn(each) = {<<"sub", g, by[p]>> : p \in DOMAIN by}
  BY <1>5, <1>6 DEF TagsIn
<1>12. MembersIn(each) \subseteq TagsOf(ns)
  BY <1>5, <1>6 DEF MembersIn
<1>13. TagsIn(all) \cap TagsIn(each) = {}
  BY <1>4, <1>11
<1> HIDE DEF all
<1> QED BY <1>2, <1>4, <1>10, <1>11, <1>12, <1>13, Join DEF by

(* Two lists of one are a list of two.                                     *)
LEMMA TwoOfOne ==
  ASSUME NEW X, NEW x \in X, NEW y \in X
  PROVE  <<x>> \o <<y>> = <<x, y>>
<1> DEFINE s == <<x>> \o <<y>>
           t == <<x, y>>
<1>1. <<x>> \in Seq(X) /\ <<y>> \in Seq(X) /\ Len(<<x>>) = 1 /\ Len(<<y>>) = 1
  OBVIOUS
<1>2. s \in Seq(X) /\ Len(s) = 2 /\ s[1] = x /\ s[2] = y
  BY <1>1
<1>3. t \in Seq(X) /\ Len(t) = 2 /\ t[1] = x /\ t[2] = y
  OBVIOUS
<1> HIDE DEF s, t
<1>4. s \in [1 .. 2 -> X] /\ t \in [1 .. 2 -> X] /\ \A n \in 1 .. 2 : s[n] = t[n]
  BY <1>2, <1>3
<1>5. s = t
  BY <1>4
<1> QED BY <1>5 DEF s, t

(* The groups of the nodes of high rate in a region.                       *)
LEMMA HighIs ==
  ASSUME NEW ns \in Seq(Node), Distinct(ns), NEW S \in SUBSET DOMAIN ns, S # {},
         NEW t1 \in Tag \ NodeTag, NEW t2 \in Tag \ NodeTag, t1 # t2
  PROVE  LET list == <<Outbound("urltest", t1, Tags(ns, S)),
                       Outbound("selector", t2, <<t1>> \o Tags(ns, S))>>
         IN  /\ Fine(list) /\ Full(list) /\ TagsIn(list) = {t1, t2}
             /\ MembersIn(list) \subseteq TagsOf(ns) \cup {t1}
<1> DEFINE a == <<Outbound("urltest", t1, Tags(ns, S))>>
           b == <<Outbound("selector", t2, <<t1>> \o Tags(ns, S))>>
<1>1. /\ Tags(ns, S) \in Seq(Tag) /\ IsInjective(Tags(ns, S)) /\ Tags(ns, S) # <<>>
      /\ ToSet(Tags(ns, S)) \subseteq TagsOf(ns) \cap NodeTag
  BY TagsIs
<1>2. <<t1>> \in Seq(Tag) /\ IsInjective(<<t1>>) /\ ToSet(<<t1>>) = {t1} /\ <<t1>> # <<>>
  BY DEF IsInjective, ToSet
<1>3. /\ <<t1>> \o Tags(ns, S) \in Seq(Tag) /\ IsInjective(<<t1>> \o Tags(ns, S))
      /\ ToSet(<<t1>> \o Tags(ns, S)) \subseteq {t1} \cup TagsOf(ns)
      /\ <<t1>> \o Tags(ns, S) # <<>>
  <2> DEFINE s == <<t1>>
             t == Tags(ns, S)
  <2>1. ToSet(s) \cap ToSet(t) = {}
    BY <1>1, <1>2
  <2>2. /\ s \in Seq(Tag) /\ IsInjective(s) /\ ToSet(s) = {t1} /\ s # <<>>
        /\ t \in Seq(Tag) /\ IsInjective(t) /\ ToSet(t) \subseteq TagsOf(ns)
    BY <1>1, <1>2
  <2> HIDE DEF s, t
  <2>3. /\ s \o t \in Seq(Tag) /\ IsInjective(s \o t) /\ s \o t # <<>>
        /\ ToSet(s \o t) \subseteq {t1} \cup TagsOf(ns)
    BY <2>1, <2>2, JoinTags
  <2> QED BY <2>3 DEF s, t
<1>4. /\ Fine(a) /\ Full(a) /\ TagsIn(a) = {t1}
      /\ MembersIn(a) \subseteq TagsOf(ns)
  BY <1>1, OneOutbound
<1>5. /\ Fine(b) /\ Full(b) /\ TagsIn(b) = {t2}
      /\ MembersIn(b) \subseteq {t1} \cup TagsOf(ns)
  BY <1>3, OneOutbound
<1>6. TagsIn(a) \cap TagsIn(b) = {}
  BY <1>4, <1>5
<1>7. a \o b = <<Outbound("urltest", t1, Tags(ns, S)),
                 Outbound("selector", t2, <<t1>> \o Tags(ns, S))>>
  <2> DEFINE x == Outbound("urltest", t1, Tags(ns, S))
             y == Outbound("selector", t2, <<t1>> \o Tags(ns, S))
  <2>1. x \in Outbounds /\ y \in Outbounds
    BY <1>1, <1>3 DEF Outbound, Outbounds
  <2> HIDE DEF x, y
  <2>2. <<x>> \o <<y>> = <<x, y>>
    BY <2>1, TwoOfOne
  <2> QED BY <2>2 DEF x, y
<1> HIDE DEF a, b
<1>8. /\ Fine(a \o b) /\ Full(a \o b) /\ TagsIn(a \o b) = {t1, t2}
      /\ MembersIn(a \o b) \subseteq TagsOf(ns) \cup {t1}
  BY <1>4, <1>5, <1>6, Join
<1> QED BY <1>7, <1>8

(* The members of a region's selector before the selections.               *)
UrlTag(g) == <<"URLTest", g>>
SubTags(ns, g, S) == {<<"sub", g, BySub(ns, S)[p]>> : p \in DOMAIN BySub(ns, S)}
RateTag(g) == <<"HighRate", g>>

(* The tags of the groups of a region are no tags of nodes and differ.     *)
LEMMA GroupTags ==
  ASSUME NEW ns \in Seq(Node), NEW g \in STRING, NEW S \in SUBSET DOMAIN ns
  PROVE  /\ UrlTag(g) \in Tag \ NodeTag /\ RateTag(g) \in Tag \ NodeTag
         /\ SubTags(ns, g, S) \subseteq Tag \ NodeTag
         /\ UrlTag(g) \notin SubTags(ns, g, S) /\ RateTag(g) \notin SubTags(ns, g, S)
         /\ UrlTag(g) # RateTag(g)
<1>1. \A p \in DOMAIN BySub(ns, S) : <<"sub", g, BySub(ns, S)[p]>> \in RegionTag
  <2>1. \A p \in DOMAIN BySub(ns, S) : BySub(ns, S)[p] \in STRING
    BY BySubIs
  <2> QED BY <2>1 DEF RegionTag
<1>2. UrlTag(g) \in RegionTag /\ RateTag(g) \in RegionTag
  BY DEF UrlTag, RateTag, RegionTag
<1>3. \A t \in RegionTag : t \in Tag \ NodeTag
  BY KindsDiffer, TagsAreTags
<1>4. UrlTag(g)[1] = "URLTest" /\ RateTag(g)[1] = "HighRate"
  BY DEF UrlTag, RateTag
<1>5. \A t \in SubTags(ns, g, S) : t[1] = "sub"
  BY DEF SubTags
<1> QED BY <1>1, <1>2, <1>3, <1>4, <1>5 DEF SubTags

(* What the selector of a region lists: each of its members once, and each *)
(* a node or another group of the region.                                  *)
LEMMA RegionMembersAre ==
  ASSUME NEW ns \in Seq(Node), Distinct(ns), NEW g \in STRING,
         NEW normal \in SUBSET DOMAIN ns, NEW high \in SUBSET DOMAIN ns,
         normal \cap high = {}, normal \cup high # {}
  PROVE  /\ RegionMembers(ns, g, normal, high) \in Seq(Tag)
         /\ IsInjective(RegionMembers(ns, g, normal, high))
         /\ RegionMembers(ns, g, normal, high) # <<>>
         /\ ToSet(RegionMembers(ns, g, normal, high)) \subseteq
              TagsOf(ns)
              \cup (IF normal # {} THEN {UrlTag(g)} \cup SubTags(ns, g, normal) ELSE {})
              \cup (IF high # {} THEN {RateTag(g)} ELSE {})
<1> DEFINE by == BySub(ns, normal)
           u == <<UrlTag(g)>>
           v == [p \in DOMAIN by |-> <<"sub", g, by[p]>>]
           w == Tags(ns, normal)
           x == <<RateTag(g)>>
           y == Tags(ns, high)
           a == OrNone(normal # {}, u \o v \o w)
           b == OrNone(high # {}, x \o y)
<1>1. RegionMembers(ns, g, normal, high) = a \o b
  BY DEF RegionMembers, UrlTag, RateTag
<1>2. /\ UrlTag(g) \in Tag \ NodeTag /\ RateTag(g) \in Tag \ NodeTag
      /\ SubTags(ns, g, normal) \subseteq Tag \ NodeTag
      /\ UrlTag(g) \notin SubTags(ns, g, normal) /\ RateTag(g) \notin SubTags(ns, g, normal)
      /\ UrlTag(g) # RateTag(g)
  BY GroupTags
<1>3. /\ u \in Seq(Tag) /\ IsInjective(u) /\ ToSet(u) = {UrlTag(g)} /\ u # <<>>
      /\ x \in Seq(Tag) /\ IsInjective(x) /\ ToSet(x) = {RateTag(g)} /\ x # <<>>
  <2>1. \A t \in Tag : <<t>> \in Seq(Tag) /\ IsInjective(<<t>>) /\ ToSet(<<t>>) = {t}
    BY DEF IsInjective, ToSet
  <2> QED BY <1>2, <2>1
<1>4. v \in Seq(Tag) /\ IsInjective(v) /\ ToSet(v) = SubTags(ns, g, normal)
  <2>1. /\ by \in Seq(STRING) /\ IsInjective(by) /\ DOMAIN by = 1 .. Len(by) /\ Len(by) \in Nat
    BY BySubIs
  <2>2. \A p \in DOMAIN by : <<"sub", g, by[p]>> \in Tag
    BY <1>2 DEF SubTags
  <2>3. ToSet(v) = SubTags(ns, g, normal)
    BY DEF ToSet, SubTags
  <2> HIDE DEF by
  <2>4. v \in [1 .. Len(by) -> Tag]
    BY <2>1, <2>2
  <2>5. \A h, i0 : <<"sub", g, h>> = <<"sub", g, i0>> => h = i0
    OBVIOUS
  <2>6. IsInjective(v)
    BY <2>1, <2>5 DEF IsInjective
  <2>7. v \in Seq(Tag)
    BY <2>1, <2>4
  <2> QED BY <2>3, <2>6, <2>7
<1>5. /\ w \in Seq(Tag) /\ IsInjective(w) /\ ToSet(w) = {ns[n].tag : n \in normal}
      /\ y \in Seq(Tag) /\ IsInjective(y) /\ ToSet(y) = {ns[n].tag : n \in high}
      /\ ToSet(w) \subseteq TagsOf(ns) \cap NodeTag
      /\ ToSet(y) \subseteq TagsOf(ns) \cap NodeTag
  BY TagsIs
<1>6. ToSet(w) \cap ToSet(y) = {}
  BY <1>5 DEF Distinct
<1> HIDE DEF by, u, v, w, x, y
<1>7. /\ u \o v \in Seq(Tag) /\ IsInjective(u \o v) /\ u \o v # <<>>
      /\ ToSet(u \o v) = {UrlTag(g)} \cup SubTags(ns, g, normal)
  <2>1. ToSet(u) \cap ToSet(v) = {}
    BY <1>2, <1>3, <1>4
  <2>2. /\ u \o v \in Seq(Tag) /\ IsInjective(u \o v) /\ u \o v # <<>>
        /\ ToSet(u \o v) = ToSet(u) \cup ToSet(v)
    <3>1. /\ u \in Seq(Tag) /\ IsInjective(u) /\ u # <<>>
          /\ v \in Seq(Tag) /\ IsInjective(v)
      BY <1>3, <1>4
    <3> QED BY <2>1, <3>1, JoinTags
  <2> QED BY <1>3, <1>4, <2>2
<1>8. /\ u \o v \o w \in Seq(Tag) /\ IsInjective(u \o v \o w) /\ u \o v \o w # <<>>
      /\ ToSet(u \o v \o w) = {UrlTag(g)} \cup SubTags(ns, g, normal) \cup ToSet(w)
  <2> DEFINE uv == u \o v
  <2>1. ToSet(uv) \cap ToSet(w) = {}
    BY <1>2, <1>5, <1>7
  <2>2. /\ uv \in Seq(Tag) /\ IsInjective(uv) /\ uv # <<>>
        /\ ToSet(uv) = {UrlTag(g)} \cup SubTags(ns, g, normal)
    BY <1>7
  <2> HIDE DEF uv
  <2>3. /\ uv \o w \in Seq(Tag) /\ IsInjective(uv \o w) /\ uv \o w # <<>>
        /\ ToSet(uv \o w) = ToSet(uv) \cup ToSet(w)
    <3>1. w \in Seq(Tag) /\ IsInjective(w)
      BY <1>5
    <3>2. uv \in Seq(Tag) /\ IsInjective(uv) /\ uv # <<>>
      BY <2>2
    <3> QED BY <2>1, <3>1, <3>2, JoinTags
  <2> QED BY <2>2, <2>3 DEF uv
<1>9. /\ x \o y \in Seq(Tag) /\ IsInjective(x \o y) /\ x \o y # <<>>
      /\ ToSet(x \o y) = {RateTag(g)} \cup ToSet(y)
  <2>1. ToSet(x) \cap ToSet(y) = {}
    BY <1>2, <1>3, <1>5
  <2>2. /\ x \o y \in Seq(Tag) /\ IsInjective(x \o y) /\ x \o y # <<>>
        /\ ToSet(x \o y) = ToSet(x) \cup ToSet(y)
    BY <1>3, <1>5, <2>1, JoinTags
  <2> QED BY <1>3, <2>2
<1>10. <<>> \in Seq(Tag) /\ IsInjective(<<>>) /\ ToSet(<<>>) = {}
  BY DEF IsInjective, ToSet
<1>11. /\ a \in Seq(Tag) /\ IsInjective(a) /\ (normal # {} => a # <<>>)
       /\ ToSet(a) = IF normal # {} THEN {UrlTag(g)} \cup SubTags(ns, g, normal) \cup ToSet(w)
                     ELSE {}
  BY <1>8, <1>10 DEF OrNone
<1>12. /\ b \in Seq(Tag) /\ IsInjective(b) /\ (high # {} => b # <<>>)
       /\ ToSet(b) = IF high # {} THEN {RateTag(g)} \cup ToSet(y) ELSE {}
  BY <1>9, <1>10 DEF OrNone
<1> HIDE DEF a, b
<1>13. ToSet(a) \cap ToSet(b) = {}
  BY <1>2, <1>5, <1>6, <1>11, <1>12
<1>14. /\ a \o b \in Seq(Tag) /\ IsInjective(a \o b) /\ a \o b # <<>>
       /\ ToSet(a \o b) = ToSet(a) \cup ToSet(b)
  <2>1. /\ a \in Seq(Tag) /\ IsInjective(a) /\ b \in Seq(Tag) /\ IsInjective(b)
        /\ ~(a = <<>> /\ b = <<>>)
    BY <1>11, <1>12
  <2> QED BY <1>13, <2>1, JoinTags
<1> QED BY <1>1, <1>5, <1>11, <1>12, <1>14

(* The selections add tags of nodes, none twice.                           *)
LEMMA SelectionsAre ==
  ASSUME NEW ns \in Seq(Node), NEW g \in ToSet(Groups),
         NEW members \in Seq(Tag), IsInjective(members), members # <<>>
  PROVE  /\ WithSelections(ns, g, members) \in Seq(Tag)
         /\ IsInjective(WithSelections(ns, g, members))
         /\ WithSelections(ns, g, members) # <<>>
         /\ ToSet(WithSelections(ns, g, members)) \subseteq ToSet(members) \cup TagsOf(ns)
<1> DEFINE names == Selected[g]
           resolve == {n \in DOMAIN names : Matches(ns, names[n]) # {}}
           new == {n \in resolve :
                     /\ Resolved(ns, names[n]) \notin ToSet(members)
                     /\ \A m \in resolve :
                          m < n => Resolved(ns, names[m]) # Resolved(ns, names[n])}
           c == Chosen(names, new)
           more == [p \in DOMAIN c |-> Resolved(ns, c[p])]
<1>1. names \in Seq(Name \cup NodeTag)
  BY InputsAssumption
<1>2. \A name : Matches(ns, name) # {} => Resolved(ns, name) \in TagsOf(ns) \cap NodeTag
  <2> SUFFICES ASSUME NEW name, Matches(ns, name) # {}
               PROVE  Resolved(ns, name) \in TagsOf(ns) \cap NodeTag
    OBVIOUS
  <2> DEFINE M == Matches(ns, name)
             h == CHOOSE n \in M : \A m \in M : n <= m
  <2>1. M \in SUBSET DOMAIN ns /\ DOMAIN ns \in SUBSET Nat /\ M # {}
    BY DEF Matches
  <2>2. h \in DOMAIN ns
    <3> HIDE DEF M
    <3>1. PICK n \in M : \A m \in M : n <= m
      BY <2>1, Least
    <3> QED BY <2>1, <3>1
  <2>3. Resolved(ns, name) = ns[h].tag
    BY DEF Resolved
  <2> HIDE DEF h
  <2>4. ns[h] \in Node
    BY <2>2
  <2> QED BY <2>2, <2>3, <2>4 DEF Node, TagsOf
<1>3. WithSelections(ns, g, members) = members \o more
  BY DEF WithSelections
<1>4. new \in SUBSET DOMAIN names /\ DOMAIN names \subseteq Nat
  BY <1>1
<1>5. \A n \in new : /\ Resolved(ns, names[n]) \in TagsOf(ns) \cap NodeTag
                     /\ Resolved(ns, names[n]) \notin ToSet(members)
  BY <1>2
<1>6. \A m, n \in new : Resolved(ns, names[m]) = Resolved(ns, names[n]) => m = n
  <2> SUFFICES ASSUME NEW m \in new, NEW n \in new, m # n
               PROVE  Resolved(ns, names[m]) # Resolved(ns, names[n])
    OBVIOUS
  <2>1. m < n \/ n < m
    BY <1>4
  <2> QED BY <2>1
<1> HIDE DEF new, names
<1>7. /\ DOMAIN c = 1 .. Cardinality(new) /\ Cardinality(new) \in Nat
      /\ \A p \in DOMAIN c : Nth(new, p) \in new /\ c[p] = names[Nth(new, p)]
      /\ \A p, q \in DOMAIN c : Nth(new, p) = Nth(new, q) => p = q
  BY <1>1, <1>4, ChosenIs
<1> HIDE DEF c
<1>8. \A p \in DOMAIN c : Resolved(ns, c[p]) \in TagsOf(ns) \cap NodeTag
  BY <1>5, <1>7
<1>9. more \in [1 .. Cardinality(new) -> Tag]
  BY <1>7, <1>8, TagsAreTags
<1>10. more \in Seq(Tag)
  BY <1>7, <1>9
<1>11. IsInjective(more)
  BY <1>6, <1>7 DEF IsInjective
<1>12. ToSet(more) \subseteq TagsOf(ns)
  BY <1>8 DEF ToSet
<1>13. ToSet(members) \cap ToSet(more) = {}
  BY <1>5, <1>7 DEF ToSet
<1> HIDE DEF more
<1> QED BY <1>3, <1>10, <1>11, <1>12, <1>13, JoinTags

(* The tags that name a region.                                            *)
TagsOfRegion(g) == {t \in RegionTag : t[2] = g}
TestTag(g) == <<"HighRate URLTest", g>>
GroupTag(g) == <<"group", g>>

(* The groups of a region: they bear its name, the selector is there, and  *)
(* what they list is a node or another of them.                            *)
LEMMA RegionIs ==
  ASSUME NEW ns \in Seq(Node), Distinct(ns), NEW g \in ToSet(Groups), Region(ns, g) # {}
  PROVE  LET list == RegionOutbounds(ns, g)
         IN  /\ Fine(list) /\ Full(list)
             /\ TagsIn(list) \subseteq TagsOfRegion(g) /\ GroupTag(g) \in TagsIn(list)
             /\ MembersIn(list) \subseteq TagsOf(ns) \cup TagsIn(list)
<1> DEFINE normal == Region(ns, g) \ HighRate(ns)
           high == Region(ns, g) \cap HighRate(ns)
           a == OrNone(normal # {}, NormalOutbounds(ns, g, normal))
           b == OrNone(high # {}, HighOutbounds(ns, g, high))
           members == RegionMembers(ns, g, normal, high)
           c == <<Outbound("selector", GroupTag(g), WithSelections(ns, g, members))>>
<1>1. /\ normal \in SUBSET DOMAIN ns /\ high \in SUBSET DOMAIN ns
      /\ normal \cap high = {} /\ normal \cup high # {}
  BY DEF Region
<1>2. RegionOutbounds(ns, g) = a \o b \o c
  BY DEF RegionOutbounds, GroupTag
<1>3. g \in STRING
  BY GroupsAssumption DEF ToSet
<1> HIDE DEF normal, high
<1>4. /\ TestTag(g) \in TagsOfRegion(g) /\ RateTag(g) \in TagsOfRegion(g)
      /\ UrlTag(g) \in TagsOfRegion(g) /\ GroupTag(g) \in TagsOfRegion(g)
      /\ SubTags(ns, g, normal) \subseteq TagsOfRegion(g)
  <2>1. \A p \in DOMAIN BySub(ns, normal) : BySub(ns, normal)[p] \in STRING
    BY <1>1, BySubIs
  <2>2. \A x \in STRING : <<"sub", g, x>> \in RegionTag /\ <<"sub", g, x>>[2] = g
    BY <1>3 DEF RegionTag
  <2>3. SubTags(ns, g, normal) \subseteq TagsOfRegion(g)
    BY <2>1, <2>2 DEF SubTags, TagsOfRegion
  <2> QED BY <1>3, <2>3 DEF TagsOfRegion, RegionTag, UrlTag, RateTag, TestTag, GroupTag
<1>5. \A t \in TagsOfRegion(g) : t \in Tag \ NodeTag /\ t \in RegionTag
  BY KindsDiffer, TagsAreTags DEF TagsOfRegion
<1>6. /\ TestTag(g)[1] = "HighRate URLTest" /\ RateTag(g)[1] = "HighRate"
      /\ UrlTag(g)[1] = "URLTest" /\ GroupTag(g)[1] = "group"
      /\ \A t \in SubTags(ns, g, normal) : t[1] = "sub"
  BY DEF UrlTag, RateTag, TestTag, GroupTag, SubTags
<1>7. /\ Fine(a) /\ Full(a) /\ MembersIn(a) \subseteq TagsOf(ns)
      /\ TagsIn(a) = IF normal # {} THEN {UrlTag(g)} \cup SubTags(ns, g, normal) ELSE {}
  <2>1. CASE normal # {}
    <3>1. a = NormalOutbounds(ns, g, normal)
      BY <2>1 DEF OrNone
    <3> QED BY <1>1, <1>3, <2>1, <3>1, NormalIs DEF UrlTag, SubTags
  <2>2. CASE normal = {}
    <3>1. a = <<>>
      BY <2>2 DEF OrNone
    <3> HIDE DEF a
    <3> QED BY <2>2, <3>1, NoOutbound
  <2> QED BY <2>1, <2>2
<1>8. /\ Fine(b) /\ Full(b) /\ MembersIn(b) \subseteq TagsOf(ns) \cup TagsIn(b)
      /\ TagsIn(b) = IF high # {} THEN {TestTag(g), RateTag(g)} ELSE {}
  <2>1. CASE high # {}
    <3>1. b = <<Outbound("urltest", TestTag(g), Tags(ns, high)),
                Outbound("selector", RateTag(g), <<TestTag(g)>> \o Tags(ns, high))>>
      BY <2>1 DEF OrNone, HighOutbounds, TestTag, RateTag
    <3>2. /\ TestTag(g) \in Tag \ NodeTag /\ RateTag(g) \in Tag \ NodeTag
          /\ TestTag(g) # RateTag(g)
      BY <1>4, <1>5, <1>6
    <3> HIDE DEF b
    <3> QED BY <1>1, <2>1, <3>1, <3>2, HighIs
  <2>2. CASE high = {}
    <3>1. b = <<>>
      BY <2>2 DEF OrNone
    <3> HIDE DEF b
    <3> QED BY <2>2, <3>1, NoOutbound
  <2> QED BY <2>1, <2>2
<1>9. /\ members \in Seq(Tag) /\ IsInjective(members) /\ members # <<>>
      /\ ToSet(members) \subseteq TagsOf(ns) \cup TagsIn(a) \cup TagsIn(b)
  <2>1. /\ members \in Seq(Tag) /\ IsInjective(members) /\ members # <<>>
        /\ ToSet(members) \subseteq
             TagsOf(ns)
             \cup (IF normal # {} THEN {UrlTag(g)} \cup SubTags(ns, g, normal) ELSE {})
                        \cup (IF high # {} THEN {RateTag(g)} ELSE {})
    BY <1>1, <1>3, RegionMembersAre
  <2> HIDE DEF members, a, b
  <2> QED BY <1>7, <1>8, <2>1
<1> HIDE DEF members, a, b
<1>10. /\ WithSelections(ns, g, members) \in Seq(Tag)
       /\ IsInjective(WithSelections(ns, g, members))
       /\ WithSelections(ns, g, members) # <<>>
       /\ ToSet(WithSelections(ns, g, members)) \subseteq ToSet(members) \cup TagsOf(ns)
  BY <1>9, SelectionsAre
<1>11. /\ Fine(c) /\ Full(c) /\ TagsIn(c) = {GroupTag(g)}
       /\ MembersIn(c) \subseteq TagsOf(ns) \cup TagsIn(a) \cup TagsIn(b)
  <2>1. GroupTag(g) \in Tag
    BY <1>4, <1>5
  <2>2. /\ Fine(c) /\ Full(c) /\ TagsIn(c) = {GroupTag(g)}
        /\ MembersIn(c) = ToSet(WithSelections(ns, g, members))
    BY <1>10, <2>1, OneOutbound
  <2> QED BY <1>9, <1>10, <2>2
<1> HIDE DEF c
<1>12. TagsIn(a) \cap TagsIn(b) = {}
  BY <1>6, <1>7, <1>8
<1>13. /\ Fine(a \o b) /\ Full(a \o b) /\ TagsIn(a \o b) = TagsIn(a) \cup TagsIn(b)
       /\ MembersIn(a \o b) = MembersIn(a) \cup MembersIn(b)
  BY <1>7, <1>8, <1>12, Join
<1>14. TagsIn(a \o b) \cap TagsIn(c) = {}
  BY <1>6, <1>7, <1>8, <1>11, <1>13
<1> DEFINE ab == a \o b
<1>15. /\ Fine(ab \o c) /\ Full(ab \o c) /\ TagsIn(ab \o c) = TagsIn(ab) \cup TagsIn(c)
       /\ MembersIn(ab \o c) = MembersIn(ab) \cup MembersIn(c)
  <2>1. Fine(ab) /\ Full(ab) /\ TagsIn(ab) \cap TagsIn(c) = {}
    BY <1>13, <1>14
  <2> HIDE DEF ab
  <2> QED BY <1>11, <2>1, Join
<1>16. TagsIn(a) \cup TagsIn(b) \cup TagsIn(c) \subseteq TagsOfRegion(g)
  BY <1>4, <1>7, <1>8, <1>11
<1> QED BY <1>2, <1>7, <1>8, <1>11, <1>13, <1>15, <1>16

(* The elements of a sequence with one more at its end.                    *)
LEMMA OneMore ==
  ASSUME NEW X, NEW s \in Seq(X), NEW t \in Seq(X), DOMAIN t = {1}
  PROVE  \A n \in DOMAIN (s \o t) : \/ n \in DOMAIN s /\ (s \o t)[n] = s[n]
                                    \/ (s \o t)[n] = t[1]
<1>1. Len(s) \in Nat /\ Len(t) \in Nat /\ DOMAIN t = 1 .. Len(t) /\ DOMAIN s = 1 .. Len(s)
  <2>1. \A u \in Seq(X) : Len(u) \in Nat /\ DOMAIN u = 1 .. Len(u)
    OBVIOUS
  <2> QED BY <2>1
<1>2. Len(t) = 1
  <2>1. 1 \in 1 .. Len(t)
    BY <1>1
  <2>2. Len(t) \in 1 .. Len(t)
    BY <1>1, <2>1
  <2> QED BY <1>1, <2>2
<1>3. /\ DOMAIN (s \o t) = 1 .. Len(s) + Len(t)
      /\ \A n \in 1 .. Len(s) + Len(t) :
           (s \o t)[n] = IF n <= Len(s) THEN s[n] ELSE t[n - Len(s)]
  OBVIOUS
<1>4. \A n \in 1 .. Len(s) + 1 : n <= Len(s) \/ n - Len(s) = 1
  BY <1>1
<1> QED BY <1>1, <1>2, <1>3, <1>4

(* The elements of two sequences, one after the other.                     *)
LEMMA OneOfTwo ==
  ASSUME NEW X, NEW s \in Seq(X), NEW t \in Seq(X)
  PROVE  \A n \in DOMAIN (s \o t) : \/ n \in DOMAIN s /\ (s \o t)[n] = s[n]
                                    \/ \E m \in DOMAIN t : (s \o t)[n] = t[m]
<1>1. \A u \in Seq(X) : Len(u) \in Nat /\ DOMAIN u = 1 .. Len(u)
  OBVIOUS
<1>2. /\ DOMAIN (s \o t) = 1 .. Len(s) + Len(t)
      /\ \A n \in 1 .. Len(s) + Len(t) :
           (s \o t)[n] = IF n <= Len(s) THEN s[n] ELSE t[n - Len(s)]
  OBVIOUS
<1>3. \A n \in 1 .. Len(s) + Len(t) : n \in 1 .. Len(s) \/ n - Len(s) \in 1 .. Len(t)
  BY <1>1
<1>4. \A n \in 1 .. Len(s) : n <= Len(s)
  BY <1>1
<1> QED BY <1>1, <1>2, <1>3, <1>4

(* What the groups across regions add.                                     *)
LEMMA GlobalIs ==
  ASSUME NEW ns \in Seq(Node), Distinct(ns)
  PROVE  LET list == GlobalOutbounds(ns)
         IN  /\ Fine(list)
             /\ TagsIn(list) \subseteq GlobalTag /\ <<"AllNodes">> \in TagsIn(list)
             /\ MembersIn(list) \subseteq TagsOf(ns) \cup TagsIn(list)
             /\ \A n \in DOMAIN list :
                  list[n].type # "node" /\ list[n].members = <<>> =>
                    list[n].tag = <<"AllNodes">> /\ \A m \in DOMAIN ns : ns[m].rate = "high"
<1> DEFINE low == LowRate(ns)
           high == HighRate(ns)
           rest == DOMAIN ns \ high
           a == OrNone(low # {}, <<Outbound("urltest", <<"LowRateNodes">>, Tags(ns, low))>>)
           b == OrNone(high # {},
                  <<Outbound("urltest", <<"HighRateNodes URLTest">>, Tags(ns, high)),
                    Outbound("selector", <<"HighRateNodes">>,
                             <<<<"HighRateNodes URLTest">>>> \o Tags(ns, high))>>)
           c == <<Outbound("urltest", <<"AllNodes">>, Tags(ns, rest))>>
           ab == a \o b
<1>1. GlobalOutbounds(ns) = ab \o c
  BY DEF GlobalOutbounds
<1>2. low \in SUBSET DOMAIN ns /\ high \in SUBSET DOMAIN ns /\ rest \in SUBSET DOMAIN ns
  BY DEF LowRate, HighRate
<1>3. rest = {} => \A m \in DOMAIN ns : ns[m].rate = "high"
  BY DEF HighRate
<1>4. \A t \in GlobalTag : t \in Tag \ NodeTag
  BY KindsDiffer, TagsAreTags
<1>5. /\ <<"LowRateNodes">> # <<"HighRateNodes URLTest">>
      /\ <<"LowRateNodes">> # <<"HighRateNodes">> /\ <<"LowRateNodes">> # <<"AllNodes">>
      /\ <<"HighRateNodes URLTest">> # <<"HighRateNodes">>
      /\ <<"HighRateNodes URLTest">> # <<"AllNodes">> /\ <<"HighRateNodes">> # <<"AllNodes">>
  OBVIOUS
<1>6. \A S \in SUBSET DOMAIN ns :
        /\ Tags(ns, S) \in Seq(Tag) /\ IsInjective(Tags(ns, S))
        /\ ToSet(Tags(ns, S)) \subseteq TagsOf(ns)
        /\ S # {} => Tags(ns, S) # <<>>
  BY TagsIs
<1> HIDE DEF low, high, rest
<1>7. /\ Fine(a) /\ Full(a) /\ MembersIn(a) \subseteq TagsOf(ns)
      /\ TagsIn(a) \subseteq {<<"LowRateNodes">>}
  <2>1. CASE low # {}
    <3>1. a = <<Outbound("urltest", <<"LowRateNodes">>, Tags(ns, low))>>
      BY <2>1 DEF OrNone
    <3>2. <<"LowRateNodes">> \in Tag
      BY <1>4 DEF GlobalTag
    <3> HIDE DEF a
    <3>3. /\ Tags(ns, low) \in Seq(Tag) /\ IsInjective(Tags(ns, low)) /\ Tags(ns, low) # <<>>
          /\ ToSet(Tags(ns, low)) \subseteq TagsOf(ns)
      BY <1>2, <1>6, <2>1
    <3> QED BY <3>1, <3>2, <3>3, OneOutbound
  <2>2. CASE low = {}
    <3>1. a = <<>>
      BY <2>2 DEF OrNone
    <3> HIDE DEF a
    <3> QED BY <3>1, NoOutbound
  <2> QED BY <2>1, <2>2
<1>8. /\ Fine(b) /\ Full(b) /\ MembersIn(b) \subseteq TagsOf(ns) \cup TagsIn(b)
      /\ TagsIn(b) \subseteq {<<"HighRateNodes URLTest">>, <<"HighRateNodes">>}
  <2>1. CASE high # {}
    <3> DEFINE t1 == <<"HighRateNodes URLTest">>
               t2 == <<"HighRateNodes">>
    <3>1. b = <<Outbound("urltest", t1, Tags(ns, high)),
                Outbound("selector", t2, <<t1>> \o Tags(ns, high))>>
      BY <2>1 DEF OrNone
    <3>2. t1 \in Tag \ NodeTag /\ t2 \in Tag \ NodeTag /\ t1 # t2
      BY <1>4, <1>5 DEF GlobalTag
    <3> HIDE DEF b, t1, t2
    <3>3. /\ Fine(b) /\ Full(b) /\ TagsIn(b) = {t1, t2}
          /\ MembersIn(b) \subseteq TagsOf(ns) \cup {t1}
      BY <1>2, <2>1, <3>1, <3>2, HighIs
    <3> QED BY <3>3 DEF t1, t2
  <2>2. CASE high = {}
    <3>1. b = <<>>
      BY <2>2 DEF OrNone
    <3> HIDE DEF b
    <3> QED BY <3>1, NoOutbound
  <2> QED BY <2>1, <2>2
<1>9. /\ Fine(c) /\ MembersIn(c) \subseteq TagsOf(ns) /\ TagsIn(c) = {<<"AllNodes">>}
      /\ DOMAIN c = {1} /\ c[1].tag = <<"AllNodes">> /\ c[1].members = Tags(ns, rest)
  <2>1. <<"AllNodes">> \in Tag
    BY <1>4 DEF GlobalTag
  <2>2. /\ Tags(ns, rest) \in Seq(Tag) /\ IsInjective(Tags(ns, rest))
        /\ ToSet(Tags(ns, rest)) \subseteq TagsOf(ns)
    BY <1>2, <1>6
  <2>3. DOMAIN c = {1} /\ c[1].tag = <<"AllNodes">> /\ c[1].members = Tags(ns, rest)
    BY DEF Outbound
  <2> QED BY <2>1, <2>2, <2>3, OneOutbound
<1> HIDE DEF a, b, c
<1>10. TagsIn(a) \cap TagsIn(b) = {}
  BY <1>5, <1>7, <1>8
<1>11. /\ Fine(ab) /\ Full(ab) /\ TagsIn(ab) = TagsIn(a) \cup TagsIn(b)
       /\ MembersIn(ab) = MembersIn(a) \cup MembersIn(b)
  BY <1>7, <1>8, <1>10, Join
<1> HIDE DEF ab
<1>12. TagsIn(ab) \cap TagsIn(c) = {}
  BY <1>5, <1>7, <1>8, <1>9, <1>11
<1>13. /\ Fine(ab \o c) /\ TagsIn(ab \o c) = TagsIn(ab) \cup TagsIn(c)
       /\ MembersIn(ab \o c) = MembersIn(ab) \cup MembersIn(c)
  BY <1>9, <1>11, <1>12, Join
<1>14. \A n \in DOMAIN (ab \o c) : \/ n \in DOMAIN ab /\ (ab \o c)[n] = ab[n]
                                   \/ (ab \o c)[n] = c[1]
  <2>1. ab \in Seq(Outbounds) /\ c \in Seq(Outbounds) /\ DOMAIN c = {1}
    BY <1>9, <1>11 DEF Fine
  <2> QED BY <2>1, OneMore
<1>15. \A n \in DOMAIN (ab \o c) :
         (ab \o c)[n].type # "node" /\ (ab \o c)[n].members = <<>> =>
           (ab \o c)[n].tag = <<"AllNodes">> /\ \A m \in DOMAIN ns : ns[m].rate = "high"
  BY <1>2, <1>3, <1>6, <1>9, <1>11, <1>14 DEF Full
<1>16. TagsIn(ab \o c) \subseteq GlobalTag
  BY <1>7, <1>8, <1>9, <1>11, <1>13 DEF GlobalTag
<1>17. MembersIn(ab \o c) \subseteq TagsOf(ns) \cup TagsIn(ab \o c)
  BY <1>7, <1>8, <1>9, <1>11, <1>13
<1> QED BY <1>1, <1>9, <1>13, <1>15, <1>16, <1>17

-----------------------------------------------------------------------------
(* The inductive invariant.                                                *)

(* The loops are within what they run over.  An entry that raises ends the *)
(* loop over the entries, so none has been passed.                         *)
LoopsOK ==
  /\ status = "fetching" => k = 1
  /\ status = "adding" => /\ i <= Len(subs) /\ k <= Len(answered[i]) + 1
                         /\ \A m \in 1 .. k - 1 : answered[i][m].kind # "broken"
  /\ status = "grouping" => nodes # <<>> /\ k <= Len(Groups) + 1

(* The usable entries that the loop has passed so far, and their nodes.    *)
Pairs(f) == UNION {{<<s, n>> : n \in f[s]} : s \in DOMAIN f}
Reached ==
  [s \in DOMAIN answered |->
     {n \in Usable(answered[s]) : status = "adding" /\ s = i => n < k}]
IsNode(node, sub, entry) ==
  /\ node.sub = sub /\ node.original = entry.name
  /\ node.regions = entry.regions /\ node.rate = entry.rate
NodesOK ==
  /\ Distinct(nodes)
  /\ IsFiniteSet(Pairs(Reached)) /\ Len(nodes) = Cardinality(Pairs(Reached))
  /\ \A e \in Pairs(Reached) :
       \E n \in DOMAIN nodes : IsNode(nodes[n], subs[e[1]], answered[e[1]][e[2]])

(* The configuration is closed at every step; while it grows, its tags are *)
(* those of the nodes and of the regions that were passed.                 *)
ConfigOK ==
  /\ status \in {"fetching", "adding"} => config = <<>>
  /\ Fine(config) /\ MembersIn(config) \subseteq TagsIn(config)
  /\ status # "built" => Full(config)
  /\ status = "grouping" =>
       /\ TagsOf(nodes) \subseteq TagsIn(config)
       /\ \A t \in TagsIn(config) :
            t \in NodeTag \/ (t \in RegionTag /\ \E p \in 1 .. k - 1 : t[2] = Groups[p])
       /\ \A p \in 1 .. k - 1 : Groups[p] \in Strict => GroupTag(Groups[p]) \in TagsIn(config)
  /\ status = "built" =>
       /\ <<"AllNodes">> \in TagsIn(config)
       /\ \A g \in Strict : GroupTag(g) \in TagsIn(config)
       /\ \A n \in DOMAIN config :
            config[n].type # "node" /\ config[n].members = <<>> =>
              config[n].tag = <<"AllNodes">> /\ \A m \in DOMAIN nodes : nodes[m].rate = "high"

Inv == BuildTypeOK /\ LoopsOK /\ NodesOK /\ ConfigOK

(* Types and loops, step by step.                                          *)
LEMMA TypesAreKept ==
  ASSUME BuildTypeOK, LoopsOK, [BuildNext]_buildVars
  PROVE  BuildTypeOK' /\ LoopsOK'
<1>1. /\ subs \in Seq(STRING) /\ Len(subs) \in Nat /\ RetryLimit \in Nat \ {0}
      /\ i \in 1 .. Len(subs) + 1 /\ attempt \in Nat \ {0} /\ k \in Nat \ {0}
      /\ answered \in Seq(Seq(Entry)) /\ Len(answered) \in Nat /\ Len(Groups) \in Nat
  BY InputsAssumption, GroupsAssumption, RetryAssumption DEF BuildTypeOK
<1>2. /\ status = "adding" => Len(answered) = i /\ i \in DOMAIN answered
      /\ status # "adding" => Len(answered) = i - 1
  BY <1>1 DEF BuildTypeOK
<1>3. status = "adding" => /\ answered[i] \in Seq(Entry) /\ Len(answered[i]) \in Nat
                           /\ subs[i] \in STRING /\ i <= Len(subs)
  <2>1. status = "adding" => answered[i] \in Seq(Entry)
    BY <1>1, <1>2
  <2>2. status = "adding" => i \in 1 .. Len(subs)
    BY <1>1 DEF LoopsOK
  <2> QED BY <1>1, <2>1, <2>2
<1>4. ASSUME NEW answer \in Seq(Entry)
      PROVE  /\ Append(answered, answer) \in Seq(Seq(Entry))
             /\ Len(Append(answered, answer)) = Len(answered) + 1
             /\ Append(answered, answer)[Len(answered) + 1] = answer
  BY <1>1
<1>5. \A outcome \in {"ok", "failed"} :
        [stats EXCEPT ![outcome] = @ + 1] \in [{"ok", "failed", "retries"} -> Nat]
  BY DEF BuildTypeOK
<1>6. ASSUME AttemptFails  PROVE BuildTypeOK' /\ LoopsOK'
  <2>1. CASE attempt < RetryLimit
    <3>1. /\ attempt' = attempt + 1 /\ status = "fetching"
          /\ UNCHANGED <<subs, i, k, nodes, stats, status, answered>>
      BY <1>6, <2>1 DEF AttemptFails, Fetching
    <3>2. attempt' \in 1 .. RetryLimit
      BY <1>1, <2>1, <3>1
    <3> QED BY <3>1, <3>2 DEF BuildTypeOK, LoopsOK
  <2>2. CASE ~(attempt < RetryLimit)
    <3>1. /\ i' = i + 1 /\ attempt' = 1 /\ k' = 1 /\ status' = "fetching"
          /\ stats' = [stats EXCEPT !["failed"] = @ + 1] /\ answered' = Append(answered, <<>>)
          /\ UNCHANGED <<subs, nodes>> /\ status = "fetching" /\ i <= Len(subs)
      BY <1>6, <2>2 DEF AttemptFails, Fetching, NextSub
    <3>2. i' \in 1 .. Len(subs) + 1 /\ Len(answered') = i' - 1 /\ answered' \in Seq(Seq(Entry))
      <4>1. <<>> \in Seq(Entry)
        OBVIOUS
      <4> QED BY <1>1, <1>2, <1>4, <3>1, <4>1
    <3> QED BY <1>1, <1>5, <3>1, <3>2 DEF BuildTypeOK, LoopsOK
  <2> QED BY <2>1, <2>2
<1>7. ASSUME NEW answer \in Answers, AttemptSucceeds(answer)  PROVE BuildTypeOK' /\ LoopsOK'
  <2>1. /\ answered' = Append(answered, answer) /\ status = "fetching" /\ status' = "adding"
        /\ stats' = [stats EXCEPT !.retries = @ + attempt - 1] /\ i <= Len(subs)
        /\ UNCHANGED <<subs, i, attempt, k, nodes>>
    BY <1>7 DEF AttemptSucceeds, Fetching
  <2>2. answer \in Seq(Entry) /\ Len(answer) \in Nat /\ k = 1
    BY <2>1, InputsAssumption DEF LoopsOK
  <2>3. /\ answered' \in Seq(Seq(Entry)) /\ Len(answered') = i /\ answered'[i] = answer
    BY <1>1, <1>2, <1>4, <2>1, <2>2
  <2>4. stats' \in [{"ok", "failed", "retries"} -> Nat]
    <3>1. stats \in [{"ok", "failed", "retries"} -> Nat]
      BY DEF BuildTypeOK
    <3>2. stats["retries"] + attempt - 1 \in Nat
      BY <1>1, <3>1
    <3>3. stats' = [stats EXCEPT !["retries"] = stats["retries"] + attempt - 1]
      BY <2>1
    <3> QED BY <3>1, <3>2, <3>3
  <2>5. 1 .. k - 1 = {} /\ k <= Len(answer) + 1
    BY <2>2
  <2> QED BY <1>1, <2>1, <2>3, <2>4, <2>5 DEF BuildTypeOK, LoopsOK
<1>8. ASSUME AddEntry  PROVE BuildTypeOK' /\ LoopsOK'
  <2>1. /\ status = "adding" /\ k <= Len(answered[i]) /\ answered[i][k].kind # "broken"
        /\ nodes' = AddNode(subs[i], nodes, answered[i][k]) /\ k' = k + 1
        /\ UNCHANGED <<subs, i, attempt, stats, status, answered>>
    BY <1>8 DEF AddEntry
  <2>2. answered[i][k] \in Entry
    BY <1>1, <1>3, <2>1
  <2>3. nodes' \in Seq(Node)
    BY <1>3, <2>1, <2>2, AddNodeIs DEF BuildTypeOK
  <2>4. \A m \in 1 .. k' - 1 : m \in 1 .. k - 1 \/ m = k
    BY <1>1, <2>1
  <2>5. \A m \in 1 .. k' - 1 : answered[i][m].kind # "broken"
    BY <2>1, <2>4 DEF LoopsOK
  <2>6. k' \in Nat \ {0} /\ k' <= Len(answered[i]) + 1
    BY <1>1, <1>3, <2>1, SMTT(30)
  <2> QED BY <2>1, <2>3, <2>5, <2>6 DEF BuildTypeOK, LoopsOK
<1>9. ASSUME EntryRaises \/ EntriesDone  PROVE BuildTypeOK' /\ LoopsOK'
  <2>1. PICK outcome \in {"ok", "failed"} : NextSub(outcome)
    BY <1>9 DEF EntryRaises, EntriesDone
  <2>2. /\ i' = i + 1 /\ attempt' = 1 /\ k' = 1 /\ status' = "fetching"
        /\ stats' = [stats EXCEPT ![outcome] = @ + 1] /\ status = "adding"
        /\ UNCHANGED <<subs, nodes, answered>>
    BY <1>9, <2>1 DEF EntryRaises, EntriesDone, NextSub
  <2>3. i' \in 1 .. Len(subs) + 1 /\ Len(answered') = i' - 1
    BY <1>1, <1>2, <1>3, <2>2
  <2> QED BY <1>1, <1>5, <2>2, <2>3, SMTT(30) DEF BuildTypeOK, LoopsOK
<1>10. ASSUME StartGroups  PROVE BuildTypeOK' /\ LoopsOK'
  <2>1. /\ status = "fetching" /\ UNCHANGED <<subs, i, attempt, k, nodes, stats, answered>>
        /\ status' = "raised" \/ (status' = "grouping" /\ nodes # <<>>)
    BY <1>10 DEF StartGroups
  <2> QED BY <1>1, <2>1 DEF BuildTypeOK, LoopsOK
<1>11. ASSUME AddRegion  PROVE BuildTypeOK' /\ LoopsOK'
  <2>1. /\ status = "grouping" /\ k <= Len(Groups)
        /\ UNCHANGED <<subs, i, attempt, nodes, stats, answered>>
        /\ \/ status' = "raised" /\ k' = k
           \/ status' = status /\ k' = k + 1
    BY <1>11 DEF AddRegion
  <2> QED BY <1>1, <2>1 DEF BuildTypeOK, LoopsOK
<1>12. ASSUME Finish  PROVE BuildTypeOK' /\ LoopsOK'
  BY <1>12 DEF Finish, BuildTypeOK, LoopsOK
<1>13. CASE UNCHANGED buildVars
  BY <1>13 DEF buildVars, BuildTypeOK, LoopsOK
<1> QED BY <1>6, <1>7, <1>8, <1>9, <1>10, <1>11, <1>12, <1>13 DEF BuildNext

(* One more element is one more to count.                                  *)
LEMMA OneMoreEntry ==
  ASSUME NEW S, IsFiniteSet(S), NEW x, x \notin S
  PROVE  /\ IsFiniteSet(S \cup {x})
         /\ Cardinality(S \cup {x}) = Cardinality(S) + 1
BY FS_AddElement

(* What is reached, when an answer nothing of which is comes to it.        *)
LEMMA NonePassed ==
  ASSUME NEW f, NEW f2, DOMAIN f \subseteq DOMAIN f2,
         \A s \in DOMAIN f : f2[s] = f[s],
         \A s \in DOMAIN f2 \ DOMAIN f : f2[s] = {}
  PROVE  Pairs(f2) = Pairs(f)
<1>1. Pairs(f) \subseteq Pairs(f2)
  BY DEF Pairs
<1>2. Pairs(f2) \subseteq Pairs(f)
  <2> SUFFICES ASSUME NEW s \in DOMAIN f2, NEW n \in f2[s]  PROVE <<s, n>> \in Pairs(f)
    BY DEF Pairs
  <2>1. s \in DOMAIN f
    OBVIOUS
  <2> QED BY <2>1 DEF Pairs
<1> QED BY <1>1, <1>2

(* ... and when one entry of an answer does.                               *)
LEMMA OnePassed ==
  ASSUME NEW f, NEW x, NEW y, x \in DOMAIN f
  PROVE  Pairs([f EXCEPT ![x] = f[x] \cup {y}]) = Pairs(f) \cup {<<x, y>>}
<1> DEFINE f2 == [f EXCEPT ![x] = f[x] \cup {y}]
<1>1. /\ DOMAIN f2 = DOMAIN f /\ f2[x] = f[x] \cup {y}
      /\ \A s \in DOMAIN f \ {x} : f2[s] = f[s]
  OBVIOUS
<1> HIDE DEF f2
<1>2. Pairs(f) \cup {<<x, y>>} \subseteq Pairs(f2)
  <2>1. <<x, y>> \in Pairs(f2)
    BY <1>1 DEF Pairs
  <2>2. ASSUME NEW s \in DOMAIN f, NEW n \in f[s]  PROVE <<s, n>> \in Pairs(f2)
    <3>1. s \in DOMAIN f2 /\ n \in f2[s]
      BY <1>1
    <3> QED BY <3>1 DEF Pairs
  <2>3. Pairs(f) \subseteq Pairs(f2)
    BY <2>2 DEF Pairs
  <2> QED BY <2>1, <2>3
<1>3. ASSUME NEW s \in DOMAIN f2, NEW n \in f2[s]
      PROVE  <<s, n>> \in Pairs(f) \cup {<<x, y>>}
  <2>1. (s = x /\ n = y) \/ (s \in DOMAIN f /\ n \in f[s])
    BY <1>1
  <2> QED BY <2>1 DEF Pairs
<1>4. Pairs(f2) \subseteq Pairs(f) \cup {<<x, y>>}
  BY <1>3 DEF Pairs
<1> QED BY <1>2, <1>4 DEF f2

(* The nodes, step by step.                                                *)
LEMMA NodesAreKept ==
  ASSUME BuildTypeOK, LoopsOK, NodesOK, [BuildNext]_buildVars
  PROVE  NodesOK'
<1>1. /\ answered \in Seq(Seq(Entry)) /\ i \in Nat \ {0} /\ k \in Nat \ {0}
      /\ Len(answered) = IF status = "adding" THEN i ELSE i - 1
      /\ DOMAIN answered = 1 .. Len(answered)
  BY DEF BuildTypeOK
<1>2. /\ \A s \in DOMAIN answered : answered[s] \in Seq(Entry)
      /\ \A u \in Seq(Entry) : DOMAIN u = 1 .. Len(u) /\ Len(u) \in Nat
  BY <1>1
<1>3. DOMAIN Reached = DOMAIN answered /\ \A e \in Pairs(Reached) : e[1] \in DOMAIN answered
  BY DEF Reached, Pairs
<1>4. ASSUME AttemptFails  PROVE NodesOK'
  <2>1. CASE attempt < RetryLimit
    <3>1. UNCHANGED <<subs, i, k, nodes, status, answered>>
      BY <1>4, <2>1 DEF AttemptFails
    <3> QED BY <3>1 DEF NodesOK, Reached
  <2>2. CASE ~(attempt < RetryLimit)
    <3>1. /\ answered' = Append(answered, <<>>) /\ status = "fetching"
          /\ status' = "fetching" /\ UNCHANGED <<subs, nodes>>
      BY <1>4, <2>2 DEF AttemptFails, Fetching, NextSub
    <3>2. /\ DOMAIN answered' = DOMAIN answered \cup {Len(answered) + 1}
          /\ answered'[Len(answered) + 1] = <<>>
          /\ \A s \in DOMAIN answered : answered'[s] = answered[s]
      <4>1. <<>> \in Seq(Entry)
        OBVIOUS
      <4> QED BY <1>1, <3>1, <4>1
    <3>3. Usable(<<>>) = {}
      BY DEF Usable
    <3>4. /\ DOMAIN Reached' = DOMAIN answered'
          /\ \A s \in DOMAIN answered : Reached'[s] = Reached[s]
          /\ Reached'[Len(answered) + 1] = {}
      BY <3>1, <3>2, <3>3 DEF Reached
    <3>5. Pairs(Reached') = Pairs(Reached)
      BY <1>3, <3>2, <3>4, NonePassed
    <3> QED BY <1>3, <3>1, <3>2, <3>5 DEF NodesOK
  <2> QED BY <2>1, <2>2
<1>5. ASSUME NEW answer \in Answers, AttemptSucceeds(answer)  PROVE NodesOK'
  <2>1. /\ answered' = Append(answered, answer) /\ status = "fetching" /\ status' = "adding"
        /\ UNCHANGED <<subs, nodes, i, k>> /\ k = 1 /\ answer \in Seq(Entry)
    BY <1>5, InputsAssumption DEF AttemptSucceeds, Fetching, LoopsOK
  <2>2. /\ DOMAIN answered' = DOMAIN answered \cup {i} /\ i \notin DOMAIN answered
        /\ answered'[i] = answer
        /\ \A s \in DOMAIN answered : answered'[s] = answered[s]
    BY <1>1, <2>1
  <2>3. \A n \in Usable(answer) : n \in Nat \ {0} /\ ~(n < 1)
    BY <1>2, <2>1 DEF Usable
  <2>4. /\ DOMAIN Reached' = DOMAIN answered'
        /\ \A s \in DOMAIN answered : Reached'[s] = Reached[s]
        /\ Reached'[i] = {}
    BY <2>1, <2>2, <2>3 DEF Reached
  <2>5. Pairs(Reached') = Pairs(Reached)
    BY <1>3, <2>2, <2>4, NonePassed
  <2> QED BY <1>3, <2>1, <2>2, <2>5 DEF NodesOK
<1>6. ASSUME AddEntry  PROVE NodesOK'
  <2> DEFINE entry == answered[i][k]
  <2>1. /\ status = "adding" /\ k <= Len(answered[i]) /\ entry.kind # "broken"
        /\ nodes' = AddNode(subs[i], nodes, entry) /\ k' = k + 1
        /\ UNCHANGED <<subs, i, status, answered>>
    BY <1>6 DEF AddEntry
  <2>2. i \in DOMAIN answered /\ k \in DOMAIN answered[i] /\ entry \in Entry
    BY <1>1, <1>2, <2>1
  <2>3. subs[i] \in STRING /\ nodes \in Seq(Node) /\ Len(nodes) \in Nat
    <3>1. subs \in Seq(STRING)
      BY InputsAssumption DEF BuildTypeOK
    <3>2. i \in 1 .. Len(subs)
      BY <1>1, <2>1, <3>1 DEF BuildTypeOK, LoopsOK
    <3> QED BY <3>1, <3>2 DEF BuildTypeOK
  <2>4. Distinct(nodes')
    BY <2>1, <2>2, <2>3, AddNodeIs DEF NodesOK
  <2>5. k \in Usable(answered[i]) <=> entry.kind = "node"
    BY <1>1, <2>1, <2>2 DEF Usable, LoopsOK
  <2>6. /\ Reached' = [s \in DOMAIN answered |->
                      {n \in Usable(answered[s]) : s = i => n < k + 1}]
        /\ Reached = [s \in DOMAIN answered |-> {n \in Usable(answered[s]) : s = i => n < k}]
    BY <2>1 DEF Reached
  <2>7. Reached'[i] = Reached[i] \cup (IF entry.kind = "node" THEN {k} ELSE {})
    <3>1. \A n \in Usable(answered[i]) : n \in Nat
      BY <1>2, <2>2 DEF Usable
    <3>2. \A n \in Nat : n < k + 1 <=> n < k \/ n = k
      BY <1>1
    <3> HIDE DEF entry
    <3> QED BY <2>2, <2>5, <2>6, <3>1, <3>2
  <2>8. \A s \in DOMAIN answered \ {i} : Reached'[s] = Reached[s]
    BY <2>6
  <2>9. <<i, k>> \notin Pairs(Reached)
    <3>1. k \notin Reached[i]
      BY <1>1, <2>2, <2>6
    <3> QED BY <3>1 DEF Pairs
  <2>10. DOMAIN Reached' = DOMAIN answered
    BY <2>6
  <2> HIDE DEF entry
  <2>11. CASE entry.kind = "node"
    <3>1. /\ Len(nodes') = Len(nodes) + 1 /\ \A n \in DOMAIN nodes : nodes'[n] = nodes[n]
          /\ IsNode(nodes'[Len(nodes) + 1], subs[i], entry)
          /\ nodes' \in Seq(Node)
      <4>1. LET more == AddNode(subs[i], nodes, entry)
            IN  /\ more \in Seq(Node) /\ Len(more) = Len(nodes) + 1
                /\ \A n \in DOMAIN nodes : more[n] = nodes[n]
                /\ more[Len(nodes) + 1].sub = subs[i]
                /\ more[Len(nodes) + 1].original = entry.name
                /\ more[Len(nodes) + 1].regions = entry.regions
                /\ more[Len(nodes) + 1].rate = entry.rate
        BY <2>2, <2>3, <2>11, AddNodeIs, ZenonT(40)
      <4> QED BY <2>1, <4>1 DEF IsNode
    <3>2. DOMAIN nodes' = DOMAIN nodes \cup {Len(nodes) + 1}
      BY <2>3, <3>1
    <3>3. Pairs(Reached') = Pairs(Reached) \cup {<<i, k>>}
      <4>1. /\ i \in DOMAIN Reached /\ DOMAIN Reached' = DOMAIN Reached
            /\ Reached'[i] = Reached[i] \cup {k}
            /\ \A s \in DOMAIN Reached \ {i} : Reached'[s] = Reached[s]
        BY <1>3, <2>2, <2>7, <2>8, <2>10, <2>11
      <4>2. Reached' = [Reached EXCEPT ![i] = Reached[i] \cup {k}]
        BY <2>6, <4>1
      <4>3. \A f, x, y : x \in DOMAIN f =>
              Pairs([f EXCEPT ![x] = f[x] \cup {y}]) = Pairs(f) \cup {<<x, y>>}
        BY OnePassed
      <4>4. i \in DOMAIN Reached
        BY <4>1
      <4>5. Pairs([Reached EXCEPT ![i] = Reached[i] \cup {k}]) = Pairs(Reached) \cup {<<i, k>>}
        BY <4>4, <4>3, ZenonT(40)
      <4> QED BY <4>2, <4>5
    <3>4. IsFiniteSet(Pairs(Reached')) /\ Cardinality(Pairs(Reached')) = Len(nodes')
      BY <2>9, <3>1, <3>3, OneMoreEntry DEF NodesOK
    <3>5. ASSUME NEW e \in Pairs(Reached)
          PROVE  \E n \in DOMAIN nodes' : IsNode(nodes'[n], subs[e[1]], answered[e[1]][e[2]])
      BY <3>1, <3>2 DEF NodesOK
    <3>6. \A e \in Pairs(Reached') :
            \E n \in DOMAIN nodes' : IsNode(nodes'[n], subs[e[1]], answered[e[1]][e[2]])
      <4>1. <<i, k>>[1] = i /\ <<i, k>>[2] = k
        OBVIOUS
      <4>2. IsNode(nodes'[Len(nodes) + 1], subs[i], answered[i][k])
        BY <3>1 DEF entry
      <4> QED BY <3>2, <3>3, <3>5, <4>1, <4>2
    <3> QED BY <2>1, <2>4, <3>4, <3>6 DEF NodesOK
  <2>12. CASE entry.kind # "node"
    <3>1. nodes' = nodes
      BY <2>1, <2>2, <2>3, <2>12, AddNodeIs, ZenonT(40)
    <3>2. Pairs(Reached') = Pairs(Reached)
      BY <1>3, <2>7, <2>8, <2>10, <2>12, NonePassed
    <3> QED BY <2>1, <2>4, <3>1, <3>2 DEF NodesOK
  <2> QED BY <2>11, <2>12
<1>7. ASSUME EntryRaises \/ EntriesDone  PROVE NodesOK'
  <2>1. /\ status = "adding" /\ status' = "fetching" /\ UNCHANGED <<subs, nodes, answered>>
        /\ \/ k <= Len(answered[i]) /\ answered[i][k].kind = "broken"
           \/ k > Len(answered[i])
    BY <1>7 DEF EntryRaises, EntriesDone, NextSub
  <2>2. i \in DOMAIN answered /\ answered[i] \in Seq(Entry)
    BY <1>1, <1>2, <2>1
  <2>3. \A n \in Usable(answered[i]) : n < k
    <3>1. \A n \in Usable(answered[i]) : n \in Nat /\ n <= Len(answered[i])
      BY <1>2, <2>2 DEF Usable
    <3> SUFFICES ASSUME NEW n \in Usable(answered[i]), k <= n  PROVE FALSE
      BY <1>1, <3>1
    <3>2. answered[i][n].kind = "node" /\ Len(answered[i]) \in Nat
      BY <1>2, <2>2 DEF Usable
    <3>3. answered[i][k].kind = "broken" /\ k # n
      BY <1>1, <2>1, <3>1, <3>2
    <3>4. k \in 1 .. n - 1
      BY <1>1, <3>1, <3>3
    <3> QED BY <3>3, <3>4 DEF Usable
  <2>4. Reached' = Reached
    BY <2>1, <2>3 DEF Reached
  <2> QED BY <2>1, <2>4 DEF NodesOK
<1>8. ASSUME StartGroups \/ AddRegion \/ Finish \/ UNCHANGED buildVars  PROVE NodesOK'
  <2>1. /\ UNCHANGED <<subs, i, nodes, answered>>
        /\ (status = "adding" /\ UNCHANGED <<k, status>>)
           \/ (status # "adding" /\ status' # "adding")
    BY <1>8 DEF StartGroups, AddRegion, Finish, buildVars
  <2>2. Reached' = Reached
    BY <2>1 DEF Reached
  <2> QED BY <2>1, <2>2 DEF NodesOK
<1> QED BY <1>4, <1>5, <1>6, <1>7, <1>8 DEF BuildNext

(* The configuration, step by step.                                        *)
LEMMA ConfigIsKept ==
  ASSUME BuildTypeOK, LoopsOK, NodesOK, ConfigOK, BuildTypeOK', [BuildNext]_buildVars
  PROVE  ConfigOK'
<1>1. nodes \in Seq(Node) /\ Distinct(nodes) /\ k \in Nat \ {0}
  BY DEF BuildTypeOK, NodesOK
<1>2. /\ Groups \in Seq(STRING) /\ Len(Groups) \in Nat /\ DOMAIN Groups = 1 .. Len(Groups)
      /\ \A p, q \in DOMAIN Groups : Groups[p] = Groups[q] => p = q
      /\ \A g \in Strict : \E p \in DOMAIN Groups : Groups[p] = g
  <2>1. Groups \in Seq(STRING)
    BY GroupsAssumption
  <2>2. \A p, q \in DOMAIN Groups : Groups[p] = Groups[q] => p = q
    BY GroupsAssumption DEF IsInjective
  <2>3. \A g \in Strict : \E p \in DOMAIN Groups : Groups[p] = g
    BY GroupsAssumption DEF ToSet
  <2> QED BY <2>1, <2>2, <2>3
<1>3. ASSUME \/ AttemptFails \/ \E answer \in Answers : AttemptSucceeds(answer)
             \/ AddEntry \/ EntryRaises \/ EntriesDone
      PROVE  ConfigOK'
  <2>1. /\ status \in {"fetching", "adding"} /\ status' \in {"fetching", "adding"}
        /\ config' = config
    BY <1>3 DEF AttemptFails, AttemptSucceeds, AddEntry, EntryRaises, EntriesDone, Fetching,
                NextSub
  <2>2. config = <<>>
    BY <2>1 DEF ConfigOK
  <2> QED BY <2>1, <2>2, NoOutbound DEF ConfigOK
<1>4. ASSUME StartGroups  PROVE ConfigOK'
  <2>1. CASE nodes = <<>>
    <3>1. config' = config /\ status' = "raised" /\ status = "fetching"
      BY <1>4, <2>1 DEF StartGroups
    <3> QED BY <3>1 DEF ConfigOK
  <2>2. CASE nodes # <<>>
    <3>1. /\ config' = NodeOutbounds(nodes) /\ status' = "grouping" /\ status = "fetching"
          /\ UNCHANGED <<k, nodes>>
      BY <1>4, <2>2 DEF StartGroups
    <3>2. /\ Fine(config') /\ Full(config') /\ TagsIn(config') = TagsOf(nodes)
          /\ MembersIn(config') = {}
      BY <1>1, <3>1, NodesAre
    <3>3. TagsOf(nodes) \subseteq NodeTag
      <4>1. \A n \in DOMAIN nodes : nodes[n] \in Node
        BY <1>1
      <4> QED BY <4>1 DEF TagsOf, Node
    <3>4. k' = 1 /\ 1 .. k' - 1 = {}
      BY <3>1 DEF LoopsOK
    <3> QED BY <3>1, <3>2, <3>3, <3>4 DEF ConfigOK
  <2> QED BY <2>1, <2>2
<1>5. ASSUME AddRegion  PROVE ConfigOK'
  <2> DEFINE g == Groups[k]
             list == OrNone(Region(nodes, g) # {}, RegionOutbounds(nodes, g))
  <2>1. status = "grouping" /\ k \in DOMAIN Groups /\ UNCHANGED nodes
    BY <1>1, <1>2, <1>5 DEF AddRegion
  <2>2. g \in ToSet(Groups)
    BY <2>1 DEF ToSet
  <2>3. CASE Region(nodes, g) = {} /\ g \in Strict
    <3>1. status' = "raised" /\ config' = config
      BY <1>5, <2>3 DEF AddRegion
    <3> QED BY <2>1, <3>1 DEF ConfigOK
  <2>4. CASE ~(Region(nodes, g) = {} /\ g \in Strict)
    <3>1. config' = config \o list /\ k' = k + 1 /\ status' = "grouping"
      BY <1>5, <2>1, <2>4 DEF AddRegion
    <3>2. /\ Fine(list) /\ Full(list) /\ TagsIn(list) \subseteq TagsOfRegion(g)
          /\ MembersIn(list) \subseteq TagsOf(nodes) \cup TagsIn(list)
          /\ g \in Strict => GroupTag(g) \in TagsIn(list)
      <4>1. CASE Region(nodes, g) # {}
        <5>1. list = RegionOutbounds(nodes, g)
          BY <4>1 DEF OrNone
        <5> HIDE DEF g, list
        <5> QED BY <1>1, <2>2, <4>1, <5>1, RegionIs
      <4>2. CASE Region(nodes, g) = {}
        <5>1. list = <<>> /\ g \notin Strict
          BY <2>4, <4>2 DEF OrNone
        <5> HIDE DEF g, list
        <5> QED BY <5>1, NoOutbound
      <4> QED BY <4>1, <4>2
    <3> HIDE DEF list
    <3>3. /\ Fine(config) /\ Full(config) /\ TagsOf(nodes) \subseteq TagsIn(config)
          /\ MembersIn(config) \subseteq TagsIn(config)
          /\ \A t \in TagsIn(config) :
               t \in NodeTag \/ (t \in RegionTag /\ \E p \in 1 .. k - 1 : t[2] = Groups[p])
          /\ \A p \in 1 .. k - 1 :
               Groups[p] \in Strict => GroupTag(Groups[p]) \in TagsIn(config)
      BY <2>1 DEF ConfigOK
    <3>4. \A p \in 1 .. k - 1 : p \in DOMAIN Groups /\ p # k
      BY <1>1, <1>2, <2>1
    <3>5. \A t \in TagsOfRegion(g) : t \notin NodeTag /\ t \in RegionTag /\ t[2] = g
      BY KindsDiffer DEF TagsOfRegion
    <3>6. TagsIn(config) \cap TagsIn(list) = {}
      <4>1. \A p \in 1 .. k - 1 : Groups[p] # g
        BY <1>2, <2>1, <3>4
      <4> HIDE DEF g
      <4> QED BY <3>2, <3>3, <3>5, <4>1
    <3>7. /\ Fine(config') /\ Full(config')
          /\ TagsIn(config') = TagsIn(config) \cup TagsIn(list)
          /\ MembersIn(config') = MembersIn(config) \cup MembersIn(list)
      BY <3>1, <3>2, <3>3, <3>6, Join
    <3>8. \A p \in 1 .. k' - 1 : p \in 1 .. k - 1 \/ p = k
      BY <1>1, <3>1
    <3>9. 1 .. k - 1 \subseteq 1 .. k' - 1 /\ k \in 1 .. k' - 1
      BY <1>1, <3>1
    <3>10. \A t \in TagsIn(config') :
             t \in NodeTag \/ (t \in RegionTag /\ \E p \in 1 .. k' - 1 : t[2] = Groups[p])
      BY <3>2, <3>3, <3>5, <3>7, <3>9
    <3>11. \A p \in 1 .. k' - 1 :
             Groups[p] \in Strict => GroupTag(Groups[p]) \in TagsIn(config')
      BY <3>2, <3>3, <3>7, <3>8
    <3>12. /\ MembersIn(config') \subseteq TagsIn(config')
           /\ TagsOf(nodes) \subseteq TagsIn(config')
      BY <3>2, <3>3, <3>7
    <3> QED BY <2>1, <3>1, <3>7, <3>10, <3>11, <3>12 DEF ConfigOK
  <2> QED BY <2>3, <2>4
<1>6. ASSUME Finish  PROVE ConfigOK'
  <2> DEFINE list == GlobalOutbounds(nodes)
  <2>1. /\ status = "grouping" /\ k > Len(Groups) /\ UNCHANGED nodes
        /\ config' = config \o list /\ status' = "built"
    BY <1>6 DEF Finish
  <2>2. /\ Fine(list) /\ TagsIn(list) \subseteq GlobalTag /\ <<"AllNodes">> \in TagsIn(list)
        /\ MembersIn(list) \subseteq TagsOf(nodes) \cup TagsIn(list)
        /\ \A n \in DOMAIN list :
             list[n].type # "node" /\ list[n].members = <<>> =>
               list[n].tag = <<"AllNodes">> /\ \A m \in DOMAIN nodes : nodes[m].rate = "high"
    BY <1>1, GlobalIs
  <2> HIDE DEF list
  <2>3. /\ Fine(config) /\ Full(config) /\ TagsOf(nodes) \subseteq TagsIn(config)
        /\ MembersIn(config) \subseteq TagsIn(config)
        /\ \A t \in TagsIn(config) : t \in NodeTag \/ t \in RegionTag
        /\ \A g \in Strict : GroupTag(g) \in TagsIn(config)
    <3>1. \A p \in DOMAIN Groups : p \in 1 .. k - 1
      BY <1>1, <1>2, <2>1
    <3> QED BY <1>2, <2>1, <3>1 DEF ConfigOK
  <2>4. TagsIn(config) \cap TagsIn(list) = {}
    BY <2>2, <2>3, KindsDiffer
  <2>5. /\ Fine(config') /\ TagsIn(config') = TagsIn(config) \cup TagsIn(list)
        /\ MembersIn(config') = MembersIn(config) \cup MembersIn(list)
    BY <2>1, <2>2, <2>3, <2>4, Join
  <2>6. ASSUME NEW n \in DOMAIN config',
               config'[n].type # "node", config'[n].members = <<>>
        PROVE  /\ config'[n].tag = <<"AllNodes">>
               /\ \A m \in DOMAIN nodes : nodes[m].rate = "high"
    <3>1. \/ n \in DOMAIN config /\ config'[n] = config[n]
          \/ \E m \in DOMAIN list : config'[n] = list[m]
      BY <2>1, <2>2, <2>3, OneOfTwo DEF Fine
    <3> QED BY <2>2, <2>3, <2>6, <3>1 DEF Full
  <2> QED BY <2>1, <2>2, <2>3, <2>5, <2>6 DEF ConfigOK
<1>7. CASE UNCHANGED buildVars
  BY <1>7 DEF buildVars, ConfigOK
<1> QED BY <1>3, <1>4, <1>5, <1>6, <1>7 DEF BuildNext

(* The inductive invariant holds in every behaviour.                       *)
THEOREM Invariance == BuildSpec => []Inv
<1>1. BuildInit => Inv
  <2> SUFFICES ASSUME BuildInit  PROVE Inv
    OBVIOUS
  <2>1. BuildTypeOK
    <3>1. subs \in Seq(STRING)
      BY InputsAssumption DEF BuildInit
    <3>2. Len(subs) \in Nat /\ 1 \in 1 .. Len(subs) + 1
      BY <3>1
    <3> QED BY <3>2, RetryAssumption DEF BuildInit, BuildTypeOK
  <2>2. LoopsOK
    BY DEF BuildInit, LoopsOK
  <2>3. Reached = <<>> /\ Pairs(Reached) = {} /\ nodes = <<>>
    BY DEF BuildInit, Reached, Pairs
  <2>4. NodesOK
    BY <2>3, FS_EmptySet DEF NodesOK, Distinct
  <2>5. ConfigOK
    BY NoOutbound DEF BuildInit, ConfigOK
  <2> QED BY <2>1, <2>2, <2>4, <2>5 DEF Inv
<1>2. Inv /\ [BuildNext]_buildVars => Inv'
  BY TypesAreKept, NodesAreKept, ConfigIsKept DEF Inv
<1> QED BY <1>1, <1>2, PTL DEF BuildSpec

(* Whatever the providers list, name and rate, and whatever is selected:   *)
(* tags are unique, groups closed and without repetitions, the routes of   *)
(* main.json resolve, and no group is empty but AllNodes when every node   *)
(* is a high-rate one.                                                     *)
THEOREM ConfigAccepted == BuildSpec => []ConfigIsUsable
<1>1. Inv => ConfigIsUsable
  <2> SUFFICES ASSUME Inv  PROVE ConfigIsUsable
    OBVIOUS
  <2>1. ConfigTags = TagsIn(config) /\ config \in Seq(Outbounds)
    BY DEF Inv, ConfigOK, Fine, ConfigTags, TagsIn, ToSet
  <2>2. TagsUnique
    BY DEF Inv, ConfigOK, Fine, Distinct, TagsUnique
  <2>3. MembersExist
    BY <2>1 DEF Inv, ConfigOK, MembersExist, Members, MembersIn, ToSet
  <2>4. MembersOnce
    BY DEF Inv, ConfigOK, Fine, MembersOnce, ToSet
  <2>5. RoutesResolve
    BY <2>1 DEF Inv, ConfigOK, RoutesResolve, Routed, GroupTag
  <2>6. GroupsHaveMembers
    BY DEF Inv, ConfigOK, Full, GroupsHaveMembers, ToSet
  <2> QED BY <2>2, <2>3, <2>4, <2>5, <2>6 DEF Inv, ConfigIsUsable
<1> QED BY <1>1, Invariance, PTL

(* Nothing is lost: every usable entry before the first that raises, of    *)
(* every answer, is a node of its own, and there is no other node.         *)
THEOREM NothingIsLost == BuildSpec => []NothingLost
<1>1. Inv => NothingLost
  <2> SUFFICES ASSUME Inv, status # "adding"  PROVE NothingLost
    BY DEF NothingLost
  <2>1. Reached = [s \in DOMAIN answered |-> Usable(answered[s])]
    BY DEF Reached
  <2>2. UsableEntries = Pairs(Reached)
    BY <2>1 DEF UsableEntries, Pairs
  <2> QED BY <2>2 DEF Inv, NodesOK, IsNode, NothingLost
<1> QED BY <1>1, Invariance, PTL
=============================================================================
