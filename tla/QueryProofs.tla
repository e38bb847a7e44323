----------------------------- MODULE QueryProofs -----------------------------
(* A query's tree is the parse of its chain, and the request made of it selects
   the documents the chain describes: for chains of any length and nesting, any
   paths and conditions, and documents of any kind.

   The fields of a Query are stacks; the chain is a sequence of calls, and what
   a call is about is found by looking back along it (Parent, Element, WhereOf).
   The module first says how that look changes as the chain gains one call, then
   that the stacks hold its results, and last, by induction over the numbers of
   the nodes, that a tree and a chain that correspond say the same. *)

EXTENDS QueryLanguage, FiniteSetTheorems, SequenceTheorems, WellFoundedInduction,
        TLAPS

-----------------------------------------------------------------------------
(* Numbers *)

\* Every set of numbers has a least one, and a bounded one a greatest.
LEMMA LeastNumber ==
  ASSUME NEW S, S \subseteq Nat, S # {}
  PROVE  \E n \in S : \A m \in S : n <= m
<1> DEFINE R == OpToRel(<, Nat)
<1>1. \E n \in S : \A m \in S : <<m, n>> \notin R
  <2>1. IsWellFoundedOn(R, Nat)
    BY NatLessThanWellFounded
  <2> HIDE DEF R
  <2> QED
    BY <2>1, WFMin
<1>2. \A m, n \in Nat : m < n => <<m, n>> \in R
  BY DEF OpToRel
<1> HIDE DEF R
<1>3. PICK n \in S : \A m \in S : <<m, n>> \notin R
  BY <1>1
<1>4. ASSUME NEW m \in S
      PROVE  n <= m
  <2>1. m \in Nat /\ n \in Nat
    OBVIOUS
  <2>2. ~ (m < n)
    BY <1>2, <1>3, <2>1
  <2> QED
    BY <2>1, <2>2
<1> QED
  BY <1>4

LEMMA GreatestNumber ==
  ASSUME NEW N \in Nat, NEW S, S \subseteq 0..N, S # {}
  PROVE  \E n \in S : \A m \in S : m <= n
<1> DEFINE T == {N - n : n \in S}
<1>1. T \subseteq Nat /\ T # {}
  <2>1. \A n \in S : n \in Nat /\ N - n \in Nat
    OBVIOUS
  <2> QED
    BY <2>1
<1>2. PICK t \in T : \A u \in T : t <= u
  <2> HIDE DEF T
  <2> QED
    BY <1>1, LeastNumber
<1>3. PICK n \in S : t = N - n
  OBVIOUS
<1>4. \A m \in S : N - n <= N - m
  BY <1>2, <1>3
<1>5. n \in 0..N /\ \A m \in S : m \in 0..N
  OBVIOUS
<1> QED
  BY <1>4, <1>5

\* Max of a set that has a greatest number, and of one whose greatest is known.
LEMMA MaxOf ==
  ASSUME NEW N \in Nat, NEW S, S \subseteq 0..N, S # {}
  PROVE  Max(S) \in S /\ \A m \in S : m <= Max(S)
<1>1. PICK n \in S : \A m \in S : m <= n
  BY GreatestNumber
<1>2. \A m \in S : n >= m
  BY <1>1
<1>3. Max(S) \in S /\ \A m \in S : Max(S) >= m
  BY <1>2 DEF Max
<1> QED
  BY <1>3

LEMMA MaxIs ==
  ASSUME NEW S, S \subseteq Nat, NEW n \in S, \A m \in S : m <= n
  PROVE  Max(S) = n
<1>1. \A m \in S : n >= m
  OBVIOUS
<1>2. Max(S) \in S /\ \A m \in S : Max(S) >= m
  BY <1>1 DEF Max
<1>3. Max(S) >= n /\ n >= Max(S)
  BY <1>1, <1>2
<1>4. Max(S) \in Nat /\ n \in Nat
  BY <1>2
<1> QED
  BY <1>3, <1>4

-----------------------------------------------------------------------------
(* A chain and the chain with one more call *)

LEMMA Appended ==
  ASSUME NEW c \in Seq(Call), NEW x \in Call
  PROVE  /\ Append(c, x) \in Seq(Call) /\ Len(c) \in Nat
         /\ Len(Append(c, x)) = Len(c) + 1
         /\ DOMAIN c = 1..Len(c) /\ DOMAIN Append(c, x) = 1..(Len(c) + 1)
         /\ \A i \in 1..Len(c) : Append(c, x)[i] = c[i]
         /\ Append(c, x)[Len(c) + 1] = x
OBVIOUS

\* A set of calls is finite.
LEMMA SubsetOfChain ==
  ASSUME NEW c \in Seq(Call), NEW S, S \subseteq DOMAIN c
  PROVE  IsFiniteSet(S) /\ Cardinality(S) \in Nat /\ S \subseteq 1..Len(c)
<1>1. DOMAIN c = 1..Len(c) /\ Len(c) \in Nat
  OBVIOUS
<1>2. IsFiniteSet(1..Len(c))
  BY <1>1, FS_Interval
<1> QED
  BY <1>1, <1>2, FS_Subset, FS_CardinalityType

LEMMA DepthType ==
  ASSUME NEW c \in Seq(Call), NEW i
  PROVE  Depth(c, i) \in Int
<1>1. Cardinality({j \in OpenCalls(c) : j < i}) \in Nat
  BY SubsetOfChain DEF OpenCalls
<1>2. Cardinality({j \in EndCalls(c) : j < i}) \in Nat
  BY SubsetOfChain DEF EndCalls
<1> QED
  BY <1>1, <1>2 DEF Depth

\* What is true at a call does not change with the calls after it.
LEMMA DepthKept ==
  ASSUME NEW c \in Seq(Call), NEW x \in Call, NEW i \in 1..(Len(c) + 1)
  PROVE  Depth(Append(c, x), i) = Depth(c, i)
<1> DEFINE d == Append(c, x)
<1>1. {j \in OpenCalls(d) : j < i} = {j \in OpenCalls(c) : j < i}
  BY Appended DEF OpenCalls
<1>2. {j \in EndCalls(d) : j < i} = {j \in EndCalls(c) : j < i}
  BY Appended DEF EndCalls
<1> QED
  BY <1>1, <1>2 DEF Depth

\* How deep the next call is.
LEMMA DepthStep ==
  ASSUME NEW c \in Seq(Call), NEW x \in Call
  PROVE  LET n == Len(c) + 1
             d == Append(c, x)
         IN /\ x.op \in Scope => Depth(d, n + 1) = Depth(c, n) + 1
            /\ x.op = "end" => Depth(d, n + 1) = Depth(c, n) - 1
            /\ x.op \notin Scope \cup {"end"} => Depth(d, n + 1) = Depth(c, n)
<1> DEFINE n == Len(c) + 1
           d == Append(c, x)
           open == {j \in OpenCalls(c) : j < n}
           end  == {j \in EndCalls(c) : j < n}
<1>1. IsFiniteSet(open) /\ Cardinality(open) \in Nat /\ n \notin open
  BY SubsetOfChain, Appended DEF OpenCalls
<1>2. IsFiniteSet(end) /\ Cardinality(end) \in Nat /\ n \notin end
  BY SubsetOfChain, Appended DEF EndCalls
<1>3. {j \in OpenCalls(d) : j < n + 1} = IF x.op \in Scope THEN open \cup {n} ELSE open
  BY Appended DEF OpenCalls
<1>4. {j \in EndCalls(d) : j < n + 1} = IF x.op = "end" THEN end \cup {n} ELSE end
  BY Appended DEF EndCalls
<1>5. Cardinality(open \cup {n}) = Cardinality(open) + 1
  BY <1>1, FS_AddElement
<1>6. Cardinality(end \cup {n}) = Cardinality(end) + 1
  BY <1>2, FS_AddElement
<1>7. Depth(c, n) = Cardinality(open) - Cardinality(end)
  BY DEF Depth
<1> HIDE DEF open, end, n, d
<1>8. Depth(d, n + 1) = (IF x.op \in Scope THEN Cardinality(open) + 1 ELSE Cardinality(open))
                        - (IF x.op = "end" THEN Cardinality(end) + 1 ELSE Cardinality(end))
  BY <1>3, <1>4, <1>5, <1>6 DEF Depth
<1>9. x.op = "end" => x.op \notin Scope
  BY DEF Scope
<1>10. /\ x.op \in Scope => Depth(d, n + 1) = Depth(c, n) + 1
       /\ x.op = "end" => Depth(d, n + 1) = Depth(c, n) - 1
       /\ x.op \notin Scope \cup {"end"} => Depth(d, n + 1) = Depth(c, n)
  BY <1>1, <1>2, <1>7, <1>8, <1>9
<1> QED
  BY <1>10 DEF n, d

LEMMA ScopesType ==
  ASSUME NEW c \in Seq(Call), NEW i
  PROVE  /\ Scopes(c, i) \subseteq 1..Len(c) /\ Elements(c, i) \subseteq Scopes(c, i)
         /\ \A j \in Scopes(c, i) : j \in OpenCalls(c) /\ j < i
BY DEF Scopes, Elements, OpenCalls

LEMMA ScopesKept ==
  ASSUME NEW c \in Seq(Call), NEW x \in Call, NEW i \in 1..(Len(c) + 1)
  PROVE  Scopes(Append(c, x), i) = Scopes(c, i) /\ Elements(Append(c, x), i) = Elements(c, i)
<1> DEFINE d == Append(c, x)
<1>1. \A j : j \in OpenCalls(d) /\ j < i <=> j \in OpenCalls(c) /\ j < i
  BY Appended DEF OpenCalls
<1>2. \A j \in OpenCalls(c) : j < i =>
        \A k \in (j + 1)..i : Depth(d, k) = Depth(c, k) /\ Depth(d, j) = Depth(c, j)
  <2> SUFFICES ASSUME NEW j \in OpenCalls(c), j < i, NEW k \in (j + 1)..i
               PROVE  Depth(d, k) = Depth(c, k) /\ Depth(d, j) = Depth(c, j)
    OBVIOUS
  <2>1. j \in 1..(Len(c) + 1) /\ k \in 1..(Len(c) + 1)
    BY Appended DEF OpenCalls
  <2> QED
    BY <2>1, DepthKept
<1>3. Scopes(d, i) = Scopes(c, i)
  BY <1>1, <1>2 DEF Scopes
<1>4. \A j \in Scopes(c, i) : d[j] = c[j]
  BY ScopesType, Appended
<1> QED
  BY <1>3, <1>4 DEF Elements

\* The innermost scope, and element, around a call come before it.
LEMMA ParentType ==
  ASSUME NEW c \in Seq(Call), NEW i \in Nat
  PROVE  /\ Parent(c, i) \in {0} \cup Scopes(c, i) /\ Parent(c, i) \in 0..Len(c)
         /\ Element(c, i) \in {0} \cup Elements(c, i) /\ Element(c, i) \in 0..Len(c)
         /\ \A j \in Scopes(c, i) : j <= Parent(c, i)
         /\ \A j \in Elements(c, i) : j <= Element(c, i)
         /\ i > 0 => Parent(c, i) < i /\ Element(c, i) < i
<1>1. Len(c) \in Nat /\ Scopes(c, i) \subseteq 1..Len(c) /\ Elements(c, i) \subseteq 1..Len(c)
  BY ScopesType
<1>2. {0} \cup Scopes(c, i) \subseteq 0..Len(c) /\ {0} \cup Elements(c, i) \subseteq 0..Len(c)
  BY <1>1
<1>3. Parent(c, i) \in {0} \cup Scopes(c, i) /\ \A j \in Scopes(c, i) : j <= Parent(c, i)
  BY <1>1, <1>2, MaxOf DEF Parent
<1>4. Element(c, i) \in {0} \cup Elements(c, i) /\ \A j \in Elements(c, i) : j <= Element(c, i)
  BY <1>1, <1>2, MaxOf DEF Element
<1> QED
  BY <1>2, <1>3, <1>4, ScopesType

LEMMA ParentKept ==
  ASSUME NEW c \in Seq(Call), NEW x \in Call, NEW i \in 1..(Len(c) + 1)
  PROVE  Parent(Append(c, x), i) = Parent(c, i) /\ Element(Append(c, x), i) = Element(c, i)
BY ScopesKept DEF Parent, Element

LEMMA WhereKept ==
  ASSUME NEW c \in Seq(Call), NEW x \in Call, NEW i \in 1..(Len(c) + 1)
  PROVE  WhereOf(Append(c, x), i) = WhereOf(c, i)
<1> DEFINE d == Append(c, x)
<1>1. Element(d, i) = Element(c, i)
  BY ParentKept
<1>2. \A j : j \in DOMAIN d /\ j < i <=> j \in DOMAIN c /\ j < i
  BY Appended
<1>3. \A j \in DOMAIN c : d[j] = c[j] /\ Element(d, j) = Element(c, j)
  BY Appended, ParentKept
<1>4. Wheres(d, i) = Wheres(c, i)
  BY <1>1, <1>2, <1>3 DEF Wheres
<1>5. CASE Wheres(c, i) = {}
  BY <1>4, <1>5 DEF WhereOf
<1>6. CASE Wheres(c, i) # {}
  <2>1. Wheres(c, i) \subseteq 0..Len(c)
    BY Appended DEF Wheres
  <2>2. Max(Wheres(c, i)) \in Wheres(c, i)
    BY <1>6, <2>1, MaxOf, Appended
  <2>3. d[Max(Wheres(c, i))] = c[Max(Wheres(c, i))]
    BY <2>2, <1>3 DEF Wheres
  <2> QED
    BY <1>4, <1>6, <2>3 DEF WhereOf
<1> QED
  BY <1>5, <1>6

\* The calls that make nodes, and how many came up to a call.
LEMMA NodeCallsKept ==
  ASSUME NEW c \in Seq(Call), NEW x \in Call
  PROVE  /\ NodeCalls(Append(c, x)) = IF x.op \in Scope \cup {"leaf"}
                                      THEN NodeCalls(c) \cup {Len(c) + 1} ELSE NodeCalls(c)
         /\ NodeCalls(c) \subseteq 1..Len(c)
         /\ \A i \in 0..Len(c) : NodeOf(Append(c, x), i) = NodeOf(c, i)
         /\ NodeOf(c, Len(c)) = Cardinality(NodeCalls(c))
         /\ x.op \in Scope \cup {"leaf"} =>
               /\ NodeOf(Append(c, x), Len(c) + 1) = Cardinality(NodeCalls(c)) + 1
               /\ Cardinality(NodeCalls(Append(c, x))) = Cardinality(NodeCalls(c)) + 1
<1> DEFINE n == Len(c) + 1
           d == Append(c, x)
<1>1. NodeCalls(d) = IF x.op \in Scope \cup {"leaf"} THEN NodeCalls(c) \cup {n} ELSE NodeCalls(c)
  BY Appended DEF NodeCalls
<1>2. NodeCalls(c) \subseteq 1..Len(c)
  BY Appended DEF NodeCalls
<1>3. ASSUME NEW i \in 0..Len(c)
      PROVE  NodeOf(d, i) = NodeOf(c, i)
  <2>1. {j \in NodeCalls(d) : j <= i} = {j \in NodeCalls(c) : j <= i}
    BY <1>1, <1>2, Appended
  <2> QED
    BY <2>1 DEF NodeOf
<1>4. {j \in NodeCalls(c) : j <= Len(c)} = NodeCalls(c)
  BY <1>2, Appended
<1>5. ASSUME x.op \in Scope \cup {"leaf"}
      PROVE  NodeOf(d, n) = Cardinality(NodeCalls(c)) + 1
             /\ Cardinality(NodeCalls(d)) = Cardinality(NodeCalls(c)) + 1
  <2>1. n \notin NodeCalls(c) /\ IsFiniteSet(NodeCalls(c))
    BY <1>2, SubsetOfChain, Appended
  <2>2. Cardinality(NodeCalls(c) \cup {n}) = Cardinality(NodeCalls(c)) + 1
    BY <2>1, FS_AddElement
  <2>3. {j \in NodeCalls(d) : j <= n} = NodeCalls(c) \cup {n}
    BY <1>1, <1>2, <1>5, Appended
  <2> QED
    BY <1>1, <1>5, <2>2, <2>3 DEF NodeOf
<1> QED
  BY <1>1, <1>2, <1>3, <1>4, <1>5 DEF NodeOf

-----------------------------------------------------------------------------
(* The scopes around the next call *)

\* Is call j the innermost scope around call i?
Innermost(c, i, j) == j \in Scopes(c, i) /\ Depth(c, j) = Depth(c, i) - 1

\* A scope around a call begins before it, and shares its outer scopes with it.
LEMMA OuterScopes ==
  ASSUME NEW c \in Seq(Call), NEW i \in 1..(Len(c) + 1), NEW j \in Scopes(c, i)
  PROVE  /\ j \in 1..Len(c) /\ j < i /\ j \notin Scopes(c, j)
         /\ Scopes(c, j) \subseteq Scopes(c, i)
         /\ \A k \in Scopes(c, i) : k < j => k \in Scopes(c, j)
         /\ Depth(c, i) > Depth(c, j)
<1>1. j \in 1..Len(c) /\ j < i /\ j \in OpenCalls(c) /\ Len(c) \in Nat
  BY ScopesType, Appended
<1>2. \A k : Depth(c, k) \in Int
  BY DepthType
<1>3. \A k \in (j + 1)..i : Depth(c, k) > Depth(c, j)
  BY DEF Scopes
<1>4. ASSUME NEW k \in Scopes(c, j)
      PROVE  k \in Scopes(c, i)
  <2>1. k \in OpenCalls(c) /\ k < j /\ k \in 1..Len(c)
    BY ScopesType
  <2>2. \A l \in (k + 1)..j : Depth(c, l) > Depth(c, k)
    BY DEF Scopes
  <2>3. ASSUME NEW l \in (k + 1)..i
        PROVE  Depth(c, l) > Depth(c, k)
    <3>1. CASE l <= j
      BY <1>1, <2>1, <2>2, <3>1
    <3>2. CASE l > j
      <4>1. Depth(c, l) > Depth(c, j)
        BY <1>1, <1>3, <2>1, <3>2
      <4>2. Depth(c, j) > Depth(c, k)
        BY <1>1, <2>1, <2>2
      <4> QED
        BY <1>2, <4>1, <4>2
    <3> QED
      BY <1>1, <2>1, <3>1, <3>2
  <2> QED
    BY <1>1, <2>1, <2>3 DEF Scopes
<1>5. ASSUME NEW k \in Scopes(c, i), k < j
      PROVE  k \in Scopes(c, j)
  <2>1. k \in OpenCalls(c) /\ k \in 1..Len(c)
    BY ScopesType
  <2>2. \A l \in (k + 1)..i : Depth(c, l) > Depth(c, k)
    BY DEF Scopes
  <2>3. \A l \in (k + 1)..j : Depth(c, l) > Depth(c, k)
    BY <1>1, <2>1, <2>2
  <2> QED
    BY <1>5, <2>1, <2>3 DEF Scopes
<1>6. j \notin Scopes(c, j)
  BY <1>1, ScopesType
<1>7. Depth(c, i) > Depth(c, j)
  BY <1>1, <1>3
<1> QED
  BY <1>1, <1>4, <1>5, <1>6, <1>7

\* The innermost scope adds itself to the scopes around it.
LEMMA InnermostScope ==
  ASSUME NEW c \in Seq(Call), NEW i \in 1..(Len(c) + 1), NEW j, Innermost(c, i, j)
  PROVE  /\ Scopes(c, i) = Scopes(c, j) \cup {j}
         /\ Parent(c, i) = j
         /\ c[j].op = "elem" => Elements(c, i) = Elements(c, j) \cup {j} /\ Element(c, i) = j
         /\ c[j].op # "elem" => Elements(c, i) = Elements(c, j) /\ Element(c, i) = Element(c, j)
<1> USE DEF Innermost
<1>1. /\ j \in 1..Len(c) /\ j < i /\ Scopes(c, j) \subseteq Scopes(c, i)
      /\ \A k \in Scopes(c, i) : k < j => k \in Scopes(c, j)
  BY OuterScopes
<1>2. Scopes(c, i) \subseteq 1..Len(c) /\ Len(c) \in Nat /\ \A k : Depth(c, k) \in Int
  BY ScopesType, DepthType, Appended
<1>3. ASSUME NEW k \in Scopes(c, i), k > j
      PROVE  FALSE
  <2>1. Depth(c, i) > Depth(c, k) /\ k < i /\ k \in 1..Len(c)
    BY OuterScopes
  <2>2. \A l \in (j + 1)..i : Depth(c, l) > Depth(c, j)
    BY DEF Scopes
  <2>3. Depth(c, k) > Depth(c, j)
    BY <1>1, <1>3, <2>1, <2>2
  <2> QED
    BY <1>2, <2>1, <2>3
<1>4. \A k \in Scopes(c, i) : k < j \/ k = j
  BY <1>1, <1>2, <1>3
<1>5. Scopes(c, i) = Scopes(c, j) \cup {j}
  BY <1>1, <1>4
<1>6. Parent(c, i) = j
  <2>1. {0} \cup Scopes(c, i) \subseteq Nat /\ \A k \in {0} \cup Scopes(c, i) : k <= j
    BY <1>1, <1>2, <1>4
  <2> QED
    BY <2>1, MaxIs DEF Parent
<1>7. ASSUME c[j].op = "elem"
      PROVE  Elements(c, i) = Elements(c, j) \cup {j} /\ Element(c, i) = j
  <2>1. Elements(c, i) = Elements(c, j) \cup {j}
    BY <1>5, <1>7 DEF Elements
  <2>2. {0} \cup Elements(c, i) \subseteq Nat /\ \A k \in {0} \cup Elements(c, i) : k <= j
    BY <1>1, <1>2, <1>4 DEF Elements
  <2>3. j \in Elements(c, i)
    BY <2>1
  <2> QED
    BY <2>1, <2>2, <2>3, MaxIs DEF Element
<1>8. ASSUME c[j].op # "elem"
      PROVE  Elements(c, i) = Elements(c, j) /\ Element(c, i) = Element(c, j)
  <2>1. Elements(c, i) = Elements(c, j)
    BY <1>5, <1>8 DEF Elements
  <2> QED
    BY <2>1 DEF Element
<1> QED
  BY <1>5, <1>6, <1>7, <1>8

\* After a call that opens a scope, it is the innermost one.
LEMMA OpenStep ==
  ASSUME NEW c \in Seq(Call), NEW x \in Call, x.op \in Scope
  PROVE  LET n == Len(c) + 1
             d == Append(c, x)
         IN /\ Innermost(d, n + 1, n)
            /\ Scopes(d, n + 1) = Scopes(c, n) \cup {n}
            /\ x.op = "elem" => Elements(d, n + 1) = Elements(c, n) \cup {n}
            /\ x.op # "elem" => /\ Elements(d, n + 1) = Elements(c, n)
                                /\ Element(d, n + 1) = Element(c, n)
<1> DEFINE n == Len(c) + 1
           d == Append(c, x)
<1>1. n \in 1..(Len(d) + 1) /\ n \in Nat /\ d \in Seq(Call) /\ d[n] = x /\ n + 1 \in 1..(Len(d) + 1)
  BY Appended
<1>2. Depth(d, n + 1) = Depth(c, n) + 1 /\ Depth(d, n) = Depth(c, n)
  BY <1>1, DepthStep, DepthKept, Appended
<1>3. \A k : Depth(d, k) \in Int
  BY <1>1, DepthType
<1>4. n \in OpenCalls(d)
  BY Appended DEF OpenCalls
<1>5. \A k \in (n + 1)..(n + 1) : Depth(d, k) > Depth(d, n)
  BY <1>1, <1>2, <1>3
<1>6. n \in Scopes(d, n + 1)
  BY <1>1, <1>4, <1>5 DEF Scopes
<1>7. Innermost(d, n + 1, n)
  BY <1>1, <1>2, <1>3, <1>6 DEF Innermost
<1>8. Scopes(d, n + 1) = Scopes(d, n) \cup {n}
  BY <1>1, <1>7, InnermostScope
<1>9. /\ Scopes(d, n) = Scopes(c, n) /\ Elements(d, n) = Elements(c, n)
      /\ Element(d, n) = Element(c, n)
  BY ScopesKept, ParentKept, Appended
<1>10. /\ d[n].op = "elem" => Elements(d, n + 1) = Elements(d, n) \cup {n}
       /\ d[n].op # "elem" => /\ Elements(d, n + 1) = Elements(d, n)
                              /\ Element(d, n + 1) = Element(d, n)
  BY <1>1, <1>7, InnermostScope
<1> QED
  BY <1>1, <1>7, <1>8, <1>9, <1>10

\* A call that opens and closes nothing.
LEMMA PlainStep ==
  ASSUME NEW c \in Seq(Call), NEW x \in Call, x.op \notin Scope \cup {"end"}
  PROVE  LET n == Len(c) + 1
             d == Append(c, x)
         IN /\ Scopes(d, n + 1) = Scopes(c, n) /\ Elements(d, n + 1) = Elements(c, n)
            /\ Parent(d, n + 1) = Parent(c, n) /\ Element(d, n + 1) = Element(c, n)
<1> DEFINE n == Len(c) + 1
           d == Append(c, x)
<1>1. n \in Nat /\ d \in Seq(Call) /\ d[n] = x /\ DOMAIN d = 1..n /\ Len(d) = n
  BY Appended
<1>2. Depth(d, n + 1) = Depth(d, n) /\ \A k : Depth(d, k) \in Int
  <2>1. n \in 1..(Len(c) + 1)
    BY Appended
  <2>2. Depth(d, n) = Depth(c, n)
    BY <2>1, DepthKept
  <2>3. Depth(d, n + 1) = Depth(c, n)
    BY DepthStep
  <2> QED
    BY <1>1, <2>2, <2>3, DepthType
<1>3. \A j : j \in OpenCalls(d) /\ j < n + 1 <=> j \in OpenCalls(d) /\ j < n
  BY <1>1 DEF OpenCalls
<1>4. ASSUME NEW j \in OpenCalls(d), j < n
      PROVE  (\A k \in (j + 1)..(n + 1) : Depth(d, k) > Depth(d, j))
               <=> (\A k \in (j + 1)..n : Depth(d, k) > Depth(d, j))
  <2>1. j \in 1..n
    BY <1>1 DEF OpenCalls
  <2>2. \A k \in (j + 1)..(n + 1) : k \in (j + 1)..n \/ k = n + 1
    BY <1>1, <2>1
  <2>3. n \in (j + 1)..n /\ \A k \in (j + 1)..n : k \in (j + 1)..(n + 1)
    BY <1>1, <1>4, <2>1
  <2> QED
    BY <1>2, <2>2, <2>3
<1>5. Scopes(d, n + 1) = Scopes(d, n)
  BY <1>3, <1>4 DEF Scopes
<1>6. Elements(d, n + 1) = Elements(d, n)
  BY <1>5 DEF Elements
<1>7. Scopes(d, n) = Scopes(c, n) /\ Elements(d, n) = Elements(c, n)
  BY ScopesKept, Appended
<1> QED
  BY <1>5, <1>6, <1>7 DEF Parent, Element

\* After a scope is closed, the scopes are those at the call that opened it.
LEMMA CloseStep ==
  ASSUME NEW c \in Seq(Call), NEW x \in Call, x.op = "end",
         NEW j, Innermost(c, Len(c) + 1, j)
  PROVE  LET n == Len(c) + 1
             d == Append(c, x)
         IN /\ Scopes(d, n + 1) = Scopes(c, j) /\ Elements(d, n + 1) = Elements(c, j)
            /\ Parent(d, n + 1) = Parent(c, j) /\ Element(d, n + 1) = Element(c, j)
<1> DEFINE n == Len(c) + 1
           d == Append(c, x)
<1>1. n \in Nat /\ d \in Seq(Call) /\ d[n] = x /\ DOMAIN d = 1..n /\ Len(d) = n
      /\ n \in 1..(Len(c) + 1) /\ n \in 1..(Len(d) + 1)
  BY Appended
<1>2. j \in Scopes(c, n) /\ Depth(c, j) = Depth(c, n) - 1
  BY DEF Innermost
<1>3. j \in 1..Len(c) /\ j < n /\ Scopes(c, n) = Scopes(c, j) \cup {j} /\ j \notin Scopes(c, j)
  BY <1>1, <1>2, OuterScopes, InnermostScope
<1>4. Scopes(d, n) = Scopes(c, n) /\ Scopes(d, j) = Scopes(c, j)
      /\ Elements(d, j) = Elements(c, j)
  BY <1>1, <1>3, ScopesKept
<1>5. Depth(d, j) = Depth(c, j) /\ Depth(d, n) = Depth(c, n)
  BY <1>1, <1>3, DepthKept
<1>6. Depth(d, n + 1) = Depth(d, j) /\ \A k : Depth(d, k) \in Int
  BY <1>1, <1>2, <1>5, DepthStep, DepthType
<1>7. ASSUME NEW k \in Scopes(d, n + 1)
      PROVE  k \in Scopes(d, j)
  <2>1. k \in OpenCalls(d) /\ k < n + 1 /\ k \in 1..n
    BY <1>1, ScopesType
  <2>2. \A l \in (k + 1)..(n + 1) : Depth(d, l) > Depth(d, k)
    BY DEF Scopes
  <2>3. k # n
    <3>1. "end" \notin Scope
      BY DEF Scope
    <3> QED
      BY <1>1, <2>1, <3>1 DEF OpenCalls
  <2>4. Depth(d, j) > Depth(d, k)
    BY <1>1, <1>6, <2>1, <2>2
  <2>5. \A l \in (k + 1)..n : Depth(d, l) > Depth(d, k)
    BY <1>1, <2>1, <2>2
  <2>6. k \in Scopes(d, n)
    BY <1>1, <2>1, <2>3, <2>5 DEF Scopes
  <2> QED
    BY <1>3, <1>4, <1>6, <2>4, <2>6
<1>8. ASSUME NEW k \in Scopes(d, j)
      PROVE  k \in Scopes(d, n + 1)
  <2>1. k \in Scopes(d, n)
    BY <1>3, <1>4, <1>8
  <2>2. k \in OpenCalls(d) /\ k < j /\ k \in 1..n
    BY <1>1, ScopesType
  <2>3. \A l \in (k + 1)..n : Depth(d, l) > Depth(d, k)
    BY <2>1 DEF Scopes
  <2>4. Depth(d, j) > Depth(d, k)
    BY <1>1, <1>3, <2>2, <2>3
  <2>5. \A l \in (k + 1)..(n + 1) : Depth(d, l) > Depth(d, k)
    <3>1. \A l \in (k + 1)..(n + 1) : l \in (k + 1)..n \/ l = n + 1
      BY <1>1, <2>2
    <3> QED
      BY <1>6, <2>3, <2>4, <3>1
  <2> QED
    BY <1>1, <1>3, <2>2, <2>5 DEF Scopes
<1>9. Scopes(d, n + 1) = Scopes(c, j)
  BY <1>4, <1>7, <1>8
<1>10. \A k \in Scopes(c, j) : d[k] = c[k]
  BY Appended, ScopesType
<1>11. Elements(d, n + 1) = Elements(c, j)
  BY <1>9, <1>10 DEF Elements
<1> QED
  BY <1>9, <1>11 DEF Parent, Element

-----------------------------------------------------------------------------
(* The path of the next call *)

\* A call that is no where(), and leaves the element the next call is in as it
\* was, leaves the path.
LEMMA WhereSame ==
  ASSUME NEW c \in Seq(Call), NEW x \in Call, x.op # "where",
         Element(Append(c, x), Len(c) + 2) = Element(c, Len(c) + 1)
  PROVE  WhereOf(Append(c, x), Len(c) + 2) = WhereOf(c, Len(c) + 1)
<1> DEFINE n == Len(c) + 1
           d == Append(c, x)
<1>1. n \in 1..(Len(c) + 1) /\ DOMAIN d = 1..n /\ d[n] = x /\ n + 1 = Len(c) + 2
  BY Appended
<1>2. Element(d, n + 1) = Element(d, n)
  BY <1>1, ParentKept
<1>3. \A j \in DOMAIN d : d[j].op = "where" => (j < n + 1 <=> j < n)
  BY <1>1
<1>4. Wheres(d, n + 1) = Wheres(d, n)
  BY <1>2, <1>3 DEF Wheres
<1>5. WhereOf(d, n + 1) = WhereOf(d, n)
  BY <1>4 DEF WhereOf
<1> QED
  BY <1>1, <1>5, WhereKept

\* where() sets the path, an element begins without one, and when it is closed
\* the path is the one it was called with.
LEMMA WhereStep ==
  ASSUME NEW c \in Seq(Call), NEW x \in Call, x.op = "where"
  PROVE  WhereOf(Append(c, x), Len(c) + 2) = x.arg
<1> DEFINE n == Len(c) + 1
           d == Append(c, x)
<1>1. n \in 1..(Len(c) + 1) /\ DOMAIN d = 1..n /\ d[n] = x /\ n + 1 = Len(c) + 2
  BY Appended
<1>2. x.op \notin Scope \cup {"end"}
  BY DEF Scope
<1>3. Element(d, n + 1) = Element(d, n)
  BY <1>1, <1>2, PlainStep, ParentKept
<1>4. n \in Wheres(d, n + 1) /\ Wheres(d, n + 1) \subseteq 1..n
  BY <1>1, <1>3 DEF Wheres
<1>5. Max(Wheres(d, n + 1)) = n
  BY <1>1, <1>4, MaxIs
<1>6. Wheres(d, n + 1) # {}
  BY <1>4
<1> QED
  BY <1>1, <1>5, <1>6 DEF WhereOf

LEMMA ElementWhere ==
  ASSUME NEW c \in Seq(Call), NEW x \in Call, x.op = "elem"
  PROVE  WhereOf(Append(c, x), Len(c) + 2) = <<>>
<1> DEFINE n == Len(c) + 1
           d == Append(c, x)
<1>1. /\ n \in 1..(Len(d) + 1) /\ DOMAIN d = 1..n /\ d[n] = x /\ n + 1 = Len(c) + 2
      /\ d \in Seq(Call) /\ n + 1 \in 1..(Len(d) + 1) /\ n \in Nat
  BY Appended
<1>2. Element(d, n + 1) = n
  <2>1. Innermost(d, n + 1, n)
    BY OpenStep DEF Scope
  <2> QED
    BY <1>1, <2>1, InnermostScope
<1>3. ASSUME NEW j \in 1..n
      PROVE  Element(d, j) # n
  <2>1. j \in Nat /\ j > 0
    OBVIOUS
  <2>2. Element(d, j) < j /\ Element(d, j) \in 0..Len(d)
    BY <1>1, <2>1, ParentType
  <2> QED
    BY <1>1, <2>1, <2>2
<1>5. \A j \in DOMAIN d : Element(d, j) # n
  BY <1>1, <1>3
<1>6. Wheres(d, n + 1) = {}
  BY <1>2, <1>5 DEF Wheres
<1> QED
  BY <1>1, <1>6 DEF WhereOf

LEMMA ElementClosed ==
  ASSUME NEW c \in Seq(Call), NEW x \in Call, x.op = "end",
         NEW j, Innermost(c, Len(c) + 1, j), c[j].op = "elem"
  PROVE  WhereOf(Append(c, x), Len(c) + 2) = WhereOf(c, j)
<1> DEFINE n == Len(c) + 1
           d == Append(c, x)
<1>1. n \in 1..(Len(c) + 1) /\ DOMAIN d = 1..n /\ d[n] = x /\ n + 1 = Len(c) + 2
      /\ d \in Seq(Call) /\ n \in Nat /\ \A k \in 1..Len(c) : d[k] = c[k]
  BY Appended
<1>2. j \in Scopes(c, n) /\ j \in 1..Len(c) /\ j < n /\ j \in OpenCalls(c)
  BY ScopesType, Appended DEF Innermost
<1>3. Element(d, n + 1) = Element(c, j) /\ Element(d, j) = Element(c, j) /\ Element(c, j) < j
  <2>1. Element(d, n + 1) = Element(c, j)
    BY CloseStep
  <2>2. Element(d, j) = Element(c, j)
    BY <1>2, ParentKept, Appended
  <2>3. Element(c, j) < j
    BY <1>2, ParentType
  <2> QED
    BY <2>1, <2>2, <2>3
<1>4. ASSUME NEW k \in DOMAIN d, d[k].op = "where", Element(d, k) = Element(c, j)
      PROVE  k < j
  <2>1. k # n /\ k \in 1..Len(c)
    BY <1>1, <1>4
  <2>2. k # j
    BY <1>1, <1>2, <1>4
  <2>3. Element(c, k) = Element(c, j)
    BY <1>1, <1>4, <2>1, ParentKept
  <2>4. ASSUME k > j
        PROVE  FALSE
    <3>1. \A l \in (j + 1)..n : Depth(c, l) > Depth(c, j)
      BY <1>2 DEF Scopes
    <3>2. \A l \in (j + 1)..k : Depth(c, l) > Depth(c, j)
      BY <1>1, <1>2, <2>1, <3>1
    <3>3. j \in Elements(c, k)
      BY <1>2, <2>4, <3>2 DEF Scopes, Elements
    <3>4. j <= Element(c, k) /\ Element(c, k) \in Nat
      BY <2>1, <3>3, ParentType
    <3> QED
      BY <1>2, <1>3, <2>3, <3>4
  <2> QED
    BY <1>2, <2>1, <2>2, <2>4
<1>5. \A k \in DOMAIN d : d[k].op = "where" /\ Element(d, k) = Element(c, j)
                            => (k < n + 1 <=> k < j)
  BY <1>1, <1>2, <1>4
<1>6. Wheres(d, n + 1) = Wheres(d, j)
  BY <1>3, <1>5 DEF Wheres
<1>7. WhereOf(d, n + 1) = WhereOf(d, j)
  BY <1>6 DEF WhereOf
<1>8. WhereOf(d, j) = WhereOf(c, j)
  BY <1>1, <1>2, WhereKept
<1> QED
  BY <1>1, <1>7, <1>8

-----------------------------------------------------------------------------
(* The invariant *)

\* The next call.
Here == Len(calls) + 1

\* The stacks hold, outermost first, the scopes the next call is in, and for
\* each the list it is in; the current list is the one of the innermost scope.
ScopeStacks ==
  /\ Len(andOrElemStack) = Depth(calls, Here)
  /\ Len(matchStack) = Depth(calls, Here)
  /\ \A j \in Scopes(calls, Here) :
       /\ Depth(calls, j) + 1 \in 1..Depth(calls, Here)
       /\ andOrElemStack[Depth(calls, j) + 1] = calls[j].op
       /\ matchStack[Depth(calls, j) + 1] = NodeOf(calls, Parent(calls, j))
  /\ \A m \in 1..Depth(calls, Here) : \E j \in Scopes(calls, Here) : Depth(calls, j) + 1 = m
  /\ currentMatch = NodeOf(calls, Parent(calls, Here))

\* So does the stack of paths for the elements it is in.
WhereStack ==
  /\ Len(whereStack) = Cardinality(Elements(calls, Here))
  /\ \A j \in Elements(calls, Here) :
       whereStack[Cardinality(Elements(calls, j)) + 1] = WhereOf(calls, j)
  /\ currentWhere # None => currentWhere = WhereOf(calls, Here)

\* The last id(), ids() and owner() count.
Headers ==
  /\ ids = IF LastCall(calls, "ids") = 0 THEN None ELSE calls[LastCall(calls, "ids")].arg
  /\ owner = IF LastCall(calls, "owner") = 0 THEN None
             ELSE calls[LastCall(calls, "owner")].arg

\* What exec left behind is of the chain as it is when no call came after it.
Executed ==
  /\ pending.kind # "none" => pending.at <= Len(calls)
  /\ pending.kind = "find" /\ pending.at = Len(calls) => ids = None
  /\ pending.kind = "lookup" /\ pending.at = Len(calls)
       => pending.ids = ids /\ ids # {} /\ ids # None
  /\ asked.kind # "none" => asked.at <= Len(calls)
  /\ asked.kind # "none" /\ asked.at = Len(calls) =>
       \/ /\ ids = None /\ asked.ids = None
          /\ asked.owner = owner /\ asked.nodes = nodes
       \/ /\ ids # None /\ ids # {} /\ asked.ids = ids
          /\ asked.owner = None /\ asked.nodes = <<>>

IInv == TypeOK /\ ScopeStacks /\ WhereStack /\ Headers /\ Executed /\ TreeIsParse

-----------------------------------------------------------------------------
(* The calls before *)

\* What a new call leaves as it was, of all the calls before it.
LEMMA Earlier ==
  ASSUME NEW c \in Seq(Call), NEW x \in Call, NEW j \in 1..Len(c)
  PROVE  LET d == Append(c, x)
         IN /\ d[j] = c[j] /\ Depth(d, j) = Depth(c, j)
            /\ Elements(d, j) = Elements(c, j) /\ WhereOf(d, j) = WhereOf(c, j)
            /\ NodeOf(d, j) = NodeOf(c, j) /\ Parent(d, j) = Parent(c, j)
            /\ NodeOf(d, Parent(d, j)) = NodeOf(c, Parent(c, j))
            /\ Spelled(d, j) = Spelled(c, j)
<1> DEFINE d == Append(c, x)
<1>1. j \in 1..(Len(c) + 1) /\ j \in 0..Len(c) /\ j \in Nat
  BY Appended
<1>2. d[j] = c[j]
  BY Appended
<1>3. Depth(d, j) = Depth(c, j) /\ Elements(d, j) = Elements(c, j) /\ WhereOf(d, j) = WhereOf(c, j)
      /\ Parent(d, j) = Parent(c, j)
  BY <1>1, DepthKept, ScopesKept, WhereKept, ParentKept
<1>4. NodeOf(d, j) = NodeOf(c, j) /\ NodeOf(d, Parent(c, j)) = NodeOf(c, Parent(c, j))
  BY <1>1, NodeCallsKept, ParentType
<1>5. Spelled(d, j) = Spelled(c, j)
  BY <1>2, <1>3, <1>4 DEF Spelled
<1> QED
  BY <1>2, <1>3, <1>4, <1>5

\* What a stack is after a pop, and after a push.
LEMMA Popped ==
  ASSUME NEW S, NEW s \in Seq(S), s # <<>>
  PROVE  /\ Front(s) \in Seq(S) /\ Len(Front(s)) = Len(s) - 1 /\ Len(s) \in Nat \ {0}
         /\ \A i \in 1..(Len(s) - 1) : Front(s)[i] = s[i]
         /\ Last(s) = s[Len(s)] /\ Last(s) \in S
<1>1. Len(s) \in Nat \ {0}
  OBVIOUS
<1>2. Len(s) - 1 \in 0..Len(s) /\ Len(s) \in 1..Len(s)
  BY <1>1
<1>3. Front(s) = SubSeq(s, 1, Len(s) - 1) /\ Last(s) = s[Len(s)]
  BY DEF Front, Last
<1> DEFINE n == Len(s) - 1
<1>4. n \in Nat /\ n = Len(s) - 1 /\ \A i \in 1..n : s[i] \in S
  BY <1>1
<1> HIDE DEF n
<1>5. /\ SubSeq(s, 1, n) \in Seq(S)
      /\ Len(SubSeq(s, 1, n)) = IF 1 <= n THEN n - 1 + 1 ELSE 0
      /\ \A i \in 1..(n - 1 + 1) : SubSeq(s, 1, n)[i] = s[1 + i - 1]
  <2>1. 1 \in Int /\ n \in Int
    BY <1>4
  <2> QED
    BY <1>4, <2>1, SubSeqProperties
<1>6. /\ Front(s) \in Seq(S) /\ Len(Front(s)) = IF 1 <= n THEN n - 1 + 1 ELSE 0
      /\ \A i \in 1..(n - 1 + 1) : Front(s)[i] = s[1 + i - 1]
  BY <1>3, <1>5 DEF n
<1>7. (IF 1 <= n THEN n - 1 + 1 ELSE 0) = n
  BY <1>4
<1>8. n - 1 + 1 = n /\ \A i \in 1..n : 1 + i - 1 = i
  BY <1>4
<1>9. \A i \in 1..n : Front(s)[i] = s[i]
  BY <1>6, <1>8
<1>10. s[Len(s)] \in S
  BY <1>2
<1> QED
  BY <1>1, <1>3, <1>6, <1>7, <1>9, <1>10 DEF n

LEMMA Pushed ==
  ASSUME NEW S, NEW s \in Seq(S), NEW e \in S
  PROVE  /\ Append(s, e) \in Seq(S) /\ Len(Append(s, e)) = Len(s) + 1 /\ Len(s) \in Nat
         /\ \A i \in 1..Len(s) : Append(s, e)[i] = s[i]
         /\ Append(s, e)[Len(s) + 1] = e
OBVIOUS

-----------------------------------------------------------------------------
(* Each call preserves the stacks of scopes *)

LEMMA PlainKeepsScopes ==
  ASSUME IInv, NEW x \in Call, x.op \notin Scope \cup {"end"}, calls' = Append(calls, x),
         UNCHANGED <<andOrElemStack, matchStack, currentMatch>>
  PROVE  ScopeStacks'
<1>1. calls \in Seq(Call) /\ ScopeStacks
  BY DEF IInv, TypeOK
<1>2. Here' = Here + 1 /\ Here \in 1..Len(calls') /\ Here = Len(calls) + 1
  BY <1>1, Appended DEF Here
<1>3. Scopes(calls', Here') = Scopes(calls, Here) /\ Parent(calls', Here') = Parent(calls, Here)
  BY <1>1, <1>2, PlainStep
<1>4. Depth(calls', Here') = Depth(calls, Here)
  BY <1>1, <1>2, DepthStep
<1>5. ASSUME NEW j \in Scopes(calls, Here)
      PROVE  /\ calls'[j] = calls[j] /\ Depth(calls', j) = Depth(calls, j)
             /\ NodeOf(calls', Parent(calls', j)) = NodeOf(calls, Parent(calls, j))
  <2>1. j \in 1..Len(calls)
    BY <1>1, ScopesType
  <2> QED
    BY <1>1, <2>1, Earlier
<1>6. NodeOf(calls', Parent(calls, Here)) = NodeOf(calls, Parent(calls, Here))
  BY <1>1, <1>2, ParentType, NodeCallsKept
<1> QED
  BY <1>1, <1>3, <1>4, <1>5, <1>6 DEF ScopeStacks

LEMMA OpenKeepsScopes ==
  ASSUME IInv, NEW x \in Call, x.op \in Scope, calls' = Append(calls, x),
         andOrElemStack' = Append(andOrElemStack, x.op),
         matchStack' = Append(matchStack, currentMatch),
         currentMatch' = Len(nodes) + 1
  PROVE  ScopeStacks'
<1>1. calls \in Seq(Call) /\ ScopeStacks /\ andOrElemStack \in Seq(Scope)
      /\ matchStack \in Seq(0..Len(nodes)) /\ currentMatch \in 0..Len(nodes)
  BY DEF IInv, TypeOK
<1>2. Here' = Here + 1 /\ Here \in 1..Len(calls') /\ Here = Len(calls) + 1 /\ Here \in Nat
      /\ calls' \in Seq(Call) /\ Here' \in 1..(Len(calls') + 1) /\ calls'[Here] = x
      /\ Here \in 1..(Len(calls) + 1)
  BY <1>1, Appended DEF Here
<1>3. Innermost(calls', Here', Here) /\ Scopes(calls', Here') = Scopes(calls, Here) \cup {Here}
  BY <1>1, <1>2, OpenStep
<1>4. Depth(calls', Here') = Depth(calls, Here) + 1 /\ Depth(calls', Here) = Depth(calls, Here)
  BY <1>1, <1>2, DepthStep, DepthKept
<1>5. ASSUME NEW j \in Scopes(calls, Here)
      PROVE  /\ calls'[j] = calls[j] /\ Depth(calls', j) = Depth(calls, j)
             /\ NodeOf(calls', Parent(calls', j)) = NodeOf(calls, Parent(calls, j))
  <2>1. j \in 1..Len(calls)
    BY <1>1, ScopesType
  <2> QED
    BY <1>1, <2>1, Earlier
<1>6. NodeOf(calls', Parent(calls', Here)) = NodeOf(calls, Parent(calls, Here))
  <2>1. Parent(calls', Here) = Parent(calls, Here)
    BY <1>1, <1>2, ParentKept
  <2>2. Parent(calls, Here) \in 0..Len(calls)
    BY <1>1, <1>2, ParentType
  <2> QED
    BY <1>1, <2>1, <2>2, NodeCallsKept
<1>7. Depth(calls, Here) \in Nat /\ Len(andOrElemStack) = Depth(calls, Here)
      /\ Len(matchStack) = Depth(calls, Here)
  BY <1>1 DEF ScopeStacks
<1>8. /\ Len(andOrElemStack') = Depth(calls, Here) + 1
      /\ \A i \in 1..Depth(calls, Here) : andOrElemStack'[i] = andOrElemStack[i]
      /\ andOrElemStack'[Depth(calls, Here) + 1] = x.op
  BY <1>1, <1>7, Pushed
<1>9. /\ Len(matchStack') = Depth(calls, Here) + 1
      /\ \A i \in 1..Depth(calls, Here) : matchStack'[i] = matchStack[i]
      /\ matchStack'[Depth(calls, Here) + 1] = currentMatch
  BY <1>1, <1>7, Pushed
<1>10. ASSUME NEW j \in Scopes(calls', Here')
       PROVE  /\ Depth(calls', j) + 1 \in 1..Depth(calls', Here')
              /\ andOrElemStack'[Depth(calls', j) + 1] = calls'[j].op
              /\ matchStack'[Depth(calls', j) + 1] = NodeOf(calls', Parent(calls', j))
  <2>1. CASE j = Here
    BY <1>1, <1>2, <1>4, <1>6, <1>7, <1>8, <1>9, <2>1 DEF ScopeStacks
  <2>2. CASE j \in Scopes(calls, Here)
    <3>1. /\ Depth(calls, j) + 1 \in 1..Depth(calls, Here)
          /\ andOrElemStack[Depth(calls, j) + 1] = calls[j].op
          /\ matchStack[Depth(calls, j) + 1] = NodeOf(calls, Parent(calls, j))
      BY <1>1, <2>2 DEF ScopeStacks
    <3>2. /\ Depth(calls', j) = Depth(calls, j) /\ calls'[j] = calls[j]
          /\ NodeOf(calls', Parent(calls', j)) = NodeOf(calls, Parent(calls, j))
      BY <1>5, <2>2
    <3>3. andOrElemStack'[Depth(calls, j) + 1] = andOrElemStack[Depth(calls, j) + 1]
          /\ matchStack'[Depth(calls, j) + 1] = matchStack[Depth(calls, j) + 1]
      BY <1>8, <1>9, <3>1
    <3>4. Depth(calls, j) + 1 \in 1..(Depth(calls, Here) + 1)
      BY <1>7, <3>1
    <3> QED
      BY <1>4, <3>1, <3>2, <3>3, <3>4
  <2> QED
    BY <1>3, <2>1, <2>2
<1>11. ASSUME NEW m \in 1..Depth(calls', Here')
       PROVE  \E j \in Scopes(calls', Here') : Depth(calls', j) + 1 = m
  <2>1. CASE m \in 1..Depth(calls, Here)
    <3>1. PICK j \in Scopes(calls, Here) : Depth(calls, j) + 1 = m
      BY <1>1, <2>1 DEF ScopeStacks
    <3> QED
      BY <1>3, <1>5, <3>1
  <2>2. CASE m = Depth(calls, Here) + 1
    BY <1>3, <1>4, <2>2
  <2> QED
    BY <1>4, <1>7, <2>1, <2>2
<1>12. currentMatch' = NodeOf(calls', Parent(calls', Here'))
  <2>1. Parent(calls', Here') = Here
    BY <1>2, <1>3, InnermostScope
  <2>2. NodeOf(calls', Here) = Cardinality(NodeCalls(calls)) + 1
    BY <1>1, <1>2, NodeCallsKept
  <2> QED
    BY <2>1, <2>2 DEF IInv, TreeIsParse
<1> QED
  BY <1>4, <1>8, <1>9, <1>10, <1>11, <1>12 DEF ScopeStacks

\* What dna(), ro() and mele() close is the innermost scope.
LEMMA CloseIsInnermost ==
  ASSUME IInv, andOrElemStack # <<>>
  PROVE  \E j : /\ Innermost(calls, Here, j) /\ j \in 1..Len(calls)
                /\ calls[j].op = Last(andOrElemStack)
                /\ Last(matchStack) = NodeOf(calls, Parent(calls, j))
                /\ matchStack # <<>>
                /\ Depth(calls, j) = Depth(calls, Here) - 1
                /\ Depth(calls, Here) \in Nat \ {0}
<1>1. calls \in Seq(Call) /\ ScopeStacks /\ andOrElemStack \in Seq(Scope)
      /\ matchStack \in Seq(0..Len(nodes))
  BY DEF IInv, TypeOK
<1>2. Len(andOrElemStack) \in Nat \ {0} /\ Last(andOrElemStack) = andOrElemStack[Len(andOrElemStack)]
  BY <1>1, Popped
<1>3. Depth(calls, Here) \in Nat \ {0} /\ Last(andOrElemStack) = andOrElemStack[Depth(calls, Here)]
      /\ Len(matchStack) = Depth(calls, Here)
  BY <1>1, <1>2 DEF ScopeStacks
<1>4. matchStack # <<>> /\ Last(matchStack) = matchStack[Depth(calls, Here)]
  <2>1. matchStack # <<>>
    BY <1>1, <1>3
  <2> QED
    BY <1>1, <1>3, <2>1, Popped
<1>5. PICK j \in Scopes(calls, Here) : Depth(calls, j) + 1 = Depth(calls, Here)
  BY <1>1, <1>3 DEF ScopeStacks
<1>6. Depth(calls, j) \in Int
  BY <1>1, DepthType
<1>7. Depth(calls, j) = Depth(calls, Here) - 1
  BY <1>3, <1>5, <1>6
<1>8. andOrElemStack[Depth(calls, Here)] = calls[j].op
      /\ matchStack[Depth(calls, Here)] = NodeOf(calls, Parent(calls, j))
  BY <1>1, <1>5 DEF ScopeStacks
<1>9. j \in 1..Len(calls)
  BY <1>1, ScopesType
<1> QED
  BY <1>3, <1>4, <1>5, <1>7, <1>8, <1>9 DEF Innermost

LEMMA CloseKeepsScopes ==
  ASSUME IInv, NEW x \in Call, x.op = "end", calls' = Append(calls, x),
         andOrElemStack # <<>>, andOrElemStack' = Front(andOrElemStack),
         matchStack' = Front(matchStack), currentMatch' = Last(matchStack)
  PROVE  ScopeStacks'
<1>1. calls \in Seq(Call) /\ ScopeStacks /\ andOrElemStack \in Seq(Scope)
      /\ matchStack \in Seq(0..Len(nodes))
  BY DEF IInv, TypeOK
<1>2. Here' = Here + 1 /\ Here = Len(calls) + 1 /\ Here \in 1..(Len(calls) + 1)
  BY <1>1, Appended DEF Here
<1>3. PICK j : /\ Innermost(calls, Here, j) /\ j \in 1..Len(calls)
               /\ Last(matchStack) = NodeOf(calls, Parent(calls, j))
               /\ matchStack # <<>>
               /\ Depth(calls, j) = Depth(calls, Here) - 1
               /\ Depth(calls, Here) \in Nat \ {0}
  BY CloseIsInnermost
<1>4. Scopes(calls', Here') = Scopes(calls, j) /\ Parent(calls', Here') = Parent(calls, j)
  BY <1>1, <1>2, <1>3, CloseStep
<1>5. Depth(calls', Here') = Depth(calls, Here) - 1
  BY <1>1, <1>2, DepthStep
<1>6. Scopes(calls, Here) = Scopes(calls, j) \cup {j}
  BY <1>1, <1>2, <1>3, InnermostScope
<1>7. ASSUME NEW k \in Scopes(calls, j)
      PROVE  /\ k \in Scopes(calls, Here)
             /\ calls'[k] = calls[k] /\ Depth(calls', k) = Depth(calls, k)
             /\ NodeOf(calls', Parent(calls', k)) = NodeOf(calls, Parent(calls, k))
             /\ Depth(calls, k) < Depth(calls, j) /\ Depth(calls, k) \in Int
  <2>1. k \in 1..Len(calls)
    BY <1>1, ScopesType
  <2>2. Depth(calls, k) \in Int /\ Depth(calls, j) \in Int
    BY <1>1, DepthType
  <2>3. Depth(calls, j) > Depth(calls, k)
    <3>1. j \in 1..(Len(calls) + 1)
      BY <1>1, <1>3
    <3> QED
      BY <1>1, <3>1, OuterScopes
  <2> QED
    BY <1>1, <1>6, <2>1, <2>2, <2>3, Earlier
<1>8. /\ Len(andOrElemStack') = Depth(calls, Here) - 1
      /\ \A i \in 1..(Depth(calls, Here) - 1) : andOrElemStack'[i] = andOrElemStack[i]
  BY <1>1, Popped DEF ScopeStacks
<1>9. /\ Len(matchStack') = Depth(calls, Here) - 1
      /\ \A i \in 1..(Depth(calls, Here) - 1) : matchStack'[i] = matchStack[i]
  BY <1>1, <1>3, Popped DEF ScopeStacks
<1>10. ASSUME NEW k \in Scopes(calls', Here')
       PROVE  /\ Depth(calls', k) + 1 \in 1..Depth(calls', Here')
              /\ andOrElemStack'[Depth(calls', k) + 1] = calls'[k].op
              /\ matchStack'[Depth(calls', k) + 1] = NodeOf(calls', Parent(calls', k))
  <2>1. k \in Scopes(calls, j)
    BY <1>4
  <2>2. /\ Depth(calls, k) + 1 \in 1..Depth(calls, Here)
        /\ andOrElemStack[Depth(calls, k) + 1] = calls[k].op
        /\ matchStack[Depth(calls, k) + 1] = NodeOf(calls, Parent(calls, k))
    BY <1>1, <1>7, <2>1 DEF ScopeStacks
  <2>3. Depth(calls, k) + 1 \in 1..(Depth(calls, Here) - 1)
    BY <1>3, <1>7, <2>1, <2>2
  <2> QED
    BY <1>5, <1>7, <1>8, <1>9, <2>1, <2>2, <2>3
<1>11. ASSUME NEW m \in 1..Depth(calls', Here')
       PROVE  \E k \in Scopes(calls', Here') : Depth(calls', k) + 1 = m
  <2>1. m \in 1..Depth(calls, Here) /\ m < Depth(calls, Here)
    BY <1>3, <1>5
  <2>2. PICK k \in Scopes(calls, Here) : Depth(calls, k) + 1 = m
    BY <1>1, <2>1 DEF ScopeStacks
  <2>3. k # j
    BY <1>3, <2>1, <2>2
  <2> QED
    BY <1>4, <1>6, <1>7, <2>2, <2>3
<1>12. NodeOf(calls', Parent(calls, j)) = NodeOf(calls, Parent(calls, j))
  BY <1>1, <1>3, Earlier
<1> QED
  BY <1>3, <1>4, <1>5, <1>8, <1>9, <1>10, <1>11, <1>12 DEF ScopeStacks

-----------------------------------------------------------------------------
(* Each call preserves the stack of paths *)

\* A call that leaves the element it is in as it was.
LEMMA SameElement ==
  ASSUME IInv, NEW x \in Call, calls' = Append(calls, x), whereStack' = whereStack,
         Elements(calls', Here') = Elements(calls, Here)
  PROVE  /\ Len(whereStack') = Cardinality(Elements(calls', Here'))
         /\ \A j \in Elements(calls', Here') :
              whereStack'[Cardinality(Elements(calls', j)) + 1] = WhereOf(calls', j)
<1>1. calls \in Seq(Call) /\ WhereStack
  BY DEF IInv, TypeOK
<1>2. ASSUME NEW j \in Elements(calls, Here)
      PROVE  Elements(calls', j) = Elements(calls, j) /\ WhereOf(calls', j) = WhereOf(calls, j)
  <2>1. j \in 1..Len(calls)
    BY <1>1, ScopesType
  <2> QED
    BY <1>1, <2>1, Earlier
<1> QED
  BY <1>1, <1>2 DEF WhereStack

LEMMA PlainKeepsWheres ==
  ASSUME IInv, NEW x \in Call, x.op \notin Scope \cup {"end", "where"},
         calls' = Append(calls, x), UNCHANGED <<currentWhere, whereStack>>
  PROVE  WhereStack'
<1>1. calls \in Seq(Call) /\ WhereStack
  BY DEF IInv, TypeOK
<1>2. Here = Len(calls) + 1 /\ Here' = Here + 1 /\ Here' = Len(calls) + 2
  BY <1>1, Appended DEF Here
<1>3. Elements(calls', Here') = Elements(calls, Here) /\ Element(calls', Here') = Element(calls, Here)
  BY <1>1, <1>2, PlainStep
<1>4. WhereOf(calls', Here') = WhereOf(calls, Here)
  BY <1>1, <1>2, <1>3, WhereSame
<1> QED
  BY <1>1, <1>3, <1>4, SameElement DEF WhereStack

LEMMA WhereKeepsWheres ==
  ASSUME IInv, NEW x \in Call, x.op = "where",
         calls' = Append(calls, x), currentWhere' = x.arg, whereStack' = whereStack
  PROVE  WhereStack'
<1>1. calls \in Seq(Call) /\ x.op \notin Scope \cup {"end"}
  BY DEF IInv, TypeOK, Scope
<1>2. Here = Len(calls) + 1 /\ Here' = Here + 1 /\ Here' = Len(calls) + 2
  BY <1>1, Appended DEF Here
<1>3. Elements(calls', Here') = Elements(calls, Here)
  BY <1>1, <1>2, PlainStep
<1>4. WhereOf(calls', Here') = x.arg
  BY <1>1, <1>2, WhereStep
<1> QED
  BY <1>3, <1>4, SameElement DEF WhereStack

LEMMA OpenKeepsWheres ==
  ASSUME IInv, NEW x \in Call, x.op \in {"and", "or"},
         calls' = Append(calls, x), UNCHANGED <<currentWhere, whereStack>>
  PROVE  WhereStack'
<1>1. calls \in Seq(Call) /\ WhereStack /\ x.op \in Scope
  BY DEF IInv, TypeOK, Scope
<1>2. /\ Here = Len(calls) + 1 /\ Here' = Here + 1 /\ Here' = Len(calls) + 2
      /\ Here \in 1..(Len(calls) + 1) /\ Here' \in 1..(Len(calls') + 1)
      /\ calls' \in Seq(Call) /\ calls'[Here] = x
  BY <1>1, Appended DEF Here
<1>3. Elements(calls', Here') = Elements(calls, Here) /\ Element(calls', Here') = Element(calls, Here)
  BY <1>1, <1>2, OpenStep
<1>6. WhereOf(calls', Here') = WhereOf(calls, Here)
  BY <1>1, <1>2, <1>3, WhereSame
<1> QED
  BY <1>1, <1>3, <1>6, SameElement DEF WhereStack

\* An element has fewer elements around it than what it holds.
LEMMA ElementsAround ==
  ASSUME NEW c \in Seq(Call), NEW i \in 1..(Len(c) + 1), NEW j \in Elements(c, i)
  PROVE  /\ Cardinality(Elements(c, j)) \in Nat /\ Cardinality(Elements(c, i)) \in Nat
         /\ Cardinality(Elements(c, j)) + 1 \in 1..Cardinality(Elements(c, i))
<1>1. j \in Scopes(c, i) /\ c[j].op = "elem"
  BY DEF Elements
<1>2. j \notin Scopes(c, j) /\ Scopes(c, j) \subseteq Scopes(c, i)
  BY <1>1, OuterScopes
<1>3. Elements(c, j) \cup {j} \subseteq Elements(c, i) /\ j \notin Elements(c, j)
  BY <1>2 DEF Elements
<1>4. IsFiniteSet(Elements(c, i)) /\ Cardinality(Elements(c, i)) \in Nat
      /\ IsFiniteSet(Elements(c, j)) /\ Cardinality(Elements(c, j)) \in Nat
  <2>1. Elements(c, i) \subseteq DOMAIN c /\ Elements(c, j) \subseteq DOMAIN c
    BY ScopesType, Appended
  <2> QED
    BY <2>1, SubsetOfChain
<1>5. Cardinality(Elements(c, j) \cup {j}) = Cardinality(Elements(c, j)) + 1
  BY <1>3, <1>4, FS_AddElement
<1>6. Cardinality(Elements(c, j) \cup {j}) <= Cardinality(Elements(c, i))
  BY <1>3, <1>4, FS_Subset
<1> QED
  BY <1>4, <1>5, <1>6

LEMMA ElemKeepsWheres ==
  ASSUME IInv, NEW x \in Call, x.op = "elem", calls' = Append(calls, x),
         currentWhere # None, currentWhere' = <<>>,
         whereStack' = Append(whereStack, currentWhere)
  PROVE  WhereStack'
<1>1. calls \in Seq(Call) /\ WhereStack /\ x.op \in Scope /\ whereStack \in Seq(Path)
      /\ currentWhere \in Path
  BY DEF IInv, TypeOK, Scope
<1>2. /\ Here = Len(calls) + 1 /\ Here' = Here + 1 /\ Here' = Len(calls) + 2
      /\ Here \in 1..(Len(calls) + 1) /\ Here' \in 1..(Len(calls') + 1)
      /\ calls' \in Seq(Call) /\ calls'[Here] = x
  BY <1>1, Appended DEF Here
<1>4. Elements(calls', Here) = Elements(calls, Here) /\ WhereOf(calls', Here) = WhereOf(calls, Here)
  BY <1>1, <1>2, ScopesKept, WhereKept
<1>5. Elements(calls', Here') = Elements(calls, Here) \cup {Here}
  BY <1>1, <1>2, OpenStep
<1> DEFINE m == Cardinality(Elements(calls, Here))
<1>6. Elements(calls, Here) \subseteq DOMAIN calls /\ Here \notin Elements(calls, Here)
  BY <1>1, <1>2, ScopesType, Appended
<1>7. m \in Nat /\ Cardinality(Elements(calls', Here')) = m + 1
  BY <1>1, <1>5, <1>6, SubsetOfChain, FS_AddElement
<1>8. /\ Len(whereStack) = m
      /\ \A j \in Elements(calls, Here) :
           whereStack[Cardinality(Elements(calls, j)) + 1] = WhereOf(calls, j)
      /\ currentWhere = WhereOf(calls, Here)
  BY <1>1 DEF WhereStack
<1> HIDE DEF m
<1>9. /\ Len(whereStack') = m + 1 /\ whereStack'[m + 1] = currentWhere
      /\ \A i \in 1..m : whereStack'[i] = whereStack[i]
  BY <1>1, <1>8, Pushed
<1>10. ASSUME NEW j \in Elements(calls', Here')
       PROVE  whereStack'[Cardinality(Elements(calls', j)) + 1] = WhereOf(calls', j)
  <2>1. CASE j = Here
    BY <1>4, <1>8, <1>9, <2>1 DEF m
  <2>2. CASE j \in Elements(calls, Here)
    <3>1. j \in 1..Len(calls)
      BY <1>6, <2>2, <1>1, Appended
    <3>2. Elements(calls', j) = Elements(calls, j) /\ WhereOf(calls', j) = WhereOf(calls, j)
      BY <1>1, <3>1, Earlier
    <3>3. Cardinality(Elements(calls, j)) + 1 \in 1..m
      BY <1>1, <1>2, <2>2, ElementsAround DEF m
    <3> QED
      BY <1>8, <1>9, <2>2, <3>2, <3>3
  <2> QED
    BY <1>5, <2>1, <2>2
<1>11. WhereOf(calls', Here') = <<>>
  BY <1>1, <1>2, ElementWhere
<1> QED
  BY <1>7, <1>9, <1>10, <1>11 DEF WhereStack

LEMMA CloseKeepsWheres ==
  ASSUME IInv, NEW x \in Call, x.op = "end", calls' = Append(calls, x),
         andOrElemStack # <<>>,
         IF Last(andOrElemStack) = "elem"
         THEN currentWhere' = Last(whereStack) /\ whereStack' = Front(whereStack)
         ELSE UNCHANGED <<currentWhere, whereStack>>
  PROVE  WhereStack'
<1>1. calls \in Seq(Call) /\ WhereStack /\ whereStack \in Seq(Path)
  BY DEF IInv, TypeOK
<1>2. /\ Here = Len(calls) + 1 /\ Here' = Here + 1 /\ Here' = Len(calls) + 2
      /\ Here \in 1..(Len(calls) + 1)
  BY <1>1, Appended DEF Here
<1>3. PICK j : /\ Innermost(calls, Here, j) /\ j \in 1..Len(calls)
               /\ calls[j].op = Last(andOrElemStack)
  BY CloseIsInnermost
<1>4. Elements(calls', Here') = Elements(calls, j) /\ Element(calls', Here') = Element(calls, j)
  BY <1>1, <1>2, <1>3, CloseStep
<1>5. CASE calls[j].op # "elem"
  <2>1. Elements(calls, Here) = Elements(calls, j) /\ Element(calls, Here) = Element(calls, j)
    BY <1>1, <1>2, <1>3, <1>5, InnermostScope
  <2>2. WhereOf(calls', Here') = WhereOf(calls, Here)
    BY <1>1, <1>2, <1>4, <2>1, WhereSame
  <2>3. Elements(calls', Here') = Elements(calls, Here)
    BY <1>4, <2>1
  <2>4. UNCHANGED <<currentWhere, whereStack>>
    BY <1>3, <1>5
  <2> QED
    BY <1>1, <2>2, <2>3, <2>4, SameElement DEF WhereStack
<1>6. CASE calls[j].op = "elem"
  <2>1. Elements(calls, Here) = Elements(calls, j) \cup {j} /\ j \in Elements(calls, Here)
    BY <1>1, <1>2, <1>3, <1>6, InnermostScope
  <2> DEFINE m == Cardinality(Elements(calls, j))
  <2>2. m \in Nat /\ Cardinality(Elements(calls, Here)) = m + 1
    <3>1. Elements(calls, j) \subseteq DOMAIN calls /\ j \notin Elements(calls, j)
      BY <1>1, <1>3, ScopesType, Appended
    <3> QED
      BY <1>1, <2>1, <3>1, SubsetOfChain, FS_AddElement
  <2>3. Len(whereStack) = m + 1 /\ whereStack[m + 1] = WhereOf(calls, j)
        /\ \A k \in Elements(calls, Here) :
              whereStack[Cardinality(Elements(calls, k)) + 1] = WhereOf(calls, k)
    BY <1>1, <2>1, <2>2 DEF WhereStack
  <2> HIDE DEF m
  <2>4. whereStack # <<>>
    BY <1>1, <2>2, <2>3
  <2>5. currentWhere' = Last(whereStack) /\ whereStack' = Front(whereStack)
    BY <1>3, <1>6
  <2>6. Len(whereStack') = m /\ currentWhere' = WhereOf(calls, j)
        /\ \A i \in 1..m : whereStack'[i] = whereStack[i]
    <3>1. Len(whereStack') = Len(whereStack) - 1 /\ currentWhere' = whereStack[Len(whereStack)]
          /\ \A i \in 1..(Len(whereStack) - 1) : whereStack'[i] = whereStack[i]
      BY <1>1, <2>4, <2>5, Popped
    <3>2. Len(whereStack) - 1 = m
      BY <2>2, <2>3
    <3> QED
      BY <2>3, <3>1, <3>2
  <2>7. ASSUME NEW k \in Elements(calls, j)
        PROVE  whereStack'[Cardinality(Elements(calls', k)) + 1] = WhereOf(calls', k)
    <3>1. k \in 1..Len(calls)
      BY <1>1, ScopesType
    <3>2. Elements(calls', k) = Elements(calls, k) /\ WhereOf(calls', k) = WhereOf(calls, k)
      BY <1>1, <3>1, Earlier
    <3>3. Cardinality(Elements(calls, k)) + 1 \in 1..m
      <4>1. j \in 1..(Len(calls) + 1)
        BY <1>1, <1>3
      <4> QED
        BY <1>1, <4>1, ElementsAround DEF m
    <3> QED
      BY <2>1, <2>3, <2>6, <3>2, <3>3
  <2>8. WhereOf(calls', Here') = WhereOf(calls, j)
    BY <1>1, <1>2, <1>3, <1>6, ElementClosed
  <2> QED
    BY <1>4, <2>6, <2>7, <2>8 DEF WhereStack, m
<1> QED
  BY <1>5, <1>6

-----------------------------------------------------------------------------
(* The tree, the headers and exec *)

\* Nodes are numbered by the calls that make them.
LEMMA NodeOfRange ==
  ASSUME NEW c \in Seq(Call), NEW i \in NodeCalls(c)
  PROVE  NodeOf(c, i) \in 1..Cardinality(NodeCalls(c)) /\ Cardinality(NodeCalls(c)) \in Nat
<1> DEFINE upTo == {j \in NodeCalls(c) : j <= i}
<1>1. NodeCalls(c) \subseteq DOMAIN c /\ i \in upTo /\ upTo \subseteq NodeCalls(c)
  BY Appended DEF NodeCalls
<1>2. IsFiniteSet(NodeCalls(c)) /\ Cardinality(NodeCalls(c)) \in Nat
  BY <1>1, SubsetOfChain
<1>3. IsFiniteSet(upTo) /\ Cardinality(upTo) \in Nat /\ Cardinality(upTo) <= Cardinality(NodeCalls(c))
  BY <1>1, <1>2, FS_Subset, FS_CardinalityType
<1>4. Cardinality(upTo) # 0
  BY <1>1, <1>3, FS_EmptySet
<1>5. Cardinality(upTo) \in 1..Cardinality(NodeCalls(c))
  <2> HIDE DEF upTo
  <2> QED
    BY <1>2, <1>3, <1>4
<1> QED
  BY <1>2, <1>5 DEF NodeOf

\* A call that makes a node makes the one it spells, and the others keep theirs.
LEMMA PushKeepsTree ==
  ASSUME IInv, NEW x \in Call, x.op \in Scope \cup {"leaf"}, calls' = Append(calls, x),
         x.op \in {"leaf", "elem"} => currentWhere # None,
         NEW node, nodes' = Append(nodes, node),
         node = [op     |-> IF x.op = "leaf" THEN x.arg.op ELSE x.op,
                 param  |-> IF x.op \in {"leaf", "elem"} THEN currentWhere ELSE <<>>,
                 value  |-> IF x.op = "leaf" THEN x.arg.value ELSE None,
                 parent |-> currentMatch]
  PROVE  TreeIsParse'
<1>1. calls \in Seq(Call) /\ TreeIsParse /\ Len(nodes) = Cardinality(NodeCalls(calls))
      /\ currentMatch = NodeOf(calls, Parent(calls, Here))
      /\ (currentWhere # None => currentWhere = WhereOf(calls, Here))
  BY DEF IInv, TypeOK, TreeIsParse, ScopeStacks, WhereStack
<1>2. \E S : nodes \in Seq(S)
  BY DEF IInv, TypeOK
<1>3. /\ Here = Len(calls) + 1 /\ Here \in Nat /\ Here \in 1..(Len(calls) + 1) /\ calls'[Here] = x
  BY <1>1, Appended DEF Here
<1>4. /\ NodeCalls(calls') = NodeCalls(calls) \cup {Here}
      /\ NodeCalls(calls) \subseteq 1..Len(calls)
      /\ NodeOf(calls', Here) = Len(nodes) + 1
      /\ Cardinality(NodeCalls(calls')) = Len(nodes) + 1
  BY <1>1, <1>3, NodeCallsKept
<1>5. Len(nodes') = Len(nodes) + 1 /\ nodes'[Len(nodes) + 1] = node
      /\ \A k \in 1..Len(nodes) : nodes'[k] = nodes[k]
  BY <1>2
<1>6. ASSUME NEW i \in NodeCalls(calls)
      PROVE  nodes'[NodeOf(calls', i)] = Spelled(calls', i)
  <2>1. NodeOf(calls', i) = NodeOf(calls, i) /\ Spelled(calls', i) = Spelled(calls, i)
    BY <1>1, <1>4, Earlier
  <2>2. NodeOf(calls, i) \in 1..Len(nodes)
    BY <1>1, NodeOfRange
  <2> QED
    BY <1>1, <1>5, <2>1, <2>2 DEF TreeIsParse
<1>7. node = Spelled(calls', Here)
  <2>1. WhereOf(calls', Here) = WhereOf(calls, Here) /\ Parent(calls', Here) = Parent(calls, Here)
    BY <1>1, <1>3, WhereKept, ParentKept
  <2>2. Parent(calls, Here) \in 0..Len(calls)
    BY <1>1, <1>3, ParentType
  <2>3. NodeOf(calls', Parent(calls', Here)) = currentMatch
    BY <1>1, <2>1, <2>2, NodeCallsKept
  <2> QED
    BY <1>1, <1>3, <2>1, <2>3 DEF Spelled
<1> QED
  BY <1>4, <1>5, <1>6, <1>7 DEF TreeIsParse

LEMMA OtherKeepsTree ==
  ASSUME IInv, NEW x \in Call, x.op \notin Scope \cup {"leaf"}, calls' = Append(calls, x),
         nodes' = nodes
  PROVE  TreeIsParse'
<1>1. calls \in Seq(Call) /\ TreeIsParse
  BY DEF IInv, TypeOK
<1>2. NodeCalls(calls') = NodeCalls(calls) /\ NodeCalls(calls) \subseteq 1..Len(calls)
  BY <1>1, NodeCallsKept
<1>3. \A i \in NodeCalls(calls) : NodeOf(calls', i) = NodeOf(calls, i)
                                  /\ Spelled(calls', i) = Spelled(calls, i)
  BY <1>1, <1>2, Earlier
<1> QED
  BY <1>1, <1>2, <1>3 DEF TreeIsParse

\* The last call of a kind.
LEMMA LastCallStep ==
  ASSUME NEW c \in Seq(Call), NEW x \in Call, NEW op
  PROVE  /\ x.op = op => LastCall(Append(c, x), op) = Len(c) + 1
         /\ x.op # op => LastCall(Append(c, x), op) = LastCall(c, op)
         /\ LastCall(c, op) # 0 => Append(c, x)[LastCall(c, op)] = c[LastCall(c, op)]
         /\ LastCall(c, op) # 0 => LastCall(c, op) \in 1..Len(c) /\ c[LastCall(c, op)].op = op
<1> DEFINE d == Append(c, x)
           S == {i \in DOMAIN c : c[i].op = op}
           T == {i \in DOMAIN d : d[i].op = op}
<1>1. /\ Len(c) \in Nat /\ S \subseteq 1..Len(c) /\ T \subseteq 1..(Len(c) + 1)
      /\ x.op # op => T = S
      /\ x.op = op => Len(c) + 1 \in T
  BY Appended
<1>2. LastCall(c, op) = Max({0} \cup S) /\ LastCall(d, op) = Max({0} \cup T)
  BY DEF LastCall
<1>3. LastCall(c, op) \in {0} \cup S
  <2>1. {0} \cup S \subseteq 0..Len(c)
    BY <1>1
  <2> HIDE DEF S
  <2> QED
    BY <1>1, <1>2, <2>1, MaxOf
<1>4. x.op = op => LastCall(d, op) = Len(c) + 1
  <2>1. {0} \cup T \subseteq Nat /\ \A k \in {0} \cup T : k <= Len(c) + 1
    BY <1>1
  <2> HIDE DEF T
  <2> QED
    BY <1>1, <1>2, <2>1, MaxIs
<1>5. \A i \in S : d[i] = c[i] /\ c[i].op = op
  BY Appended
<1> QED
  BY <1>1, <1>2, <1>3, <1>4, <1>5

LEMMA CallKeepsHeaders ==
  ASSUME IInv, NEW x \in Call, calls' = Append(calls, x),
         ids' = IF x.op = "ids" THEN x.arg ELSE ids,
         owner' = IF x.op = "owner" THEN x.arg ELSE owner
  PROVE  Headers'
<1>1. calls \in Seq(Call) /\ Headers /\ calls'[Len(calls) + 1] = x /\ Len(calls) + 1 # 0
  <2>1. calls \in Seq(Call) /\ Headers
    BY DEF IInv, TypeOK
  <2> QED
    BY <2>1, Appended
<1>2. ids' = IF LastCall(calls', "ids") = 0 THEN None ELSE calls'[LastCall(calls', "ids")].arg
  BY <1>1, LastCallStep DEF Headers
<1>3. owner' = IF LastCall(calls', "owner") = 0 THEN None ELSE calls'[LastCall(calls', "owner")].arg
  BY <1>1, LastCallStep DEF Headers
<1> QED
  BY <1>2, <1>3 DEF Headers

LEMMA CallKeepsExecuted ==
  ASSUME IInv, NEW x \in Call, calls' = Append(calls, x), UNCHANGED <<pending, asked>>
  PROVE  Executed'
<1>1. calls \in Seq(Call) /\ Executed /\ pending.at \in Nat /\ asked.at \in Nat
  BY DEF IInv, TypeOK
<1>2. Len(calls') = Len(calls) + 1 /\ Len(calls) \in Nat
  BY <1>1, Appended
<1>3. /\ pending.kind # "none" => pending.at <= Len(calls)
      /\ asked.kind # "none" => asked.at <= Len(calls)
  BY <1>1 DEF Executed
<1>4. /\ pending.kind # "none" => pending.at <= Len(calls') /\ pending.at # Len(calls')
      /\ asked.kind # "none" => asked.at <= Len(calls') /\ asked.at # Len(calls')
  BY <1>1, <1>2, <1>3
<1> QED
  BY <1>4 DEF Executed

-----------------------------------------------------------------------------
(* Each action preserves the invariant *)

\* What the actions append is a call.
LEMMA CallTypes ==
  /\ \A S \in IdList : [op |-> "ids", arg |-> S] \in Call
  /\ \A o \in Owner : [op |-> "owner", arg |-> o] \in Call
  /\ \A p \in Param : [op |-> "where", arg |-> p] \in Call
  /\ \A op \in Scope : [op |-> op, arg |-> None] \in Call
  /\ \A op \in Scope : [op |-> "end", arg |-> op] \in Call
  /\ \A l \in Leaf : [op |-> "leaf", arg |-> l] \in Call
BY QueryAssumption DEF Call

LEMMA InitIInv == Init => IInv
<1> SUFFICES ASSUME Init PROVE IInv
  OBVIOUS
<1>1. calls = <<>> /\ calls \in Seq(Call) /\ Here = 1 /\ Len(calls) = 0 /\ DOMAIN calls = {}
  BY DEF Init, Here
<1>2. TypeOK
  <2>1. \A S : <<>> \in Seq(S)
    OBVIOUS
  <2>2. pending \in [kind : {"none", "find", "lookup"}, ids : SUBSET Id, at : Nat]
    BY DEF Init, NoQuery
  <2>3. asked \in [kind : {"none", "find", "lookup"}, ids : {None} \cup SUBSET Id,
                   owner : Owner \cup {None}, nodes : Seq(Node), at : Nat]
    BY <2>1 DEF Init, NoAsk
  <2> QED
    BY <2>1, <2>2, <2>3 DEF Init, TypeOK
<1>3. OpenCalls(calls) = {} /\ EndCalls(calls) = {} /\ NodeCalls(calls) = {}
  BY <1>1 DEF OpenCalls, EndCalls, NodeCalls
<1>4. Scopes(calls, Here) = {} /\ Elements(calls, Here) = {}
  BY <1>3 DEF Scopes, Elements
<1>5. Cardinality({}) = 0
  BY FS_EmptySet
<1>6. Depth(calls, Here) = 0
  <2>1. {j \in OpenCalls(calls) : j < Here} = {} /\ {j \in EndCalls(calls) : j < Here} = {}
    BY <1>3
  <2> QED
    BY <1>5, <2>1 DEF Depth
<1>7. \A i : NodeOf(calls, i) = 0
  <2>1. \A i : {j \in NodeCalls(calls) : j <= i} = {}
    BY <1>3
  <2> QED
    BY <1>5, <2>1 DEF NodeOf
<1>8. ScopeStacks
  BY <1>4, <1>6, <1>7 DEF Init, ScopeStacks
<1>9. WhereStack
  BY <1>4, <1>5 DEF Init, WhereStack
<1>10. Headers
  <2>1. \A op : LastCall(calls, op) = 0
    <3>1. \A op : {i \in DOMAIN calls : calls[i].op = op} = {}
      BY <1>1
    <3>2. Max({0} \cup {}) = 0
      BY MaxIs
    <3> QED
      BY <3>1, <3>2 DEF LastCall
  <2> QED
    BY <2>1 DEF Init, Headers
<1>11. Executed
  BY DEF Init, NoQuery, NoAsk, Executed
<1>12. TreeIsParse
  BY <1>3, <1>5 DEF Init, TreeIsParse
<1> QED
  BY <1>2, <1>8, <1>9, <1>10, <1>11, <1>12 DEF IInv

LEMMA SetTypeKeeps ==
  ASSUME IInv, NEW kind \in {"type", "types"}, SetType(kind)
  PROVE  IInv'
<1> USE DEF SetType, chain
<1>1. TypeOK'
  BY DEF IInv, TypeOK
<1>2. ScopeStacks' /\ WhereStack'
  BY DEF IInv, ScopeStacks, WhereStack, Here
<1>3. Headers' /\ Executed' /\ TreeIsParse'
  BY DEF IInv, Headers, Executed, TreeIsParse
<1> QED
  BY <1>1, <1>2, <1>3 DEF IInv

LEMMA SetIdsKeeps ==
  ASSUME IInv, NEW S \in IdList, SetIds(S)
  PROVE  IInv'
<1> DEFINE x == [op |-> "ids", arg |-> S]
<1>1. /\ x \in Call /\ x.op = "ids" /\ x.arg = S /\ calls' = Append(calls, x) /\ ids' = S
      /\ UNCHANGED <<type, owner, nodes, currentMatch, matchStack, andOrElemStack,
                     currentWhere, whereStack, pending, asked>>
  BY CallTypes DEF SetIds, Called, chain
<1> HIDE DEF x
<1>2. x.op \notin Scope \cup {"end", "where", "leaf"}
  BY <1>1 DEF Scope
<1>3. TypeOK'
  <2>1. calls' \in Seq(Call)
    BY <1>1, Appended DEF IInv, TypeOK
  <2> QED
    BY <1>1, <2>1, QueryAssumption DEF IInv, TypeOK
<1>4. ScopeStacks' /\ WhereStack' /\ TreeIsParse'
  BY <1>1, <1>2, PlainKeepsScopes, PlainKeepsWheres, OtherKeepsTree
<1>5. Headers' /\ Executed'
  BY <1>1, CallKeepsHeaders, CallKeepsExecuted
<1> QED
  BY <1>3, <1>4, <1>5 DEF IInv

LEMMA SetOwnerKeeps ==
  ASSUME IInv, NEW o \in Owner, SetOwner(o)
  PROVE  IInv'
<1> DEFINE x == [op |-> "owner", arg |-> o]
<1>1. /\ x \in Call /\ x.op = "owner" /\ x.arg = o /\ calls' = Append(calls, x) /\ owner' = o
      /\ UNCHANGED <<type, ids, nodes, currentMatch, matchStack, andOrElemStack,
                     currentWhere, whereStack, pending, asked>>
  BY CallTypes DEF SetOwner, Called, chain
<1> HIDE DEF x
<1>2. x.op \notin Scope \cup {"end", "where", "leaf"}
  BY <1>1 DEF Scope
<1>3. TypeOK'
  <2>1. calls' \in Seq(Call)
    BY <1>1, Appended DEF IInv, TypeOK
  <2> QED
    BY <1>1, <2>1 DEF IInv, TypeOK
<1>4. ScopeStacks' /\ WhereStack' /\ TreeIsParse'
  BY <1>1, <1>2, PlainKeepsScopes, PlainKeepsWheres, OtherKeepsTree
<1>5. Headers' /\ Executed'
  BY <1>1, CallKeepsHeaders, CallKeepsExecuted
<1> QED
  BY <1>3, <1>4, <1>5 DEF IInv

LEMMA WhereKeeps ==
  ASSUME IInv, NEW p \in Param, Where(p)
  PROVE  IInv'
<1> DEFINE x == [op |-> "where", arg |-> p]
<1>1. /\ x \in Call /\ x.op = "where" /\ x.arg = p /\ calls' = Append(calls, x)
      /\ currentWhere' = p
      /\ UNCHANGED <<type, ids, owner, nodes, currentMatch, matchStack, andOrElemStack,
                     whereStack, pending, asked>>
  BY CallTypes DEF Where, Called
<1> HIDE DEF x
<1>2. x.op \notin Scope \cup {"end", "leaf"}
  BY <1>1 DEF Scope
<1>3. TypeOK'
  <2>1. calls' \in Seq(Call)
    BY <1>1, Appended DEF IInv, TypeOK
  <2> QED
    BY <1>1, <2>1 DEF IInv, TypeOK, Path
<1>4. ScopeStacks' /\ WhereStack' /\ TreeIsParse'
  BY <1>1, <1>2, PlainKeepsScopes, WhereKeepsWheres, OtherKeepsTree
<1>5. Headers' /\ Executed'
  BY <1>1, CallKeepsHeaders, CallKeepsExecuted
<1> QED
  BY <1>3, <1>4, <1>5 DEF IInv

\* A node pushed onto the current list.
LEMMA PushType ==
  ASSUME TypeOK, NEW node \in Node, node.parent = currentMatch, nodes' = Append(nodes, node)
  PROVE  /\ nodes' \in Seq(Node) /\ Len(nodes') = Len(nodes) + 1 /\ Len(nodes) \in Nat
         /\ \A n \in DOMAIN nodes' : nodes'[n].parent < n
         /\ matchStack \in Seq(0..Len(nodes')) /\ currentMatch \in 0..Len(nodes')
         /\ Append(matchStack, currentMatch) \in Seq(0..Len(nodes'))
<1>1. nodes \in Seq(Node) /\ currentMatch \in 0..Len(nodes) /\ matchStack \in Seq(0..Len(nodes))
      /\ \A n \in DOMAIN nodes : nodes[n].parent < n
  BY DEF TypeOK
<1>2. nodes' \in Seq(Node) /\ Len(nodes') = Len(nodes) + 1 /\ Len(nodes) \in Nat
      /\ nodes'[Len(nodes) + 1] = node /\ DOMAIN nodes' = 1..(Len(nodes) + 1)
      /\ DOMAIN nodes = 1..Len(nodes) /\ \A n \in DOMAIN nodes : nodes'[n] = nodes[n]
  BY <1>1
<1>3. \A n \in DOMAIN nodes' : nodes'[n].parent < n
  BY <1>1, <1>2
<1>4. currentMatch \in 0..Len(nodes')
  BY <1>1, <1>2
<1>5. matchStack \in Seq(0..Len(nodes'))
  <2>1. \A k \in 0..Len(nodes) : k \in 0..Len(nodes')
    BY <1>2
  <2> QED
    BY <1>1, <2>1
<1> QED
  BY <1>2, <1>3, <1>4, <1>5

LEMMA OpenKeeps ==
  ASSUME IInv, NEW op \in {"and", "or"}, Open(op)
  PROVE  IInv'
<1> DEFINE x == [op |-> op, arg |-> None]
           node == [op |-> op, param |-> <<>>, value |-> None, parent |-> currentMatch]
<1>1. TypeOK /\ op \in Scope
  BY DEF IInv, Scope
<1>2. /\ x \in Call /\ x.op = op /\ calls' = Append(calls, x) /\ nodes' = Append(nodes, node)
      /\ andOrElemStack' = Append(andOrElemStack, op)
      /\ matchStack' = Append(matchStack, currentMatch) /\ currentMatch' = Len(nodes')
      /\ UNCHANGED <<type, ids, owner, currentWhere, whereStack, pending, asked>>
  BY <1>1, CallTypes DEF Open, Called, Push
<1>3. node \in Node /\ node.parent = currentMatch
  <2>1. currentMatch \in Nat
    BY <1>1 DEF TypeOK
  <2> QED
    BY <1>1, <2>1 DEF Node, Path
<1>4. node = [op     |-> IF x.op = "leaf" THEN x.arg.op ELSE x.op,
              param  |-> IF x.op \in {"leaf", "elem"} THEN currentWhere ELSE <<>>,
              value  |-> IF x.op = "leaf" THEN x.arg.value ELSE None,
              parent |-> currentMatch]
  OBVIOUS
<1> HIDE DEF x, node
<1>5. /\ nodes' \in Seq(Node) /\ Len(nodes') = Len(nodes) + 1 /\ Len(nodes) \in Nat
      /\ \A n \in DOMAIN nodes' : nodes'[n].parent < n
      /\ matchStack' \in Seq(0..Len(nodes'))
  BY <1>1, <1>2, <1>3, PushType
<1>6. TypeOK'
  <2>1. calls' \in Seq(Call) /\ andOrElemStack' \in Seq(Scope)
    BY <1>1, <1>2, Appended DEF TypeOK
  <2>2. currentMatch' \in 0..Len(nodes')
    BY <1>2, <1>5
  <2> QED
    BY <1>1, <1>2, <1>5, <2>1, <2>2 DEF TypeOK
<1>7. ScopeStacks'
  BY <1>1, <1>2, <1>5, OpenKeepsScopes
<1>8. WhereStack'
  BY <1>2, OpenKeepsWheres
<1>9. TreeIsParse'
  <2>1. x.op \in Scope \cup {"leaf"} /\ x.op \notin {"leaf", "elem"}
    BY <1>1, <1>2
  <2> QED
    BY <1>2, <1>4, <2>1, PushKeepsTree
<1>10. Headers' /\ Executed'
  <2>1. x.op \notin {"ids", "owner"}
    BY <1>2
  <2> QED
    BY <1>2, <2>1, CallKeepsHeaders, CallKeepsExecuted
<1> QED
  BY <1>6, <1>7, <1>8, <1>9, <1>10 DEF IInv

LEMMA ElemKeeps ==
  ASSUME IInv, Elem
  PROVE  IInv'
<1> DEFINE x == [op |-> "elem", arg |-> None]
           node == [op |-> "elem", param |-> currentWhere, value |-> None, parent |-> currentMatch]
<1>1. TypeOK /\ "elem" \in Scope
  BY DEF IInv, Scope
<1>2. /\ x \in Call /\ x.op = "elem" /\ calls' = Append(calls, x) /\ nodes' = Append(nodes, node)
      /\ andOrElemStack' = Append(andOrElemStack, "elem")
      /\ matchStack' = Append(matchStack, currentMatch) /\ currentMatch' = Len(nodes')
      /\ currentWhere # None /\ whereStack' = Append(whereStack, currentWhere)
      /\ currentWhere' = <<>>
      /\ UNCHANGED <<type, ids, owner, pending, asked>>
  BY <1>1, CallTypes DEF Elem, CanCloneWhere, Called, Push
<1>3. node \in Node /\ node.parent = currentMatch
  <2>1. currentMatch \in Nat /\ currentWhere \in Path
    BY <1>1, <1>2 DEF TypeOK
  <2> QED
    BY <1>1, <2>1 DEF Node
<1>4. node = [op     |-> IF x.op = "leaf" THEN x.arg.op ELSE x.op,
              param  |-> IF x.op \in {"leaf", "elem"} THEN currentWhere ELSE <<>>,
              value  |-> IF x.op = "leaf" THEN x.arg.value ELSE None,
              parent |-> currentMatch]
  OBVIOUS
<1> HIDE DEF x, node
<1>5. /\ nodes' \in Seq(Node) /\ Len(nodes') = Len(nodes) + 1 /\ Len(nodes) \in Nat
      /\ \A n \in DOMAIN nodes' : nodes'[n].parent < n
      /\ matchStack' \in Seq(0..Len(nodes'))
  BY <1>1, <1>2, <1>3, PushType
<1>6. TypeOK'
  <2>1. calls' \in Seq(Call) /\ andOrElemStack' \in Seq(Scope)
    BY <1>1, <1>2, Appended DEF TypeOK
  <2>2. currentMatch' \in 0..Len(nodes')
    BY <1>2, <1>5
  <2>3. currentWhere' \in {None} \cup Path /\ whereStack' \in Seq(Path)
    BY <1>1, <1>2 DEF TypeOK, Path
  <2> QED
    BY <1>1, <1>2, <1>5, <2>1, <2>2, <2>3 DEF TypeOK
<1>7. ScopeStacks'
  BY <1>1, <1>2, <1>5, OpenKeepsScopes
<1>8. WhereStack'
  BY <1>2, ElemKeepsWheres
<1>9. TreeIsParse'
  <2>1. x.op \in Scope \cup {"leaf"}
    BY <1>1, <1>2
  <2> QED
    BY <1>2, <1>4, <2>1, PushKeepsTree
<1>10. Headers' /\ Executed'
  <2>1. x.op \notin {"ids", "owner"}
    BY <1>2
  <2> QED
    BY <1>2, <2>1, CallKeepsHeaders, CallKeepsExecuted
<1> QED
  BY <1>6, <1>7, <1>8, <1>9, <1>10 DEF IInv

LEMMA CloseKeeps ==
  ASSUME IInv, NEW op \in Scope, Close(op)
  PROVE  IInv'
<1> DEFINE x == [op |-> "end", arg |-> op]
<1>1. TypeOK
  BY DEF IInv
<1>2. /\ x \in Call /\ x.op = "end" /\ calls' = Append(calls, x)
      /\ andOrElemStack # <<>> /\ Last(andOrElemStack) = op
      /\ andOrElemStack' = Front(andOrElemStack)
      /\ matchStack' = Front(matchStack) /\ currentMatch' = Last(matchStack)
      /\ UNCHANGED <<type, ids, owner, nodes, pending, asked>>
  BY CallTypes DEF Close, Called
<1>3. IF Last(andOrElemStack) = "elem"
      THEN currentWhere' = Last(whereStack) /\ whereStack' = Front(whereStack)
      ELSE UNCHANGED <<currentWhere, whereStack>>
  BY <1>2 DEF Close
<1> HIDE DEF x
<1>4. x.op \notin Scope \cup {"leaf", "ids", "owner"}
  BY <1>2 DEF Scope
<1>5. matchStack # <<>> /\ (Last(andOrElemStack) = "elem" => whereStack # <<>>)
  <2>1. PICK j : /\ Innermost(calls, Here, j) /\ matchStack # <<>>
                 /\ calls[j].op = Last(andOrElemStack)
    BY <1>2, CloseIsInnermost
  <2>2. ASSUME calls[j].op = "elem"
        PROVE  whereStack # <<>>
    <3>1. calls \in Seq(Call) /\ Here \in 1..(Len(calls) + 1) /\ j \in Elements(calls, Here)
      BY <1>1, <2>1, <2>2, Appended DEF TypeOK, Here, Innermost, Elements
    <3>2. Cardinality(Elements(calls, Here)) # 0
      BY <3>1, ElementsAround
    <3>3. Len(whereStack) # 0
      BY <3>2 DEF IInv, WhereStack
    <3> QED
      BY <3>3
  <2> QED
    BY <2>1, <2>2
<1>6. TypeOK'
  <2>1. calls' \in Seq(Call) /\ andOrElemStack' \in Seq(Scope)
    BY <1>1, <1>2, Appended, Popped DEF TypeOK
  <2>2. currentMatch' \in 0..Len(nodes') /\ matchStack' \in Seq(0..Len(nodes'))
    <3>1. matchStack \in Seq(0..Len(nodes)) /\ matchStack # <<>>
      BY <1>1, <1>5 DEF TypeOK
    <3>2. Front(matchStack) \in Seq(0..Len(nodes)) /\ Last(matchStack) \in 0..Len(nodes)
      BY <3>1, Popped
    <3> QED
      BY <1>2, <3>2
  <2>3. currentWhere' \in {None} \cup Path /\ whereStack' \in Seq(Path)
    <3>1. CASE Last(andOrElemStack) = "elem"
      <4>1. whereStack \in Seq(Path) /\ whereStack # <<>>
        BY <1>1, <1>5, <3>1 DEF TypeOK
      <4>2. Front(whereStack) \in Seq(Path) /\ Last(whereStack) \in Path
        BY <4>1, Popped
      <4> QED
        BY <1>3, <3>1, <4>2
    <3>2. CASE Last(andOrElemStack) # "elem"
      BY <1>1, <1>3, <3>2 DEF TypeOK
    <3> QED
      BY <3>1, <3>2
  <2> QED
    BY <1>1, <1>2, <2>1, <2>2, <2>3 DEF TypeOK
<1>7. ScopeStacks' /\ WhereStack' /\ TreeIsParse'
  BY <1>2, <1>3, <1>4, CloseKeepsScopes, CloseKeepsWheres, OtherKeepsTree
<1>8. Headers' /\ Executed'
  BY <1>2, <1>4, CallKeepsHeaders, CallKeepsExecuted
<1> QED
  BY <1>6, <1>7, <1>8 DEF IInv

LEMMA AddLeafKeeps ==
  ASSUME IInv, NEW leaf \in Leaf, AddLeaf(leaf)
  PROVE  IInv'
<1> DEFINE x == [op |-> "leaf", arg |-> leaf]
           node == [op |-> leaf.op, param |-> currentWhere, value |-> leaf.value,
                    parent |-> currentMatch]
<1>1. TypeOK
  BY DEF IInv
<1>2. /\ x \in Call /\ x.op = "leaf" /\ x.arg = leaf
      /\ calls' = Append(calls, x) /\ nodes' = Append(nodes, node)
      /\ currentWhere # None
      /\ UNCHANGED <<type, ids, owner, currentMatch, matchStack, andOrElemStack, currentWhere,
                     whereStack, pending, asked>>
  BY <1>1, CallTypes DEF AddLeaf, CanCloneWhere, Called, Push
<1>3. node \in Node /\ node.parent = currentMatch
  <2>1. currentMatch \in Nat /\ currentWhere \in Path
    BY <1>1, <1>2 DEF TypeOK
  <2> QED
    BY <1>1, <2>1 DEF Node
<1>4. node = [op     |-> IF x.op = "leaf" THEN x.arg.op ELSE x.op,
              param  |-> IF x.op \in {"leaf", "elem"} THEN currentWhere ELSE <<>>,
              value  |-> IF x.op = "leaf" THEN x.arg.value ELSE None,
              parent |-> currentMatch]
  OBVIOUS
<1> HIDE DEF x, node
<1>5. /\ nodes' \in Seq(Node) /\ \A n \in DOMAIN nodes' : nodes'[n].parent < n
      /\ matchStack' \in Seq(0..Len(nodes')) /\ currentMatch' \in 0..Len(nodes')
  BY <1>1, <1>2, <1>3, PushType
<1>6. x.op \notin Scope \cup {"end", "where", "ids", "owner"} /\ x.op \in Scope \cup {"leaf"}
  BY <1>2 DEF Scope
<1>7. TypeOK'
  <2>1. calls' \in Seq(Call)
    BY <1>1, <1>2, Appended DEF TypeOK
  <2> QED
    BY <1>1, <1>2, <1>5, <2>1 DEF TypeOK
<1>8. ScopeStacks' /\ WhereStack'
  BY <1>2, <1>6, PlainKeepsScopes, PlainKeepsWheres
<1>9. TreeIsParse'
  BY <1>2, <1>4, <1>6, PushKeepsTree
<1>10. Headers' /\ Executed'
  BY <1>2, <1>6, CallKeepsHeaders, CallKeepsExecuted
<1> QED
  BY <1>7, <1>8, <1>9, <1>10 DEF IInv

LEMMA ExecKeeps ==
  ASSUME IInv, Exec
  PROVE  IInv'
<1>1. TypeOK /\ Len(calls) \in Nat /\ asked.kind = "none" /\ pending.kind = "none" /\ ids # {}
      /\ UNCHANGED <<type, ids, owner, nodes, currentMatch, matchStack, andOrElemStack,
                     currentWhere, whereStack, calls, asked>>
  BY DEF IInv, TypeOK, Exec, chain
<1>2. pending' = IF ids = None THEN [kind |-> "find", ids |-> {}, at |-> Len(calls)]
                 ELSE [kind |-> "lookup", ids |-> ids, at |-> Len(calls)]
  BY DEF Exec
<1>3. TypeOK'
  <2>1. pending' \in [kind : {"none", "find", "lookup"}, ids : SUBSET Id, at : Nat]
    BY <1>1, <1>2 DEF TypeOK
  <2> QED
    BY <1>1, <2>1 DEF TypeOK
<1>4. ScopeStacks' /\ WhereStack'
  BY <1>1 DEF IInv, ScopeStacks, WhereStack, Here
<1>5. Headers' /\ TreeIsParse'
  BY <1>1 DEF IInv, Headers, TreeIsParse
<1>6. Executed'
  <2>1. CASE ids = None
    BY <1>1, <1>2, <2>1 DEF Executed
  <2>2. CASE ids # None
    BY <1>1, <1>2, <2>2 DEF Executed
  <2> QED
    BY <2>1, <2>2
<1> QED
  BY <1>3, <1>4, <1>5, <1>6 DEF IInv

LEMMA SendKeeps ==
  ASSUME IInv, Send
  PROVE  IInv'
<1>1. TypeOK /\ Len(calls) \in Nat /\ pending.kind # "none" /\ pending' = NoQuery
      /\ UNCHANGED <<type, ids, owner, nodes, currentMatch, matchStack, andOrElemStack,
                     currentWhere, whereStack, calls>>
  BY DEF IInv, TypeOK, Send, chain
<1>2. pending.kind \in {"find", "lookup"} /\ pending.ids \in SUBSET Id /\ pending.at \in Nat
  BY <1>1 DEF TypeOK
<1>3. Executed
  BY DEF IInv
<1>4. ASSUME pending.kind = "find"
      PROVE  Executed' /\ asked' \in [kind : {"none", "find", "lookup"}, ids : {None} \cup SUBSET Id,
                                      owner : Owner \cup {None}, nodes : Seq(Node), at : Nat]
  <2>1. asked' = [kind |-> "find", ids |-> ids, owner |-> owner, nodes |-> nodes,
                  at |-> pending.at]
    BY <1>4 DEF Send
  <2>2. pending'.kind = "none" /\ asked'.at = pending.at /\ asked'.ids = ids
        /\ asked'.owner = owner /\ asked'.nodes = nodes
    BY <1>1, <2>1 DEF NoQuery
  <2>3. pending.at <= Len(calls) /\ (pending.at = Len(calls) => ids = None)
    BY <1>3, <1>4 DEF Executed
  <2>4. Executed'
    BY <1>1, <2>2, <2>3 DEF Executed
  <2> QED
    BY <1>1, <1>2, <2>1, <2>4 DEF TypeOK
<1>5. ASSUME pending.kind = "lookup"
      PROVE  Executed' /\ asked' \in [kind : {"none", "find", "lookup"}, ids : {None} \cup SUBSET Id,
                                      owner : Owner \cup {None}, nodes : Seq(Node), at : Nat]
  <2>1. asked' = [kind |-> "lookup", ids |-> pending.ids, owner |-> None, nodes |-> <<>>,
                  at |-> pending.at]
    BY <1>5 DEF Send, NoAsk
  <2>2. pending'.kind = "none" /\ asked'.at = pending.at /\ asked'.ids = pending.ids
        /\ asked'.owner = None /\ asked'.nodes = <<>>
    BY <1>1, <2>1 DEF NoQuery
  <2>3. pending.at <= Len(calls)
        /\ (pending.at = Len(calls) => pending.ids = ids /\ ids # {} /\ ids # None)
    BY <1>3, <1>5 DEF Executed
  <2>4. Executed'
    BY <1>1, <2>2, <2>3 DEF Executed
  <2>5. <<>> \in Seq(Node)
    OBVIOUS
  <2> QED
    BY <1>1, <1>2, <2>1, <2>4, <2>5 DEF TypeOK
<1>6. ScopeStacks' /\ WhereStack'
  BY <1>1 DEF IInv, ScopeStacks, WhereStack, Here
<1>7. Headers' /\ TreeIsParse'
  BY <1>1 DEF IInv, Headers, TreeIsParse
<1>8. TypeOK'
  <2>1. pending' \in [kind : {"none", "find", "lookup"}, ids : SUBSET Id, at : Nat]
    BY <1>1 DEF NoQuery
  <2> QED
    BY <1>1, <1>2, <1>4, <1>5, <2>1 DEF TypeOK
<1> QED
  BY <1>2, <1>4, <1>5, <1>6, <1>7, <1>8 DEF IInv

LEMMA NextIInv == IInv /\ [Next]_vars => IInv'
<1> SUFFICES ASSUME IInv, [Next]_vars
             PROVE  IInv'
  OBVIOUS
<1>1. ASSUME NEW kind \in {"type", "types"}, SetType(kind)
      PROVE  IInv'
  BY <1>1, SetTypeKeeps
<1>2. ASSUME NEW S \in IdList, SetIds(S)
      PROVE  IInv'
  BY <1>2, SetIdsKeeps
<1>3. ASSUME NEW o \in Owner, SetOwner(o)
      PROVE  IInv'
  BY <1>3, SetOwnerKeeps
<1>4. ASSUME NEW p \in Param, Where(p)
      PROVE  IInv'
  BY <1>4, WhereKeeps
<1>5. CASE And \/ Or
  BY <1>5, OpenKeeps DEF And, Or
<1>6. CASE Dna \/ Ro \/ Mele
  <2>1. {"and", "or", "elem"} \subseteq Scope
    BY DEF Scope
  <2> QED
    BY <1>6, <2>1, CloseKeeps DEF Dna, Ro, Mele
<1>7. CASE Elem
  BY <1>7, ElemKeeps
<1>8. ASSUME NEW leaf \in Leaf, FieldLeaf(leaf) \/ ListLeaf(leaf)
      PROVE  IInv'
  BY <1>8, AddLeafKeeps DEF FieldLeaf, ListLeaf
<1>9. CASE Exec
  BY <1>9, ExecKeeps
<1>10. CASE Send
  BY <1>10, SendKeeps
<1>11. CASE UNCHANGED vars
  <2>1. UNCHANGED <<type, ids, owner, nodes, currentMatch, matchStack, andOrElemStack,
                    currentWhere, whereStack, calls, pending, asked>>
    BY <1>11 DEF vars, chain
  <2>2. TypeOK'
    BY <2>1 DEF IInv, TypeOK
  <2>3. ScopeStacks' /\ WhereStack'
    BY <2>1 DEF IInv, ScopeStacks, WhereStack, Here
  <2>4. Headers' /\ TreeIsParse' /\ Executed'
    BY <2>1 DEF IInv, Headers, TreeIsParse, Executed
  <2> QED
    BY <2>2, <2>3, <2>4 DEF IInv
<1> QED
  BY <1>1, <1>2, <1>3, <1>4, <1>5, <1>6, <1>7, <1>8, <1>9, <1>10, <1>11 DEF Next

\* The stacks, the pointers and the headers say where the chain is, whatever
\* calls made it and however long it is.
THEOREM QueryInvariant == Spec => []IInv
BY InitIInv, NextIInv, PTL DEF Spec

\* The state of a query, and what it asks, stays of its type.
THEOREM QueryTypeOK == Spec => []TypeOK
<1>1. IInv => TypeOK
  BY DEF IInv
<1> QED
  BY <1>1, QueryInvariant, PTL

\* The tree that and(), or(), elem() and their ends build is the one the chain
\* spells, for chains of any length, any paths and conditions.
THEOREM QueryTreeIsParse == Spec => []TreeIsParse
<1>1. IInv => TreeIsParse
  BY DEF IInv
<1> QED
  BY <1>1, QueryInvariant, PTL

-----------------------------------------------------------------------------
(* The nodes of a tree and the calls that made them *)

LEMMA NodeOfStep ==
  ASSUME NEW c \in Seq(Call)
  PROVE  /\ NodeOf(c, 0) = 0
         /\ \A i \in Nat : NodeOf(c, i) \in Nat
         /\ \A i \in Nat \ {0} :
              NodeOf(c, i) = IF i \in NodeCalls(c) THEN NodeOf(c, i - 1) + 1 ELSE NodeOf(c, i - 1)
<1> DEFINE upTo(i) == {j \in NodeCalls(c) : j <= i}
<1>1. NodeCalls(c) \subseteq 1..Len(c) /\ NodeCalls(c) \subseteq DOMAIN c /\ Len(c) \in Nat
  BY Appended DEF NodeCalls
<1>2. \A i : IsFiniteSet(upTo(i)) /\ Cardinality(upTo(i)) \in Nat
  BY <1>1, SubsetOfChain
<1>3. upTo(0) = {}
  BY <1>1
<1>4. ASSUME NEW i \in Nat \ {0}
      PROVE  upTo(i) = (IF i \in NodeCalls(c) THEN upTo(i - 1) \cup {i} ELSE upTo(i - 1))
             /\ i \notin upTo(i - 1)
  <2>1. \A j \in NodeCalls(c) : j \in Nat /\ (j <= i <=> j <= i - 1 \/ j = i)
    BY <1>1
  <2>2. ~(i <= i - 1)
    OBVIOUS
  <2> QED
    BY <2>1, <2>2
<1>5. \A i \in Nat : NodeOf(c, i) = Cardinality(upTo(i))
  BY DEF NodeOf
<1> HIDE DEF upTo
<1>6. ASSUME NEW i \in Nat \ {0}
      PROVE  NodeOf(c, i) = IF i \in NodeCalls(c) THEN NodeOf(c, i - 1) + 1 ELSE NodeOf(c, i - 1)
  <2>1. i - 1 \in Nat /\ i \in Nat
    OBVIOUS
  <2>2. NodeOf(c, i) = Cardinality(upTo(i)) /\ NodeOf(c, i - 1) = Cardinality(upTo(i - 1))
    BY <1>5, <2>1
  <2>3. Cardinality(upTo(i - 1) \cup {i}) = Cardinality(upTo(i - 1)) + 1
    BY <1>2, <1>4, FS_AddElement
  <2> QED
    BY <1>4, <2>2, <2>3
<1> QED
  BY <1>2, <1>3, <1>5, <1>6, FS_EmptySet

LEMMA NodeOfOrder ==
  ASSUME NEW c \in Seq(Call), NEW i \in Nat, NEW j \in NodeCalls(c), i < j
  PROVE  NodeOf(c, i) < NodeOf(c, j)
<1> DEFINE before == {k \in NodeCalls(c) : k <= i}
           upTo == {k \in NodeCalls(c) : k <= j}
<1>1. NodeCalls(c) \subseteq 1..Len(c) /\ NodeCalls(c) \subseteq DOMAIN c /\ Len(c) \in Nat
  BY Appended DEF NodeCalls
<1>2. IsFiniteSet(before) /\ Cardinality(before) \in Nat
      /\ IsFiniteSet(upTo) /\ Cardinality(upTo) \in Nat
  BY <1>1, SubsetOfChain
<1>3. j \notin before /\ before \cup {j} \subseteq upTo
  BY <1>1
<1>4. NodeOf(c, i) = Cardinality(before) /\ NodeOf(c, j) = Cardinality(upTo)
  BY DEF NodeOf
<1> HIDE DEF before, upTo
<1>5. Cardinality(before \cup {j}) = Cardinality(before) + 1
  BY <1>2, <1>3, FS_AddElement
<1>6. Cardinality(before \cup {j}) <= Cardinality(upTo)
  BY <1>2, <1>3, FS_Subset
<1> QED
  BY <1>2, <1>4, <1>5, <1>6

\* Each node was made by a call, and by one only.
LEMMA NodeOfOnto ==
  ASSUME NEW c \in Seq(Call), NEW m \in 1..Cardinality(NodeCalls(c))
  PROVE  \E i \in NodeCalls(c) : NodeOf(c, i) = m
<1>1. NodeCalls(c) \subseteq 1..Len(c) /\ NodeCalls(c) \subseteq DOMAIN c /\ Len(c) \in Nat
  BY Appended DEF NodeCalls
<1>2. Cardinality(NodeCalls(c)) \in Nat /\ m \in Nat \ {0} /\ m <= Cardinality(NodeCalls(c))
  BY <1>1, SubsetOfChain
<1>3. NodeOf(c, Len(c)) = Cardinality(NodeCalls(c))
  <2>1. {j \in NodeCalls(c) : j <= Len(c)} = NodeCalls(c)
    BY <1>1
  <2> QED
    BY <2>1 DEF NodeOf
<1>4. NodeOf(c, 0) = 0 /\ \A i \in Nat : NodeOf(c, i) \in Nat
  BY NodeOfStep
<1> DEFINE S == {i \in Nat : NodeOf(c, i) >= m}
<1>5. PICK i \in S : \A k \in S : i <= k
  <2>1. S \subseteq Nat /\ Len(c) \in S
    BY <1>1, <1>2, <1>3
  <2> HIDE DEF S
  <2> QED
    BY <2>1, LeastNumber
<1>6. i \in Nat \ {0} /\ NodeOf(c, i) >= m
  BY <1>2, <1>4, <1>5
<1>7. i - 1 \in Nat /\ NodeOf(c, i - 1) \in Nat /\ ~ (NodeOf(c, i - 1) >= m)
  <2>1. i - 1 \in Nat /\ ~ (i <= i - 1)
    BY <1>6
  <2> QED
    BY <1>4, <1>5, <2>1
<1>8. NodeOf(c, i) = IF i \in NodeCalls(c) THEN NodeOf(c, i - 1) + 1 ELSE NodeOf(c, i - 1)
  BY <1>6, NodeOfStep
<1> QED
  BY <1>2, <1>6, <1>7, <1>8

LEMMA NodeOfInjective ==
  ASSUME NEW c \in Seq(Call), NEW i \in {0} \cup NodeCalls(c), NEW j \in {0} \cup NodeCalls(c),
         NodeOf(c, i) = NodeOf(c, j)
  PROVE  i = j
<1>1. NodeCalls(c) \subseteq 1..Len(c) /\ Len(c) \in Nat
  BY Appended DEF NodeCalls
<1>2. i \in Nat /\ j \in Nat /\ NodeOf(c, i) \in Nat /\ NodeOf(c, j) \in Nat
  BY <1>1, NodeOfStep
<1>3. ~ (i < j)
  BY <1>1, <1>2, NodeOfOrder
<1>4. ~ (j < i)
  BY <1>1, <1>2, NodeOfOrder
<1> QED
  BY <1>2, <1>3, <1>4

-----------------------------------------------------------------------------
(* What a tree and a chain say of a document *)

\* One step of MatchHolds, and one of Conditions.
NodeHolds(q, doc, holds, n) ==
  CASE q.nodes[n].op = "and" -> \A m \in Children(q, n) : holds[m]
    [] q.nodes[n].op = "or"  -> \E m \in Children(q, n) : holds[m]
    [] OTHER -> LeafHolds(doc.field[q.nodes[n].param], q.nodes[n].op, q.nodes[n].value)

Inside(c, i) == {j \in NodeCalls(c) : Parent(c, j) = i}

CallHolds(c, doc, holds, i) ==
  CASE c[i].op = "and" -> \A j \in Inside(c, i) : holds[j]
    [] c[i].op = "or"  -> \E j \in Inside(c, i) : holds[j]
    [] OTHER -> LeafHolds(doc.field[WhereOf(c, i)], c[i].arg.op, c[i].arg.value)

\* A recursive function is a solution of its equation as soon as there is one.
LEMMA MatchUnfolds ==
  ASSUME NEW q, NEW doc, NEW g, g = [n \in DOMAIN q.nodes |-> NodeHolds(q, doc, g, n)]
  PROVE  \E h : /\ h = [n \in DOMAIN q.nodes |-> NodeHolds(q, doc, h, n)]
                /\ MatchHolds(q, doc) <=> \A m \in Children(q, 0) : h[m]
BY Zenon DEF MatchHolds, NodeHolds

LEMMA ConditionsUnfold ==
  ASSUME NEW c, NEW doc, NEW g, g = [i \in NodeCalls(c) |-> CallHolds(c, doc, g, i)]
  PROVE  Conditions(c, doc) = [i \in NodeCalls(c) |-> CallHolds(c, doc, Conditions(c, doc), i)]
BY Zenon DEF Conditions, CallHolds, Inside

\* What a node, or a call, says depends on those inside it only.
LEMMA NodeHoldsLocal ==
  ASSUME NEW q, NEW doc, NEW g, NEW h, NEW n, \A m \in Children(q, n) : g[m] = h[m]
  PROVE  NodeHolds(q, doc, g, n) = NodeHolds(q, doc, h, n)
<1>1. (\A m \in Children(q, n) : g[m]) = (\A m \in Children(q, n) : h[m])
  OBVIOUS
<1>2. (\E m \in Children(q, n) : g[m]) = (\E m \in Children(q, n) : h[m])
  OBVIOUS
<1> QED
  BY <1>1, <1>2 DEF NodeHolds

LEMMA CallHoldsLocal ==
  ASSUME NEW c, NEW doc, NEW g, NEW h, NEW i, \A j \in Inside(c, i) : g[j] = h[j]
  PROVE  CallHolds(c, doc, g, i) = CallHolds(c, doc, h, i)
<1>1. (\A j \in Inside(c, i) : g[j]) = (\A j \in Inside(c, i) : h[j])
  OBVIOUS
<1>2. (\E j \in Inside(c, i) : g[j]) = (\E j \in Inside(c, i) : h[j])
  OBVIOUS
<1> QED
  BY <1>1, <1>2 DEF CallHolds

\* When the children of a node come after it, a tree says something: from the
\* last node backwards.
LEMMA MatchSolvable ==
  ASSUME NEW N \in Nat, NEW q, NEW doc, DOMAIN q.nodes = 1..N,
         \A n \in 1..N : \A m \in Children(q, n) : m \in 1..N /\ m > n
  PROVE  \E g : g = [n \in DOMAIN q.nodes |-> NodeHolds(q, doc, g, n)]
<1> DEFINE Solved(k, g) == g = [n \in k..N |-> NodeHolds(q, doc, g, n)]
           S == {k \in 1..(N + 1) : \E g : Solved(k, g)}
<1>1. N + 1 \in S
  <2> DEFINE g == [n \in (N + 1)..N |-> TRUE]
  <2>1. (N + 1)..N = {}
    OBVIOUS
  <2>2. Solved(N + 1, g)
    BY <2>1
  <2> QED
    BY <2>2
<1>2. PICK k \in S : \A l \in S : k <= l
  <2>1. S \subseteq Nat
    OBVIOUS
  <2> HIDE DEF S
  <2> QED
    BY <1>1, <2>1, LeastNumber
<1>3. PICK g : Solved(k, g)
  BY <1>2
<1>4. k \in 1..(N + 1)
  OBVIOUS
<1>5. CASE k = 1
  BY <1>3, <1>5
<1>6. CASE k # 1
  <2> DEFINE j == k - 1
             h == [n \in j..N |-> IF n = j THEN NodeHolds(q, doc, g, j) ELSE g[n]]
  <2>1. j \in 1..N /\ j + 1 = k /\ j < k
    BY <1>4, <1>6
  <2> HIDE DEF j
  <2>2. \A n \in j..N : h[n] = IF n = j THEN NodeHolds(q, doc, g, j) ELSE g[n]
    OBVIOUS
  <2>3. h = [n \in j..N |-> h[n]]
    OBVIOUS
  <2> HIDE DEF h
  <2>4. ASSUME NEW n \in j..N
        PROVE  h[n] = NodeHolds(q, doc, h, n)
    <3>1. n \in 1..N
      BY <2>1
    <3>2. \A m \in Children(q, n) : m \in j..N /\ m # j /\ m \in k..N
      BY <2>1, <3>1
    <3>3. \A m \in Children(q, n) : g[m] = h[m]
      BY <2>2, <3>2
    <3>4. NodeHolds(q, doc, g, n) = NodeHolds(q, doc, h, n)
      BY <3>3, NodeHoldsLocal
    <3>5. h[n] = NodeHolds(q, doc, g, n)
      <4>1. CASE n = j
        BY <2>2, <4>1
      <4>2. CASE n # j
        <5>1. n \in k..N
          BY <2>1, <4>2
        <5>2. g[n] = NodeHolds(q, doc, g, n)
          BY <1>3, <5>1
        <5> QED
          BY <2>2, <4>2, <5>2
      <4> QED
        BY <4>1, <4>2
    <3> QED
      BY <3>4, <3>5
  <2>5. Solved(j, h)
    <3>1. [n \in j..N |-> h[n]] = [n \in j..N |-> NodeHolds(q, doc, h, n)]
      BY <2>4
    <3> QED
      BY <2>3, <3>1
  <2>6. j \in S
    BY <2>1, <2>5
  <2> QED
    <3> HIDE DEF S
    <3> QED
      BY <1>2, <1>4, <2>1, <2>6
<1> QED
  BY <1>5, <1>6

\* The calls in a scope make the children of its node.
LEMMA ChildrenOfCall ==
  ASSUME IInv, NEW q, q.nodes = nodes, NEW i \in {0} \cup NodeCalls(calls)
  PROVE  /\ \A j \in Inside(calls, i) : NodeOf(calls, j) \in Children(q, NodeOf(calls, i))
         /\ \A m \in Children(q, NodeOf(calls, i)) :
              \E j \in Inside(calls, i) : NodeOf(calls, j) = m
         /\ \A j \in Inside(calls, i) : j > i
<1>1. /\ calls \in Seq(Call) /\ Len(nodes) = Cardinality(NodeCalls(calls))
      /\ \A j \in NodeCalls(calls) : nodes[NodeOf(calls, j)] = Spelled(calls, j)
  BY DEF IInv, TypeOK, TreeIsParse
<1>2. DOMAIN nodes = 1..Cardinality(NodeCalls(calls))
  <2>1. DOMAIN nodes = 1..Len(nodes)
    BY DEF IInv, TypeOK
  <2> QED
    BY <1>1, <2>1
<1>3. ASSUME NEW j \in NodeCalls(calls)
      PROVE  /\ nodes[NodeOf(calls, j)].parent = NodeOf(calls, Parent(calls, j))
             /\ NodeOf(calls, j) \in DOMAIN nodes
             /\ Parent(calls, j) \in {0} \cup NodeCalls(calls) /\ Parent(calls, j) < j
  <2>1. j \in Nat /\ j > 0
    BY <1>1, Appended DEF NodeCalls
  <2>2. Parent(calls, j) \in {0} \cup Scopes(calls, j) /\ Parent(calls, j) < j
    BY <1>1, <2>1, ParentType
  <2>3. Scopes(calls, j) \subseteq NodeCalls(calls)
    BY DEF Scopes, OpenCalls, NodeCalls
  <2>4. NodeOf(calls, j) \in DOMAIN nodes
    BY <1>1, <1>2, NodeOfRange
  <2>5. nodes[NodeOf(calls, j)].parent = NodeOf(calls, Parent(calls, j))
    <3>1. Spelled(calls, j).parent = NodeOf(calls, Parent(calls, j))
      BY DEF Spelled
    <3> QED
      BY <1>1, <3>1
  <2> QED
    BY <2>2, <2>3, <2>4, <2>5
<1>4. \A j \in Inside(calls, i) : NodeOf(calls, j) \in Children(q, NodeOf(calls, i)) /\ j > i
  <2>1. ASSUME NEW j \in Inside(calls, i)
        PROVE  NodeOf(calls, j) \in Children(q, NodeOf(calls, i)) /\ j > i
    <3>1. j \in NodeCalls(calls) /\ Parent(calls, j) = i
      BY DEF Inside
    <3> QED
      BY <1>1, <1>3, <3>1, Appended DEF Children, NodeCalls
  <2> QED
    BY <2>1
<1>5. ASSUME NEW m \in Children(q, NodeOf(calls, i))
      PROVE  \E j \in Inside(calls, i) : NodeOf(calls, j) = m
  <2>1. m \in DOMAIN nodes /\ nodes[m].parent = NodeOf(calls, i)
    BY DEF Children
  <2>2. PICK j \in NodeCalls(calls) : NodeOf(calls, j) = m
    BY <1>1, <1>2, <2>1, NodeOfOnto
  <2>3. NodeOf(calls, Parent(calls, j)) = NodeOf(calls, i)
    BY <1>3, <2>1, <2>2
  <2>4. Parent(calls, j) = i
    BY <1>1, <1>3, <2>3, NodeOfInjective
  <2> QED
    BY <2>2, <2>4 DEF Inside
<1> QED
  BY <1>4, <1>5

\* A chain without elements says of a document what its tree says.
LEMMA TreeSaysChain ==
  ASSUME IInv, NEW q, q.nodes = nodes, NEW doc,
         \A i \in OpenCalls(calls) : calls[i].op # "elem"
  PROVE  MatchHolds(q, doc)
           <=> \A i \in NodeCalls(calls) : Parent(calls, i) = 0 => Conditions(calls, doc)[i]
<1>1. /\ calls \in Seq(Call) /\ nodes \in Seq(Node)
      /\ \A n \in DOMAIN nodes : nodes[n].parent < n
      /\ \A i \in NodeCalls(calls) : nodes[NodeOf(calls, i)] = Spelled(calls, i)
  BY DEF IInv, TypeOK, TreeIsParse
<1>2. NodeCalls(calls) \subseteq 1..Len(calls) /\ Len(calls) \in Nat
  BY <1>1, Appended DEF NodeCalls
<1>3. PICK h : /\ h = [n \in DOMAIN q.nodes |-> NodeHolds(q, doc, h, n)]
               /\ MatchHolds(q, doc) <=> \A m \in Children(q, 0) : h[m]
  <2>1. Len(nodes) \in Nat /\ DOMAIN q.nodes = 1..Len(nodes)
    BY <1>1
  <2>2. ASSUME NEW n \in 1..Len(nodes), NEW m \in Children(q, n)
        PROVE  m \in 1..Len(nodes) /\ m > n
    <3>1. m \in DOMAIN nodes /\ nodes[m].parent = n
      BY DEF Children
    <3> QED
      BY <1>1, <2>1, <3>1
  <2>3. \E g : g = [n \in DOMAIN q.nodes |-> NodeHolds(q, doc, g, n)]
    BY <2>1, <2>2, MatchSolvable
  <2> QED
    BY <2>3, MatchUnfolds
\* The step of a call is the step of its node.
<1>4. ASSUME NEW holds, NEW i \in NodeCalls(calls),
             \A j \in Inside(calls, i) : holds[j] = h[NodeOf(calls, j)]
      PROVE  CallHolds(calls, doc, holds, i) = h[NodeOf(calls, i)]
  <2>1. NodeOf(calls, i) \in DOMAIN nodes
    <3>1. NodeOf(calls, i) \in 1..Len(nodes)
      BY <1>1, NodeOfRange DEF IInv, TreeIsParse
    <3> QED
      BY <1>1, <3>1
  <2>2. h[NodeOf(calls, i)] = NodeHolds(q, doc, h, NodeOf(calls, i))
    BY <1>3, <2>1
  <2>3. nodes[NodeOf(calls, i)] = Spelled(calls, i)
    BY <1>1
  <2>4. /\ \A j \in Inside(calls, i) : NodeOf(calls, j) \in Children(q, NodeOf(calls, i))
        /\ \A m \in Children(q, NodeOf(calls, i)) :
              \E j \in Inside(calls, i) : NodeOf(calls, j) = m
    BY ChildrenOfCall
  <2>5. CASE calls[i].op = "and"
    <3>1. nodes[NodeOf(calls, i)].op = "and"
      BY <2>3, <2>5 DEF Spelled
    <3>2. (\A j \in Inside(calls, i) : holds[j])
            = (\A m \in Children(q, NodeOf(calls, i)) : h[m])
      BY <1>4, <2>4
    <3> QED
      BY <2>2, <2>5, <3>1, <3>2 DEF NodeHolds, CallHolds
  <2>6. CASE calls[i].op = "or"
    <3>1. nodes[NodeOf(calls, i)].op = "or"
      BY <2>3, <2>6 DEF Spelled
    <3>2. (\E j \in Inside(calls, i) : holds[j])
            = (\E m \in Children(q, NodeOf(calls, i)) : h[m])
      BY <1>4, <2>4
    <3> QED
      BY <2>2, <2>6, <3>1, <3>2 DEF NodeHolds, CallHolds
  <2>7. CASE calls[i].op = "leaf"
    <3>1. calls[i] \in Call
      BY <1>1, <1>2
    <3>2. calls[i].arg \in Leaf
      BY <2>7, <3>1 DEF Call, Scope
    <3>3. calls[i].arg.op \notin Scope
      BY <3>2, QueryAssumption
    <3>4. /\ nodes[NodeOf(calls, i)].op = calls[i].arg.op
          /\ nodes[NodeOf(calls, i)].param = WhereOf(calls, i)
          /\ nodes[NodeOf(calls, i)].value = calls[i].arg.value
      BY <2>3, <2>7 DEF Spelled
    <3>5. nodes[NodeOf(calls, i)].op \notin {"and", "or"}
      BY <3>3, <3>4 DEF Scope
    <3> QED
      BY <2>2, <2>7, <3>4, <3>5 DEF NodeHolds, CallHolds
  <2>8. calls[i].op \in {"and", "or", "leaf"}
    BY DEF NodeCalls, OpenCalls, Scope
  <2> QED
    BY <2>5, <2>6, <2>7, <2>8
<1>5. Conditions(calls, doc) =
        [i \in NodeCalls(calls) |-> CallHolds(calls, doc, Conditions(calls, doc), i)]
  <2> DEFINE g == [i \in NodeCalls(calls) |-> h[NodeOf(calls, i)]]
  <2>1. ASSUME NEW i \in NodeCalls(calls)
        PROVE  CallHolds(calls, doc, g, i) = h[NodeOf(calls, i)]
    <3>1. \A j \in Inside(calls, i) : g[j] = h[NodeOf(calls, j)]
      BY DEF Inside
    <3> QED
      BY <1>4, <3>1
  <2>2. g = [i \in NodeCalls(calls) |-> CallHolds(calls, doc, g, i)]
    <3>1. [i \in NodeCalls(calls) |-> h[NodeOf(calls, i)]]
            = [i \in NodeCalls(calls) |-> CallHolds(calls, doc, g, i)]
      <4> HIDE DEF g
      <4> QED
        BY <2>1
    <3> QED
      BY <3>1
  <2> HIDE DEF g
  <2> QED
    BY <2>2, ConditionsUnfold
<1>6. ASSUME NEW i \in NodeCalls(calls)
      PROVE  Conditions(calls, doc)[i] = h[NodeOf(calls, i)]
  <2> DEFINE S == {j \in NodeCalls(calls) : Conditions(calls, doc)[j] # h[NodeOf(calls, j)]}
  <2>1. ASSUME S # {}
        PROVE  FALSE
    <3>1. PICK j \in S : \A k \in S : k <= j
      <4>1. S \subseteq 0..Len(calls)
        BY <1>2
      <4> HIDE DEF S
      <4> QED
        BY <1>2, <2>1, <4>1, GreatestNumber
    <3>2. j \in NodeCalls(calls) /\ Conditions(calls, doc)[j] # h[NodeOf(calls, j)]
      OBVIOUS
    <3>3. ASSUME NEW k \in Inside(calls, j)
          PROVE  Conditions(calls, doc)[k] = h[NodeOf(calls, k)]
      <4>1. k \in NodeCalls(calls) /\ k > j
        BY <3>2, ChildrenOfCall DEF Inside
      <4>2. ~ (k <= j)
        BY <1>2, <3>2, <4>1
      <4> QED
        BY <3>1, <4>1, <4>2
    <3>4. CallHolds(calls, doc, Conditions(calls, doc), j) = h[NodeOf(calls, j)]
      BY <1>4, <3>2, <3>3
    <3>5. Conditions(calls, doc)[j] = CallHolds(calls, doc, Conditions(calls, doc), j)
      BY <1>5, <3>2
    <3> QED
      BY <3>2, <3>4, <3>5
  <2> QED
    BY <2>1
<1>7. NodeOf(calls, 0) = 0
  BY <1>1, NodeOfStep
<1>8. /\ \A j \in Inside(calls, 0) : NodeOf(calls, j) \in Children(q, 0)
      /\ \A m \in Children(q, 0) : \E j \in Inside(calls, 0) : NodeOf(calls, j) = m
  BY <1>7, ChildrenOfCall
<1>9. (\A m \in Children(q, 0) : h[m]) <=> \A j \in Inside(calls, 0) : h[NodeOf(calls, j)]
  BY <1>8
<1> QED
  BY <1>3, <1>6, <1>9 DEF Inside

LEMMA IInvAskedIsMeant == IInv => AskedIsMeant
<1> SUFFICES ASSUME IInv, asked.kind # "none", asked.at = Len(calls),
                    \A i \in OpenCalls(calls) : calls[i].op # "elem",
                    NEW doc \in Document
             PROVE  Selects(asked, doc) <=> Meant(calls, doc)
  BY DEF AskedIsMeant
<1>1. calls \in Seq(Call) /\ Headers
      /\ \/ /\ ids = None /\ asked.ids = None /\ asked.owner = owner /\ asked.nodes = nodes
         \/ /\ ids # None /\ ids # {} /\ asked.ids = ids
            /\ asked.owner = None /\ asked.nodes = <<>>
  BY DEF IInv, TypeOK, Executed
<1>2. ASSUME NEW op, LastCall(calls, op) # 0
      PROVE  LastCall(calls, op) \in 1..Len(calls) /\ calls[LastCall(calls, op)].op = op
             /\ calls[LastCall(calls, op)] \in Call
  <2>1. LastCall(calls, op) \in 1..Len(calls) /\ calls[LastCall(calls, op)].op = op
    <3>1. PICK x : x \in Call
      <4>1. [op |-> "and", arg |-> None] \in Call
        BY DEF Call, Scope
      <4> QED
        BY <4>1
    <3> QED
      BY <1>1, <1>2, <3>1, LastCallStep
  <2> QED
    BY <1>1, <2>1
<1>3. LastCall(calls, "ids") # 0 => calls[LastCall(calls, "ids")].arg \in SUBSET Id
  BY <1>2 DEF Call, Scope
<1>4. LastCall(calls, "owner") # 0 => calls[LastCall(calls, "owner")].arg \in Owner
  BY <1>2 DEF Call, Scope
<1>5. None \notin Owner /\ \A S \in SUBSET Id : S # None
  BY QueryAssumption
<1>6. /\ ids = None <=> LastCall(calls, "ids") = 0
      /\ LastCall(calls, "ids") # 0 => ids = calls[LastCall(calls, "ids")].arg
      /\ owner = None <=> LastCall(calls, "owner") = 0
      /\ LastCall(calls, "owner") # 0 => owner = calls[LastCall(calls, "owner")].arg
  BY <1>1, <1>3, <1>4, <1>5 DEF Headers
<1>7. CASE ids = None
  <2>1. asked.ids = None /\ asked.owner = owner /\ asked.nodes = nodes
    BY <1>1, <1>7
  <2>2. MatchHolds(asked, doc)
          <=> \A i \in NodeCalls(calls) : Parent(calls, i) = 0 => Conditions(calls, doc)[i]
    BY <2>1, TreeSaysChain
  <2> QED
    BY <1>6, <1>7, <2>1, <2>2 DEF Selects, Meant
<1>8. CASE ids # None
  <2>1. ids # {} /\ asked.ids = ids /\ asked.owner = None /\ asked.nodes = <<>>
    BY <1>1, <1>8
  <2>2. Children(asked, 0) = {}
    BY <2>1 DEF Children
  <2>3. MatchHolds(asked, doc)
    BY <2>2, Zenon DEF MatchHolds
  <2> QED
    BY <1>6, <1>8, <2>1, <2>3 DEF Selects, Meant
<1> QED
  BY <1>7, <1>8

\* A request of a chain left alone since exec asks for the documents the chain
\* describes, for chains of any length and documents of any kind.
THEOREM QueryAskedIsMeant == Spec => []AskedIsMeant
BY IInvAskedIsMeant, QueryInvariant, PTL
=============================================================================
