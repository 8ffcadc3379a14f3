----------------------------- MODULE ListingProofs -----------------------------
(***************************************************************************)
(* What reading a list page by page may miss and repeat, for any number of *)
(* rows, changes and pages of any size.                                    *)
(***************************************************************************)
EXTENDS ListingInvariant, TLAPS, FiniteSetTheorems, SequenceTheorems

(***************************************************************************)
(* Orders and their prefixes.                                              *)
(***************************************************************************)

Linear(R, S) ==
  /\ \A a \in S : <<a, a>> \notin R
  /\ \A a, b \in S : a # b => <<a, b>> \in R \/ <<b, a>> \in R
  /\ \A a, b, c \in S : <<a, b>> \in R /\ <<b, c>> \in R => <<a, c>> \in R

(* A finite list that is not empty has a first row.                        *)
LEMMA FirstRow ==
  ASSUME NEW R, NEW S, IsFiniteSet(S), Linear(R, S), S # {}
  PROVE  \E f \in S : \A a \in S \ {f} : <<f, a>> \in R
<1> DEFINE Earlier(x) == {a \in S : <<a, x>> \in R}
           T == {Cardinality(Earlier(x)) : x \in S}
<1>1. \A x \in S : IsFiniteSet(Earlier(x)) /\ Cardinality(Earlier(x)) \in Nat
  BY FS_Subset, FS_CardinalityType
<1>2. T \subseteq Nat /\ T # {}
  BY <1>1
<1>3. PICK m \in T : \A n \in T : ~ (<<n, m>> \in OpToRel(<, Nat))
  <2> HIDE DEF T
  <2> QED BY <1>2, NatLessThanWellFounded, WFMin
<1>4. PICK f \in S : m = Cardinality(Earlier(f))
  OBVIOUS
<1>5. ASSUME NEW a \in S \ {f}, <<a, f>> \in R PROVE FALSE
  <2>1. Earlier(a) \subseteq Earlier(f) /\ a \in Earlier(f) /\ a \notin Earlier(a)
    BY <1>5 DEF Linear
  <2>2. Cardinality(Earlier(a)) <= Cardinality(Earlier(f))
        /\ Cardinality(Earlier(a)) # Cardinality(Earlier(f))
    <3>1. Earlier(a) \in SUBSET Earlier(f) /\ Earlier(a) # Earlier(f) /\ IsFiniteSet(Earlier(f))
      BY <1>1, <2>1
    <3> HIDE DEF Earlier
    <3> QED BY <3>1, FS_Subset
  <2>3. Cardinality(Earlier(a)) \in T /\ Cardinality(Earlier(a)) \in Nat /\ m \in Nat
    BY <1>1, <1>4
  <2>4. ~ (Cardinality(Earlier(a)) < m)
    <3> HIDE DEF T, Earlier
    <3> QED BY <1>3, <2>3 DEF OpToRel
  <2> HIDE DEF T, Earlier
  <2> QED BY <1>4, <2>2, <2>3, <2>4
<1>6. \A a \in S \ {f} : <<f, a>> \in R
  BY <1>5 DEF Linear
<1> QED BY <1>6

LEMMA LastRow ==
  ASSUME NEW R, NEW S, IsFiniteSet(S), Linear(R, S), S # {}
  PROVE  \E l \in S : \A a \in S \ {l} : <<a, l>> \in R
<1>1. PICK Q : Q = {pair \in S \X S : <<pair[2], pair[1]>> \in R}
  OBVIOUS
<1>2. \A a, b \in S : <<a, b>> \in Q <=> <<b, a>> \in R
  <2>1. TAKE a, b \in S
  <2>2. <<a, b>> \in S \X S /\ <<a,b>>[1] = a /\ <<a, b>>[2] = b
    OBVIOUS
  <2> QED BY <1>1, <2>2
<1>3. Linear(Q, S)
  BY <1>2 DEF Linear
<1>4. \E l \in S : \A a \in S \ {l} : <<l, a>> \in Q
  BY <1>3, FirstRow
<1>5. PICK l \in S : \A a \in S \ {l} : <<l, a>> \in Q
  BY <1>4
<1>6. \A a \in S \ {l} : <<a, l>> \in R
  BY <1>2, <1>5
<1> QED BY <1>6

(* Two prefixes of the same length are the same.                           *)
LEMMA PrefixUnique ==
  ASSUME NEW R, NEW S, IsFiniteSet(S), Linear(R, S), NEW n \in Nat,
         NEW A, Prefix(R, S, n, A), NEW B, Prefix(R, S, n, B)
  PROVE  A = B
<1>1. A \in SUBSET S /\ B \in SUBSET S /\ IsFiniteSet(A) /\ IsFiniteSet(B)
  BY FS_Subset DEF Prefix
<1>2. A \subseteq B \/ B \subseteq A
  <2>1. SUFFICES ASSUME NEW a \in A \ B, NEW b \in B \ A PROVE FALSE
    OBVIOUS
  <2>2. a \in S /\ b \in S /\ a # b
    BY <1>1
  <2> QED BY <2>2 DEF Linear, Prefix
<1>3. Cardinality(A) \in Nat /\ Cardinality(B) \in Nat
  BY <1>1, FS_CardinalityType
<1>4. A \subseteq B => Cardinality(A) <= Cardinality(B) /\ (Cardinality(A) = Cardinality(B) => A = B)
  BY <1>1, FS_Subset
<1>5. B \subseteq A => Cardinality(B) <= Cardinality(A) /\ (Cardinality(A) = Cardinality(B) => A = B)
  BY <1>1, FS_Subset
<1> QED BY <1>1, <1>2, <1>3, <1>4, <1>5 DEF Prefix

(* A prefix of at least as many rows as there are is the whole list.       *)
LEMMA PrefixWhole ==
  ASSUME NEW R, NEW S, IsFiniteSet(S), NEW n \in Nat, Cardinality(S) <= n,
         NEW A, Prefix(R, S, n, A)
  PROVE  A = S
<1>1. A \in SUBSET S
  BY DEF Prefix
<1>2. Cardinality(A) <= Cardinality(S) /\ (Cardinality(S) = Cardinality(A) => S = A)
  BY <1>1, FS_Subset
<1>3. Cardinality(A) \in Nat /\ Cardinality(S) \in Nat
  BY <1>1, FS_Subset, FS_CardinalityType
<1> QED BY <1>2, <1>3 DEF Prefix

(***************************************************************************)
(* Pages.                                                                  *)
(***************************************************************************)

LEMMA UpTo == ASSUME NEW m \in Nat PROVE IsFiniteSet(1..m) /\ Cardinality(1..m) = m
BY FS_Interval

(* An injective sequence holds as many values as it has indices.           *)
LEMMA OneToOne ==
  ASSUME NEW f, NEW D, IsFiniteSet(D), NEW T,
         \A i, j \in D : i # j => f[i] # f[j],
         \A i \in D : f[i] \in T,
         \A t \in T : \E i \in D : f[i] = t
  PROVE  IsFiniteSet(T) /\ Cardinality(T) = Cardinality(D)
<1> DEFINE g == [i \in D |-> f[i]]
<1>1. g \in [D -> T] /\ \A i, j \in D : g[i] = g[j] => i = j
  OBVIOUS
<1>2. \A t \in T : \E i \in D : g[i] = t
  OBVIOUS
<1> HIDE DEF g
<1>3. g \in Bijection(D, T)
  BY <1>1, <1>2 DEF Bijection, Injection, Surjection, IsInjective
<1>4. ExistsBijection(D, T)
  BY <1>3 DEF ExistsBijection
<1> QED BY <1>4, FS_Bijection

(* s has each of the c elements of S once.                                  *)
Listed(s, c, S) ==
  /\ s \in [1..c -> S]
  /\ \A i, k \in 1..c : i # k => s[i] # s[k]
  /\ S = {s[i] : i \in 1..c}

LEMMA AllOf ==
  ASSUME NEW S, IsFiniteSet(S), NEW s \in SetToSeqs(S)
  PROVE  Listed(s, Cardinality(S), S)
<1>1. PICK c \in Nat : c = Cardinality(S)
  BY FS_CardinalityType
<1>2. s \in [1..c -> S] /\ \A i, j \in 1..c : i # j => s[i] # s[j]
  BY <1>1 DEF SetToSeqs
<1>3. s \in Injection(1..c, S)
  BY <1>2 DEF Injection, IsInjective
<1>4. Cardinality(1..c) = c
  BY FS_Interval
<1>5. s \in Surjection(1..c, S)
  BY <1>1, <1>3, <1>4, FS_Injection
<1>6. S = {s[i] : i \in 1..c}
  BY <1>2, <1>5 DEF Surjection
<1> QED BY <1>1, <1>2, <1>6 DEF Listed

(* The n elements of a sequence behind its first a.                        *)
Stretch(s, a, n) == {s[i] : i \in {k \in DOMAIN s : a < k /\ k <= a + n}}

(* The first rows of a sorted sequence are a prefix.                       *)
LEMMA SortedPrefix ==
  ASSUME NEW R, NEW S, NEW c \in Nat, NEW s, Listed(s, c, S),
         \A i, k \in 1..c : i < k => <<s[k], s[i]>> \notin R,
         NEW n \in Nat
  PROVE  Prefix(R, S, n, Stretch(s, 0, n))
<1> USE DEF Listed
<1>0. PICK m \in Nat : m = IF n <= c THEN n ELSE c
  OBVIOUS
<1> DEFINE T == {s[i] : i \in 1..m}
<1>1. Cardinality(T) = m
  <2>1. /\ \A i, k \in 1..m : i # k => s[i] # s[k]
        /\ \A i \in 1..m : s[i] \in T
        /\ \A t \in T : \E i \in 1..m : s[i] = t
    BY <1>0
  <2> HIDE DEF T
  <2>2. IsFiniteSet(1..m) /\ Cardinality(1..m) = m
    BY UpTo
  <2>3. Cardinality(T) = Cardinality(1..m)
    BY ONLY <2>1, <2>2, OneToOne
  <2> QED BY <2>2, <2>3
<1>2. T \subseteq S
  BY <1>0
<1>3. ASSUME NEW a \in T, NEW b \in S, <<b, a>> \in R PROVE b \in T
  <2>1. PICK i \in 1..m : a = s[i]
    OBVIOUS
  <2>2. PICK k \in 1..c : b = s[k]
    OBVIOUS
  <2>3. ~ (i < k)
    BY <1>0, <1>3, <2>1, <2>2
  <2>4. k \in 1..m
    BY <1>0, <2>3
  <2> QED BY <2>2, <2>4
<1>4. T = S \/ m = n
  BY <1>0
<1>5. m <= n
  BY <1>0
<1>6. Stretch(s, 0, n) = T
  BY <1>0 DEF Stretch
<1> HIDE DEF T
<1>7. Prefix(R, S, n, T)
  BY <1>1, <1>2, <1>3, <1>4, <1>5 DEF Prefix
<1> QED BY <1>6, <1>7

(* LIMIT and OFFSET, for an offset that is not negative.                   *)
PageOf(page, s, c, S, offset, limit) ==
  /\ page \in Seq(S)
  /\ offset >= c => page = <<>>
  /\ ToSet(page) = Stretch(s, offset, limit)
  /\ IsFiniteSet(ToSet(page))
  /\ \E size \in Nat : Len(page) = size /\ Cardinality(ToSet(page)) = size /\ size <= limit

LEMMA SliceIs ==
  ASSUME NEW S, NEW c \in Nat, NEW s, Listed(s, c, S),
         NEW offset \in Nat, NEW limit \in Nat,
         NEW page, page = Slice(s, offset, limit)
  PROVE  PageOf(page, s, c, S, offset, limit)
<1>0. s \in [1..c -> S] /\ \A i, k \in 1..c : i # k => s[i] # s[k]
  BY DEF Listed
<1>1. PICK last \in Nat : last = IF offset + limit <= c THEN offset + limit ELSE c
  OBVIOUS
<1>2. Len(s) = c
  BY <1>0
<1>3. Max({offset, 0}) = offset
  BY DEF Max
<1>4. Min({offset + limit, Len(s)}) = last
  BY <1>1, <1>2 DEF Min
<1>5. page = SubSeq(s, offset + 1, last)
  BY <1>3, <1>4 DEF Slice
<1>6. \A i \in (offset + 1)..last : s[i] \in S
  BY <1>0, <1>1
<1>7. /\ page \in Seq(S) /\ Len(page) = IF offset + 1 <= last THEN last - (offset + 1) + 1 ELSE 0
      /\ \A i \in 1..(last - (offset + 1) + 1) : page[i] = s[(offset + 1) + i - 1]
  <2>1. offset + 1 \in Int /\ last \in Int
    BY <1>1
  <2> QED BY <1>5, <1>6, <2>1, SubSeqProperties
<1>8. PICK size \in Nat : size = IF offset < last THEN last - offset ELSE 0
  <2>1. (IF offset < last THEN last - offset ELSE 0) \in Nat
    BY <1>1
  <2> QED BY <2>1
<1>9. Len(page) = size /\ size <= limit /\ (offset >= c => size = 0)
  BY <1>1, <1>7, <1>8
<1>10. \A i \in 1..size : page[i] = s[offset + i] /\ offset + i \in 1..c /\ offset + i <= offset + limit
  BY <1>1, <1>7, <1>8
<1>11. \A k \in 1..c : offset < k /\ k <= offset + limit
                       => k - offset \in 1..size /\ page[k - offset] = s[k]
  <2> TAKE k \in 1..c
  <2> HAVE offset < k /\ k <= offset + limit
  <2>1. k - offset \in 1..size /\ offset + (k - offset) = k
    BY <1>1, <1>8
  <2> QED BY <1>10, <2>1
<1>12. /\ \A i \in 1..size : page[i] \in ToSet(page)
       /\ \A t \in ToSet(page) : \E i \in 1..size : page[i] = t
  BY ONLY <1>7, <1>9, size \in Nat DEF ToSet
<1>13. ToSet(page) = Stretch(s, offset, limit)
  <2>1. ASSUME NEW i \in 1..size PROVE page[i] \in Stretch(s, offset, limit)
    <3>1. DOMAIN s = 1..c /\ i \in Nat /\ i > 0
      BY <1>0
    <3>2. offset + i \in DOMAIN s /\ offset < offset + i /\ offset + i <= offset + limit
      BY ONLY <1>0, <1>10, <3>1, i \in 1..size
    <3> QED BY <1>10, <3>2 DEF Stretch
  <2>2. ASSUME NEW t \in Stretch(s, offset, limit) PROVE t \in ToSet(page)
    <3>1. PICK k \in 1..c : t = s[k] /\ offset < k /\ k <= offset + limit
      BY <1>0 DEF Stretch
    <3> QED BY <1>11, <1>12, <3>1
  <2> QED BY <1>12, <2>1, <2>2
<1>14. \A i, k \in 1..size : i # k => page[i] # page[k]
  <2> TAKE i, k \in 1..size
  <2> HAVE i # k
  <2>1. offset + i # offset + k
    OBVIOUS
  <2> QED BY <1>0, <1>10, <2>1
<1>15. IsFiniteSet(ToSet(page)) /\ Cardinality(ToSet(page)) = size
  <2>1. IsFiniteSet(1..size) /\ Cardinality(1..size) = size
    BY UpTo
  <2> QED BY ONLY <1>12, <1>14, <2>1, OneToOne
<1>16. page = <<>> \/ size # 0
  BY <1>7, <1>9
<1> QED BY <1>7, <1>9, <1>13, <1>15, <1>16 DEF PageOf

(* A page fetched where a prefix ends makes the prefix longer.             *)
SortedBy(R, S, s) ==
  s \in SetToSeqs(S) /\ \A i, k \in DOMAIN s : i < k => <<s[k], s[i]>> \notin R

Longer(R, S, end, top, page) ==
  /\ Prefix(R, S, end, top \cup ToSet(page))
  /\ ToSet(page) \subseteq S /\ ToSet(page) \cap top = {} /\ IsFiniteSet(ToSet(page))
  /\ \E size \in Nat : Len(page) = size /\ Cardinality(ToSet(page)) = size

LEMMA Fetch ==
  ASSUME NEW R, NEW S, IsFiniteSet(S), Linear(R, S), NEW s, SortedBy(R, S, s),
         NEW n \in Nat, NEW limit \in Nat, NEW end \in Nat, end = n + limit,
         NEW top, Prefix(R, S, n, top),
         NEW page, page = Slice(s, n, limit)
  PROVE  Longer(R, S, end, top, page)
<1> DEFINE new == ToSet(page)
<1>1. PICK c \in Nat : c = Cardinality(S)
  BY FS_CardinalityType
<1>2. Listed(s, c, S)
  BY <1>1, AllOf DEF SortedBy
<1>3. \A i, k \in 1..c : i < k => <<s[k], s[i]>> \notin R
  BY <1>2 DEF Listed, SortedBy
<1>4. Prefix(R, S, n, Stretch(s, 0, n)) /\ Prefix(R, S, end, Stretch(s, 0, end))
  BY <1>2, <1>3, SortedPrefix
<1>5. top = Stretch(s, 0, n)
  BY <1>4, PrefixUnique
<1>6. /\ new = Stretch(s, n, limit)
      /\ \E size \in Nat : Len(page) = size /\ IsFiniteSet(new) /\ Cardinality(new) = size
  <2>1. PageOf(page, s, c, S, n, limit)
    BY <1>2, SliceIs
  <2> QED BY <2>1 DEF PageOf
<1>7. s \in [1..c -> S] /\ \A i, k \in 1..c : i # k => s[i] # s[k]
  BY <1>2 DEF Listed
<1>8. top \cup new = Stretch(s, 0, end)
  BY <1>5, <1>6, <1>7 DEF Stretch
<1>9. new \subseteq S
  BY <1>6, <1>7 DEF Stretch
<1>10. new \cap top = {}
  BY <1>5, <1>6, <1>7 DEF Stretch
<1> QED BY <1>4, <1>6, <1>8, <1>9, <1>10 DEF Longer

(***************************************************************************)
(* Rows that enter and leave.                                              *)
(***************************************************************************)

LEMMA LinearSub ==
  ASSUME NEW R, NEW S, Linear(R, S), NEW T, T \subseteq S
  PROVE  Linear(R, T)
BY DEF Linear

(* A row that enters is taken into the prefix for its last one, or not.    *)
TakesIn(R, S, y, n, top) ==
  \E next, z : /\ Prefix(R, S \cup {y}, n, next)
               /\ next \subseteq top \cup {y}
               /\ (S \cup {y}) \ next \subseteq (S \ top) \cup {z}

LEMMA EnterPrefix ==
  ASSUME NEW R, NEW S, IsFiniteSet(S), NEW y, y \notin S, Linear(R, S \cup {y}),
         NEW n \in Nat, NEW top, Prefix(R, S, n, top)
  PROVE  TakesIn(R, S, y, n, top)
<1>1. top \subseteq S /\ IsFiniteSet(top) /\ Cardinality(top) \in Nat
  <2>1. top \in SUBSET S
    BY DEF Prefix
  <2> QED BY <2>1, FS_Subset, FS_CardinalityType
<1>2. CASE Cardinality(top) # n
  <2>1. top = S /\ Cardinality(S) < n
    BY <1>1, <1>2 DEF Prefix
  <2>2. Cardinality(S \cup {y}) <= n
    BY <1>1, <2>1, FS_AddElement
  <2>3. Prefix(R, S \cup {y}, n, S \cup {y})
    BY <2>2 DEF Prefix
  <2> QED BY <2>1, <2>3 DEF TakesIn
<1>3. CASE Cardinality(top) = n /\ \E a \in top : <<y, a>> \in R
  <2>1. PICK a \in top : <<y, a>> \in R
    BY <1>3
  <2>2. Linear(R, top)
    BY <1>1, LinearSub
  <2>3. PICK l \in top : \A b \in top \ {l} : <<b, l>> \in R
    <3>1. top # {}
      BY <2>1
    <3> QED BY <1>1, <2>2, <3>1, LastRow
  <2>4. PICK next : next = (top \ {l}) \cup {y}
    OBVIOUS
  <2>5. Cardinality(next) = n
    <3>1. IsFiniteSet(top \ {l}) /\ Cardinality(top \ {l}) = n - 1
      BY <1>1, <1>3, FS_RemoveElement
    <3>2. y \notin top \ {l}
      BY <1>1
    <3>3. Cardinality(next) = n - 1 + 1
      BY <2>4, <3>1, <3>2, FS_AddElement
    <3> QED BY <3>3
  <2>6. ASSUME NEW b \in next, NEW c \in S \cup {y}, <<c, b>> \in R PROVE c \in next
    <3>1. c # l
      <4>1. SUFFICES ASSUME c = l PROVE FALSE
        OBVIOUS
      <4>2. CASE b \in top
        BY <1>1, <2>3, <2>4, <2>6, <4>1, <4>2 DEF Linear
      <4>3. CASE b = y
        <5>1. <<l, a>> \in R
          BY <1>1, <2>1, <2>6, <4>1, <4>3 DEF Linear
        <5> QED BY <1>1, <2>1, <2>3, <5>1 DEF Linear
      <4> QED BY <2>4, <4>2, <4>3
    <3>2. c \in top \cup {y}
      <4>1. CASE b \in top
        BY <2>6, <4>1 DEF Prefix
      <4>2. CASE b = y /\ c # y
        <5>1. <<c, a>> \in R
          BY <1>1, <2>1, <2>6, <4>2 DEF Linear
        <5> QED BY <2>1, <4>2, <5>1 DEF Prefix
      <4> QED BY <2>4, <4>1, <4>2
    <3> QED BY <2>4, <3>1, <3>2
  <2>7. next \subseteq S \cup {y}
    BY <1>1, <2>4
  <2>8. Prefix(R, S \cup {y}, n, next)
    BY <2>5, <2>6, <2>7 DEF Prefix
  <2>9. (S \cup {y}) \ next \subseteq (S \ top) \cup {l} /\ next \subseteq top \cup {y}
    BY <2>4
  <2> QED BY <2>8, <2>9 DEF TakesIn
<1>4. CASE Cardinality(top) = n /\ ~ \E a \in top : <<y, a>> \in R
  <2>1. Prefix(R, S \cup {y}, n, top)
    BY <1>4 DEF Prefix
  <2> QED BY <2>1 DEF TakesIn
<1> QED BY <1>2, <1>3, <1>4

(* A row that leaves is replaced in the prefix by the first behind it.      *)
LetsGo(R, S, y, n, top) ==
  \E next, z : /\ Prefix(R, S \ {y}, n, next)
               /\ next \subseteq top \cup {z}
               /\ (S \ {y}) \ next \subseteq S \ top

LEMMA LeavePrefix ==
  ASSUME NEW R, NEW S, IsFiniteSet(S), NEW y \in S, Linear(R, S),
         NEW n \in Nat, NEW top, Prefix(R, S, n, top)
  PROVE  LetsGo(R, S, y, n, top)
<1>1. top \subseteq S /\ IsFiniteSet(top) /\ Cardinality(top) \in Nat
  <2>1. top \in SUBSET S
    BY DEF Prefix
  <2> QED BY <2>1, FS_Subset, FS_CardinalityType
<1>2. CASE y \notin top
  <2>1. Prefix(R, S \ {y}, n, top)
    BY <1>2 DEF Prefix
  <2> QED BY <2>1 DEF LetsGo
<1>3. CASE y \in top /\ top = S
  <2>1. Cardinality(S \ {y}) = Cardinality(S) - 1
    BY FS_RemoveElement
  <2>2. Cardinality(S) <= n /\ Cardinality(S) \in Nat
    BY <1>1, <1>3 DEF Prefix
  <2>3. Prefix(R, S \ {y}, n, S \ {y})
    BY <2>1, <2>2 DEF Prefix
  <2> QED BY <1>3, <2>3 DEF LetsGo
<1>4. CASE y \in top /\ top # S
  <2>1. PICK rest : rest = S \ top
    OBVIOUS
  <2>2. rest # {} /\ IsFiniteSet(rest) /\ Linear(R, rest)
    BY <1>1, <1>4, <2>1, FS_Difference, LinearSub
  <2>3. PICK f \in rest : \A b \in rest \ {f} : <<f, b>> \in R
    BY <2>2, FirstRow
  <2>4. PICK next : next = (top \ {y}) \cup {f}
    OBVIOUS
  <2>5. Cardinality(next) = n
    <3>1. f \notin top \ {y} /\ Cardinality(top) = n
      BY <1>4, <2>1 DEF Prefix
    <3>2. IsFiniteSet(top \ {y}) /\ Cardinality(top \ {y}) = n - 1
      BY <1>1, <1>4, <3>1, FS_RemoveElement
    <3>3. Cardinality(next) = n - 1 + 1
      BY <2>4, <3>1, <3>2, FS_AddElement
    <3> QED BY <3>3
  <2>6. ASSUME NEW b \in next, NEW c \in S \ {y}, <<c, b>> \in R PROVE c \in next
    <3>1. CASE b \in top
      BY <2>4, <2>6, <3>1 DEF Prefix
    <3>2. CASE b = f
      BY <2>1, <2>3, <2>4, <2>6, <3>2 DEF Linear
    <3> QED BY <2>4, <3>1, <3>2
  <2>7. next \subseteq S \ {y}
    BY <1>1, <1>4, <2>1, <2>4
  <2>8. Prefix(R, S \ {y}, n, next)
    BY <2>5, <2>6, <2>7 DEF Prefix
  <2>9. (S \ {y}) \ next \subseteq S \ top /\ next \subseteq top \cup {f}
    BY <2>4
  <2> QED BY <2>8, <2>9 DEF LetsGo
<1> QED BY <1>2, <1>3, <1>4

(***************************************************************************)
(* What a reading has been charged for.                                    *)
(***************************************************************************)

(* Whatever is accounted for with a set of few rows is with a smaller one.  *)
LEMMA Smaller ==
  ASSUME NEW A, NEW B, IsFiniteSet(B), A \subseteq B
  PROVE  /\ IsFiniteSet(A) /\ Cardinality(A) \in Nat /\ Cardinality(B) \in Nat
         /\ Cardinality(A) <= Cardinality(B)
<1>1. A \in SUBSET B
  OBVIOUS
<1> QED BY <1>1, FS_Subset, FS_CardinalityType

LEMMA OneMore ==
  ASSUME NEW A, NEW B, NEW z, IsFiniteSet(B), A \subseteq B \cup {z}
  PROVE  /\ IsFiniteSet(A) /\ Cardinality(A) \in Nat /\ Cardinality(B) \in Nat
         /\ Cardinality(A) <= Cardinality(B) + 1
<1>1. PICK C : C = B \cup {z}
  OBVIOUS
<1>2. IsFiniteSet(C) /\ (Cardinality(C) = Cardinality(B) \/ Cardinality(C) = Cardinality(B) + 1)
  BY <1>1, FS_AddElement
<1>3. Cardinality(B) \in Nat
  BY FS_CardinalityType
<1>4. /\ IsFiniteSet(A) /\ Cardinality(A) \in Nat
      /\ Cardinality(A) <= Cardinality(C)
  BY <1>1, <1>2, Smaller
<1> QED BY <1>2, <1>3, <1>4

(* A reading that is shown a page.                                         *)
Shown(v, w, page) ==
  /\ v \in Walk /\ v.kept = w.kept /\ v.seen = w.seen \cup ToSet(page)
  /\ v.shown = w.shown + Len(page) /\ v.entered = w.entered /\ v.left = w.left
  /\ v.open = w.open

(* A page fetched where a reading has come to lets it come further, for no  *)
(* charge.                                                                 *)
LEMMA FetchAccounted ==
  ASSUME NEW R, NEW S, IsFiniteSet(S), Linear(R, S), NEW s, SortedBy(R, S, s),
         NEW n \in Nat, NEW limit \in Nat, NEW end \in Nat, end = n + limit,
         NEW page, page = Slice(s, n, limit),
         NEW w \in Walk, IsFiniteSet(w.seen), Accounted(R, S, n, w),
         NEW next, Shown(next, w, page)
  PROVE  Accounted(R, S, end, next)
<1> USE DEF Shown
<1>1. PICK top : /\ Prefix(R, S, n, top)
                 /\ w.shown - Cardinality(w.seen) + Cardinality(w.seen \cap (S \ top)) <= w.entered
                 /\ Cardinality((w.kept \ w.seen) \cap top) <= w.left
  BY DEF Accounted
<1>2. PICK new : new = ToSet(page)
  OBVIOUS
<1>0. Longer(R, S, end, top, page)
  BY <1>1, Fetch
<1>3. /\ Prefix(R, S, end, top \cup new) /\ new \subseteq S /\ new \cap top = {}
      /\ IsFiniteSet(new)
  BY <1>0, <1>2 DEF Longer
<1>4. PICK size \in Nat : Len(page) = size /\ Cardinality(new) = size
  BY <1>0, <1>2 DEF Longer
<1>5. PICK seen, kept : seen = w.seen /\ kept = w.kept
  OBVIOUS
<1>6. PICK shown, entered, left \in Nat : shown = w.shown /\ entered = w.entered /\ left = w.left
  BY DEF Walk
<1>7. PICK all, rest :
        /\ all = seen \cup new /\ rest = all \cap (S \ (top \cup new))
        /\ Cardinality(all) \in Nat /\ Cardinality(rest) \in Nat
        /\ shown + size - Cardinality(all) + Cardinality(rest) <= entered
  <2>1. shown - Cardinality(seen) + Cardinality(seen \cap (S \ top)) <= entered
    BY <1>1, <1>5, <1>6
  <2>2. IsFiniteSet(seen)
    BY <1>5
  <2>3. PICK below, all, rest, again :
          /\ below = seen \cap (S \ top) /\ all = seen \cup new
          /\ rest = all \cap (S \ (top \cup new)) /\ again = seen \cap new
    OBVIOUS
  <2>4. IsFiniteSet(below) /\ IsFiniteSet(again) /\ IsFiniteSet(seen) /\ IsFiniteSet(new)
    BY <1>3, <2>2, <2>3, FS_Intersection
  <2>5. below \cap new = again /\ rest = below \ new
    BY <1>3, <2>3
  <2>6. Cardinality(below \ new) = Cardinality(below) - Cardinality(below \cap new)
        /\ IsFiniteSet(below \ new)
    BY <2>4, FS_Difference
  <2>7. IsFiniteSet(rest) /\ Cardinality(rest) = Cardinality(below) - Cardinality(again)
    BY <2>5, <2>6
  <2>8. /\ IsFiniteSet(all)
        /\ Cardinality(all) = Cardinality(seen) + Cardinality(new) - Cardinality(again)
    BY <2>3, <2>4, FS_Union
  <2>9. /\ Cardinality(seen) \in Nat /\ Cardinality(again) \in Nat /\ Cardinality(below) \in Nat
        /\ Cardinality(rest) \in Nat /\ Cardinality(all) \in Nat
    BY <2>4, <2>7, <2>8, FS_CardinalityType
  <2>10. shown + size - Cardinality(all) + Cardinality(rest) <= entered
    BY <1>4, <2>1, <2>3, <2>7, <2>8, <2>9
  <2> QED BY <2>3, <2>9, <2>10
<1>8. Cardinality((kept \ (seen \cup new)) \cap (top \cup new)) <= left
  <2>1. PICK missed, less : /\ missed = (kept \ seen) \cap top
                            /\ less = (kept \ (seen \cup new)) \cap (top \cup new)
    OBVIOUS
  <2>2. less \subseteq missed
    BY <2>1
  <2>3. IsFiniteSet(missed)
    <3>1. top \in SUBSET S /\ missed \in SUBSET top
      BY <1>1, <2>1 DEF Prefix
    <3> QED BY <3>1, FS_Subset
  <2>4. Cardinality(missed) <= left
    BY <1>1, <1>5, <1>6, <2>1
  <2>5. Cardinality(less) <= Cardinality(missed) /\ Cardinality(less) \in Nat /\ Cardinality(missed) \in Nat
    BY <2>2, <2>3, Smaller
  <2> QED BY <2>1, <2>4, <2>5
<1>9. top \cup new \in SUBSET S
  BY <1>3 DEF Prefix
<1>10. /\ next.seen = seen \cup new /\ next.kept = kept /\ next.shown = shown + size
       /\ next.entered = entered /\ next.left = left
  BY <1>2, <1>4, <1>5, <1>6
<1>11. /\ next.shown - Cardinality(next.seen)
            + Cardinality(next.seen \cap (S \ (top \cup new))) <= next.entered
       /\ Cardinality((next.kept \ next.seen) \cap (top \cup new)) <= next.left
  <2>2. /\ next.seen = all /\ next.seen \cap (S \ (top \cup new)) = rest
        /\ (next.kept \ next.seen) \cap (top \cup new) = (kept \ (seen \cup new)) \cap (top \cup new)
    BY <1>7, <1>10
  <2>4. next.shown - Cardinality(all) + Cardinality(rest) <= next.entered
    BY <1>7, <1>10
  <2>5. next.shown - Cardinality(next.seen)
            + Cardinality(next.seen \cap (S \ (top \cup new))) <= next.entered
    BY <2>2, <2>4
  <2> QED BY <1>8, <1>10, <2>2, <2>5
<1> QED BY <1>3, <1>9, <1>11 DEF Accounted

(* What a prefix is depends on the order of the rows in the list only.     *)
LEMMA AccountedSame ==
  ASSUME NEW R, NEW Q, NEW S, \A a, b \in S : <<a, b>> \in R <=> <<a, b>> \in Q,
         NEW n, NEW w, Accounted(R, S, n, w)
  PROVE  Accounted(Q, S, n, w)
<1>1. PICK top \in SUBSET S :
        /\ Prefix(R, S, n, top)
        /\ w.shown - Cardinality(w.seen) + Cardinality(w.seen \cap (S \ top)) <= w.entered
        /\ Cardinality((w.kept \ w.seen) \cap top) <= w.left
  BY DEF Accounted
<1>2. Prefix(Q, S, n, top)
  BY <1>1 DEF Prefix
<1> QED BY <1>1, <1>2 DEF Accounted

(* The rows below and above the position of a reading that count.          *)
Below(w, S, top) == w.seen \cap (S \ top)
Missed(w, top) == (w.kept \ w.seen) \cap top

Balance(w, S, top) ==
  /\ IsFiniteSet(w.seen) /\ IsFiniteSet(Below(w, S, top)) /\ IsFiniteSet(Missed(w, top))
  /\ w.shown - Cardinality(w.seen) + Cardinality(Below(w, S, top)) <= w.entered
  /\ Cardinality(Missed(w, top)) <= w.left

LEMMA Balanced ==
  ASSUME NEW R, NEW S, IsFiniteSet(S), NEW n, NEW w, IsFiniteSet(w.seen)
  PROVE  Accounted(R, S, n, w) <=> \E top : Prefix(R, S, n, top) /\ Balance(w, S, top)
<1>1. ASSUME NEW top, Prefix(R, S, n, top)
      PROVE  /\ top \in SUBSET S
             /\ IsFiniteSet(Below(w, S, top)) /\ IsFiniteSet(Missed(w, top))
  <2>1. top \in SUBSET S
    BY <1>1 DEF Prefix
  <2>2. IsFiniteSet(top)
    BY <2>1, FS_Subset
  <2> QED BY <2>1, <2>2, FS_Intersection DEF Below, Missed
<1>2. ASSUME Accounted(R, S, n, w)
      PROVE  \E top : Prefix(R, S, n, top) /\ Balance(w, S, top)
  BY <1>1, <1>2 DEF Accounted, Balance, Below, Missed
<1>3. ASSUME NEW top, Prefix(R, S, n, top) /\ Balance(w, S, top)
      PROVE  Accounted(R, S, n, w)
  BY <1>1, <1>3 DEF Accounted, Balance, Below, Missed
<1> QED BY <1>2, <1>3

(* A row that enters the list is charged for as one more that may be       *)
(* shown again.                                                            *)
LEMMA EnterAccounted ==
  ASSUME NEW R, NEW S, IsFiniteSet(S), NEW y, y \notin S, Linear(R, S \cup {y}),
         NEW n \in Nat, NEW w \in Walk, IsFiniteSet(w.seen), w.kept \subseteq S,
         Accounted(R, S, n, w),
         NEW next \in Walk, next.kept = w.kept, next.seen = w.seen,
         next.shown = w.shown, next.entered = w.entered + 1, next.left = w.left
  PROVE  Accounted(R, S \cup {y}, n, next)
<1>1. PICK top : Prefix(R, S, n, top) /\ Balance(w, S, top)
  BY Balanced
<1>2. PICK to, z : /\ Prefix(R, S \cup {y}, n, to)
                   /\ to \subseteq top \cup {y}
                   /\ (S \cup {y}) \ to \subseteq (S \ top) \cup {z}
  <2>1. TakesIn(R, S, y, n, top)
    BY <1>1, EnterPrefix
  <2> QED BY <2>1 DEF TakesIn
<1>3. Below(next, S \cup {y}, to) \subseteq Below(w, S, top) \cup {z}
  BY <1>2 DEF Below
<1>4. Missed(next, to) \subseteq Missed(w, top)
  BY <1>2 DEF Missed
<1>5. /\ IsFiniteSet(Below(next, S \cup {y}, to)) /\ Cardinality(Below(next, S \cup {y}, to)) \in Nat
      /\ Cardinality(Below(w, S, top)) \in Nat
      /\ Cardinality(Below(next, S \cup {y}, to)) <= Cardinality(Below(w, S, top)) + 1
  BY <1>1, <1>3, OneMore DEF Balance
<1>6. /\ IsFiniteSet(Missed(next, to)) /\ Cardinality(Missed(next, to)) \in Nat
      /\ Cardinality(Missed(w, top)) \in Nat
      /\ Cardinality(Missed(next, to)) <= Cardinality(Missed(w, top))
  BY <1>1, <1>4, Smaller DEF Balance
<1>7. PICK shown, entered, left, seen \in Nat :
        /\ shown = w.shown /\ entered = w.entered /\ left = w.left
        /\ seen = Cardinality(w.seen)
  BY FS_CardinalityType DEF Walk
<1>8. Balance(next, S \cup {y}, to)
  BY <1>1, <1>5, <1>6, <1>7 DEF Balance
<1>9. IsFiniteSet(S \cup {y})
  BY FS_AddElement
<1> QED BY <1>2, <1>8, <1>9, Balanced

(* A row that leaves the list is charged for as one more that may be       *)
(* missed.                                                                 *)
LEMMA LeaveAccounted ==
  ASSUME NEW R, NEW S, IsFiniteSet(S), NEW y \in S, Linear(R, S),
         NEW n \in Nat, NEW w \in Walk, IsFiniteSet(w.seen),
         Accounted(R, S, n, w),
         NEW next \in Walk, next.kept = w.kept \ {y}, next.seen = w.seen,
         next.shown = w.shown, next.entered = w.entered, next.left = w.left + 1
  PROVE  Accounted(R, S \ {y}, n, next)
<1>1. PICK top : Prefix(R, S, n, top) /\ Balance(w, S, top)
  BY Balanced
<1>2. PICK to, z : /\ Prefix(R, S \ {y}, n, to)
                   /\ to \subseteq top \cup {z}
                   /\ (S \ {y}) \ to \subseteq S \ top
  <2>1. LetsGo(R, S, y, n, top)
    BY <1>1, LeavePrefix
  <2> QED BY <2>1 DEF LetsGo
<1>3. Below(next, S \ {y}, to) \subseteq Below(w, S, top)
  BY <1>2 DEF Below
<1>4. Missed(next, to) \subseteq Missed(w, top) \cup {z}
  BY <1>2 DEF Missed
<1>5. /\ IsFiniteSet(Below(next, S \ {y}, to)) /\ Cardinality(Below(next, S \ {y}, to)) \in Nat
      /\ Cardinality(Below(w, S, top)) \in Nat
      /\ Cardinality(Below(next, S \ {y}, to)) <= Cardinality(Below(w, S, top))
  BY <1>1, <1>3, Smaller DEF Balance
<1>6. /\ IsFiniteSet(Missed(next, to)) /\ Cardinality(Missed(next, to)) \in Nat
      /\ Cardinality(Missed(w, top)) \in Nat
      /\ Cardinality(Missed(next, to)) <= Cardinality(Missed(w, top)) + 1
  BY <1>1, <1>4, OneMore DEF Balance
<1>7. PICK shown, entered, left, seen \in Nat :
        /\ shown = w.shown /\ entered = w.entered /\ left = w.left
        /\ seen = Cardinality(w.seen)
  BY FS_CardinalityType DEF Walk
<1>8. Balance(next, S \ {y}, to)
  BY <1>1, <1>5, <1>6, <1>7 DEF Balance
<1>9. IsFiniteSet(S \ {y})
  BY FS_RemoveElement
<1> QED BY <1>2, <1>8, <1>9, Balanced

(***************************************************************************)
(* The list as the module's state.                                         *)
(***************************************************************************)

LEMMA Sizes == /\ MaxInt \in Nat /\ MaxOffset \in Nat /\ MaxOffset <= MaxInt
               /\ MaxLimit \in 1..MaxInt
               /\ IsFiniteSet(Ids) /\ Cardinality(Ids) \in Nat /\ Cardinality(Ids) <= MaxInt
BY IdsAssumption, IntAssumption, FS_CardinalityType

LEMMA MatchingFinite ==
  ASSUME NEW S, S \subseteq Ids
  PROVE  IsFiniteSet(S) /\ Cardinality(S) \in Nat /\ Cardinality(S) <= Cardinality(Ids)
BY Sizes, Smaller

InOrder == Linear(Order, Matching(asked))

LEMMA OrderLinear == TypeOK => InOrder
<1> SUFFICES ASSUME TypeOK PROVE Linear(Order, Matching(asked))
  BY DEF InOrder
<1>1. PICK S : S = Matching(asked)
  OBVIOUS
<1>2. S \subseteq Ids /\ S \subseteq Nat
  BY <1>1, IdsAssumption DEF Matching
<1>3. \A a \in S : rows[a] \in Row /\ rows[a].created \in Nat
  BY <1>1, <1>2, IdsAssumption DEF Matching, Live, TypeOK, Row
<1>4. \A a, b \in S : <<a, b>> \in Order <=> Before(a, b)
  <2> TAKE a, b \in S
  <2>1. <<a, b>> \in S \X S /\ <<a, b>>[1] = a /\ <<a, b>>[2] = b
    OBVIOUS
  <2> QED BY <1>1, <2>1 DEF Order
<1>5. CASE list = "tasks"
  <2>1. \A a, b \in S : <<a, b>> \in Order <=> TaskBefore(a, b)
    BY <1>4, <1>5 DEF Before
  <2> QED BY <1>1, <1>2, <1>3, <2>1 DEF Linear, TaskBefore
<1>6. CASE list # "tasks"
  <2>1. \A a, b \in S : <<a, b>> \in Order <=> a > b
    BY <1>4, <1>6 DEF Before, UserBefore
  <2> QED BY <1>1, <1>2, <2>1 DEF Linear
<1> QED BY <1>5, <1>6

LEMMA OrderLinearNext == TypeOK' => InOrder'
BY OrderLinear, PTL

LEMMA SortedIs ==
  ASSUME TypeOK, NEW s \in Sorted(Matching(asked))
  PROVE  SortedBy(Order, Matching(asked), s)
<1>1. PICK S : S = Matching(asked)
  OBVIOUS
<1>2. s \in SetToSeqs(S) /\ \A i, k \in DOMAIN s : i < k => ~ Before(s[k], s[i])
  BY <1>1 DEF Sorted
<1>3. ASSUME NEW i \in DOMAIN s, NEW k \in DOMAIN s, i < k PROVE <<s[k], s[i]>> \notin Order
  <2>1. SUFFICES ASSUME <<s[k], s[i]>> \in Order PROVE FALSE
    OBVIOUS
  <2>2. PICK a, b : a = s[k] /\ b = s[i]
    OBVIOUS
  <2>3. <<a, b>>[1] = a /\ <<a, b>>[2] = b
    OBVIOUS
  <2>4. Before(a, b)
    BY <2>1, <2>2, <2>3 DEF Order
  <2> QED BY <1>2, <1>3, <2>2, <2>4
<1> QED BY <1>1, <1>2, <1>3 DEF SortedBy

LEMMA WrappedType ==
  ASSUME NEW n \in Int, NEW max \in Nat PROVE Wrapped(n, max) \in Int
BY DEF Wrapped

LEMMA WrappedIs ==
  ASSUME NEW max \in Nat, NEW n \in Nat, n <= max PROVE Wrapped(n, max) = n
BY DEF Wrapped

(* An offset that fits reaches the statement as it should be.              *)
LEMMA OffsetIs ==
  ASSUME NEW q, NEW n \in Nat, n = (q.page - 1) * q.limit, n <= MaxOffset
  PROVE  Stored(Offset(q)) = n
<1>1. n <= MaxInt
  BY Sizes
<1>2. Offset(q) = n
  BY <1>1, Sizes, WrappedIs DEF Offset
<1> QED BY <1>2, Sizes, WrappedIs DEF Stored

LEMMA OffsetType ==
  ASSUME NEW q \in Asked PROVE Stored(Offset(q)) \in Int
<1>1. q.page \in Int /\ q.limit \in Int
  BY Sizes DEF Asked
<1>2. PICK n \in Int : n = (q.page - 1) * q.limit
  BY <1>1
<1>3. Offset(q) \in Int
  BY <1>2, Sizes, WrappedType DEF Offset
<1> QED BY <1>3, Sizes, WrappedType DEF Stored

(* No page is longer than its limit, wherever it begins.                   *)
LEMMA PageLength ==
  ASSUME TypeOK, NEW sorted \in Sorted(Matching(asked))
  PROVE  /\ Page(sorted, asked.limit) \in Seq(Ids)
         /\ Len(Page(sorted, asked.limit)) <= MaxLimit
         /\ Stored(Offset(asked)) >= Cardinality(Ids) => Page(sorted, asked.limit) = <<>>
<1>1. PICK S : S = Matching(asked)
  OBVIOUS
<1>2. S \subseteq Ids
  BY <1>1 DEF Matching
<1>3. PICK c \in Nat : c = Cardinality(S) /\ c <= Cardinality(Ids)
  BY <1>2, MatchingFinite
<1>4. Listed(sorted, c, S)
  BY <1>1, <1>2, <1>3, MatchingFinite, AllOf DEF Sorted
<1>5. PICK limit \in Nat : limit = asked.limit /\ limit <= MaxLimit
  BY Sizes DEF TypeOK, Asked
<1>6. PICK offset \in Int : offset = Stored(Offset(asked))
  BY OffsetType DEF TypeOK
<1>7. PICK from \in Nat : from = (IF offset >= 0 THEN offset ELSE 0)
  <2>1. (IF offset >= 0 THEN offset ELSE 0) \in Nat
    OBVIOUS
  <2> QED BY <2>1
<1>8. Max({offset, 0}) = from /\ Max({from, 0}) = from
  BY <1>7 DEF Max
<1>9. Page(sorted, asked.limit) = Slice(sorted, from, limit)
  BY <1>5, <1>6, <1>8 DEF Page, Slice
<1>10. PICK page : page = Page(sorted, asked.limit)
  OBVIOUS
<1>11. PageOf(page, sorted, c, S, from, limit)
  BY <1>4, <1>9, <1>10, SliceIs
<1>12. page \in Seq(S) /\ (from >= c => page = <<>>)
  BY <1>11 DEF PageOf
<1>13. PICK size \in Nat : Len(page) = size /\ size <= limit
  BY <1>11 DEF PageOf
<1>14. page \in Seq(Ids)
  BY <1>2, <1>12
<1>15. Stored(Offset(asked)) >= Cardinality(Ids) => from >= c
  BY <1>3, <1>6, <1>7, Sizes
<1> QED BY <1>5, <1>10, <1>12, <1>13, <1>14, <1>15, Sizes

(***************************************************************************)
(* The steps, those of the two lists taken together.                       *)
(***************************************************************************)

Start(query) == pc = "idle" /\ query \in Asked /\ Send(query)

Select ==
  /\ pc = "select"
  /\ \E sorted \in Sorted(Matching(asked)) : items' = Page(sorted, asked.limit)
  /\ pc' = "count"
  /\ UNCHANGED <<list, rows, asked, reply, writes, walk>>

Count == pc = "count" /\ Show(Cardinality(Matching(asked)))

(* One row is written; if it was there, it stays and keeps its time.       *)
Change(id) ==
  \E table \in [Ids -> Row \cup {NoRow}] :
    /\ \A a \in Ids \ {id} : table[a] = rows[a]
    /\ rows[id] # NoRow => table[id] # NoRow /\ table[id].created = rows[id].created
    /\ Write(table)

LEMMA TaskQueryType ==
  ASSUME NEW q \in Query, ~ TaskRefused(TaskQuery(q)) PROVE TaskQuery(q) \in Asked
<1>1. PICK page, limit, status, user :
        /\ page = Given(q.page, DefaultPage) /\ limit = Given(q.limit, DefaultLimit)
        /\ status = (IF q.status = Nil THEN Nil ELSE ParseTaskStatus[q.status])
        /\ user = q.user
  OBVIOUS
<1>2. TaskQuery(q) = [page |-> page, limit |-> limit, status |-> status, user |-> user]
  BY <1>1 DEF TaskQuery
<1>3. status # Bad /\ ~ (page < 1) /\ limit \in 1..MaxLimit
  BY <1>2 DEF TaskRefused
<1>4. page \in Ints
  BY <1>1, Sizes, IntAssumption DEF Query, Given, Ints
<1>5. page \in 1..MaxInt
  BY <1>3, <1>4, Sizes DEF Ints
<1>6. status \in Statuses \cup {Nil} /\ user \in Users \cup {Nil}
  BY <1>1, <1>3, SpellingsAssumption DEF Query
<1> QED BY <1>2, <1>3, <1>5, <1>6 DEF Asked

LEMMA UserQueryType ==
  ASSUME NEW q \in Query, ~ UserRefused(UserQuery(q)) PROVE UserQuery(q) \in Asked
<1>1. PICK page, limit : page = Given(q.page, DefaultPage) /\ limit = Given(q.limit, DefaultLimit)
  OBVIOUS
<1>2. UserQuery(q) = [page |-> page, limit |-> limit, status |-> Nil, user |-> Nil]
  BY <1>1 DEF UserQuery
<1>3. ~ (page < 1) /\ limit \in 1..MaxLimit
  BY <1>2 DEF UserRefused
<1>4. page \in Ints
  BY <1>1, Sizes, IntAssumption DEF Query, Given, Ints
<1>5. page \in 1..MaxInt
  BY <1>3, <1>4, Sizes DEF Ints
<1> QED BY <1>2, <1>3, <1>5 DEF Asked

LEMMA InsertIs ==
  ASSUME TypeOK, NEW id \in Ids, Insert(id) PROVE Change(id)
<1>1. PICK created \in Times, status \in Statuses :
        Write([rows EXCEPT ![id] = [created |-> created, status |-> status,
                                    user |-> Nil, deleted |-> FALSE]])
  BY DEF Insert
<1>2. PICK row : row = [created |-> created, status |-> status, user |-> Nil, deleted |-> FALSE]
  OBVIOUS
<1>3. row \in Row
  BY <1>2 DEF Row
<1>4. PICK table : table = [rows EXCEPT ![id] = row]
  OBVIOUS
<1>5. table \in [Ids -> Row \cup {NoRow}] /\ \A a \in Ids \ {id} : table[a] = rows[a]
  BY <1>3, <1>4 DEF TypeOK
<1>6. rows[id] = NoRow /\ Write(table)
  BY <1>1, <1>2, <1>4 DEF Insert
<1> QED BY <1>5, <1>6 DEF Change

LEMMA EditIs ==
  ASSUME TypeOK, NEW id \in Ids, Edit(id) PROVE Change(id)
<1>1. PICK status \in Statuses, user \in Users \cup {Nil} :
        Write([rows EXCEPT ![id].status = status, ![id].user = user])
  BY DEF Edit
<1>2. PICK old \in Row : old = rows[id]
  BY DEF Edit, Live, TypeOK
<1>3. PICK half : half = [old EXCEPT !.status = status]
  OBVIOUS
<1>4. PICK row : row = [half EXCEPT !.user = user]
  OBVIOUS
<1>5. half \in Row /\ half.created = old.created
  BY <1>2, <1>3 DEF Row
<1>6. row \in Row /\ row.created = old.created
  BY <1>4, <1>5 DEF Row
<1>7. PICK first : first = [rows EXCEPT ![id].status = status]
  OBVIOUS
<1>8. PICK table : table = [first EXCEPT ![id].user = user]
  OBVIOUS
<1>9. first = [rows EXCEPT ![id] = half]
  BY <1>2, <1>3, <1>7
<1>10. first \in [Ids -> Row \cup {NoRow}] /\ first[id] = half /\ \A a \in Ids \ {id} : first[a] = rows[a]
  BY <1>5, <1>9 DEF TypeOK
<1>11. table = [first EXCEPT ![id] = row]
  BY <1>4, <1>8, <1>10
<1>12. /\ table \in [Ids -> Row \cup {NoRow}] /\ table[id] = row
       /\ \A a \in Ids \ {id} : table[a] = rows[a]
  BY <1>6, <1>10, <1>11
<1>13. Write(table)
  BY <1>1, <1>7, <1>8
<1>14. row # NoRow /\ row.created = rows[id].created
  BY <1>2, <1>6, RowAssumption
<1> QED BY <1>12, <1>13, <1>14 DEF Change

LEMMA SoftDeleteIs ==
  ASSUME TypeOK, NEW id \in Ids, SoftDelete(id) PROVE Change(id)
<1>1. Write([rows EXCEPT ![id].deleted = TRUE])
  BY DEF SoftDelete
<1>2. PICK old \in Row : old = rows[id]
  BY DEF SoftDelete, Live, TypeOK
<1>3. PICK row : row = [old EXCEPT !.deleted = TRUE]
  OBVIOUS
<1>4. row \in Row /\ row.created = old.created
  BY <1>2, <1>3 DEF Row
<1>5. PICK table : table = [rows EXCEPT ![id].deleted = TRUE]
  OBVIOUS
<1>6. table = [rows EXCEPT ![id] = row]
  BY <1>2, <1>3, <1>5
<1>7. /\ table \in [Ids -> Row \cup {NoRow}] /\ table[id] = row
      /\ \A a \in Ids \ {id} : table[a] = rows[a]
  BY <1>4, <1>6 DEF TypeOK
<1>8. Write(table)
  BY <1>1, <1>5
<1>9. row # NoRow /\ row.created = rows[id].created
  BY <1>2, <1>4, RowAssumption
<1> QED BY <1>7, <1>8, <1>9 DEF Change

LEMMA Steps ==
  ASSUME TypeOK, Next
  PROVE  \/ pc = "idle" /\ Refuse
         \/ \E query : Start(query)
         \/ Continue \/ Select \/ Count \/ Fail
         \/ \E id \in Ids : Change(id)
<1>1. ASSUME NEW q \in Queries, ListTasks(q)
      PROVE  (pc = "idle" /\ Refuse) \/ \E query : Start(query)
  BY <1>1, BoundAssumption, TaskQueryType DEF ListTasks, Start
<1>2. ASSUME NEW q \in Queries, ListUsers(q)
      PROVE  (pc = "idle" /\ Refuse) \/ \E query : Start(query)
  BY <1>2, BoundAssumption, UserQueryType DEF ListUsers, Start
<1>3. SelectTasks \/ SelectUsers => Select
  BY DEF SelectTasks, SelectUsers, Select
<1>4. CountTasks \/ CountUsers => Count
  BY DEF CountTasks, CountUsers, Count
<1>5. ASSUME NEW id \in Ids, Insert(id) \/ Edit(id) \/ SoftDelete(id) PROVE Change(id)
  BY <1>5, InsertIs, EditIs, SoftDeleteIs
<1> QED BY <1>1, <1>2, <1>3, <1>4, <1>5 DEF Next

(* A reading that has just begun.                                          *)
LEMMA FreshAccounted ==
  ASSUME NEW R, NEW S, NEW w, w.seen = {}, w.shown = 0, w.entered = 0, w.left = 0
  PROVE  Accounted(R, S, 0, w)
<1>1. Cardinality({}) = 0
  BY FS_EmptySet
<1>2. Prefix(R, S, 0, {})
  BY <1>1 DEF Prefix
<1>3. w.seen \cap (S \ {}) = {} /\ (w.kept \ w.seen) \cap {} = {}
  OBVIOUS
<1>4. w.shown - Cardinality(w.seen) + Cardinality(w.seen \cap (S \ {})) <= w.entered
  BY <1>1, <1>3
<1>5. Cardinality((w.kept \ w.seen) \cap {}) <= w.left
  BY <1>1, <1>3
<1>6. {} \in SUBSET S
  OBVIOUS
<1> QED BY <1>2, <1>4, <1>5, <1>6 DEF Accounted

LEMMA AccountedFields ==
  ASSUME NEW R, NEW S, NEW n, NEW w, NEW v, Accounted(R, S, n, w),
         v.kept = w.kept, v.seen = w.seen, v.shown = w.shown,
         v.entered = w.entered, v.left = w.left
  PROVE  Accounted(R, S, n, v)
BY DEF Accounted

(* A reading that has come to the end of the list.                         *)
LEMMA EndAccounted ==
  ASSUME NEW R, NEW S, IsFiniteSet(S), NEW n \in Nat, Cardinality(S) <= n,
         NEW w \in Walk, w.kept \subseteq S, IsFiniteSet(w.seen), Accounted(R, S, n, w)
  PROVE  /\ Cardinality(w.kept \ w.seen) <= w.left
         /\ w.shown - Cardinality(w.seen) <= w.entered
<1>1. PICK top : Prefix(R, S, n, top) /\ Balance(w, S, top)
  BY Balanced
<1>2. top = S
  BY <1>1, PrefixWhole
<1>3. Missed(w, top) = w.kept \ w.seen /\ Below(w, S, top) = {}
  BY <1>2 DEF Missed, Below
<1>4. Cardinality({}) = 0
  BY FS_EmptySet
<1>5. PICK shown, entered, seen \in Nat :
        shown = w.shown /\ entered = w.entered /\ seen = Cardinality(w.seen)
  BY FS_CardinalityType DEF Walk
<1>6. shown - seen + 0 <= entered
  BY <1>1, <1>3, <1>4, <1>5 DEF Balance
<1> QED BY <1>1, <1>3, <1>5, <1>6 DEF Balance

(* At any time, no more was shown again than entered.                      *)
LEMMA RepeatsAccounted ==
  ASSUME NEW R, NEW S, IsFiniteSet(S), NEW n,
         NEW w \in Walk, IsFiniteSet(w.seen), Accounted(R, S, n, w)
  PROVE  w.shown - Cardinality(w.seen) <= w.entered
<1>1. PICK top : Prefix(R, S, n, top) /\ Balance(w, S, top)
  BY Balanced
<1>2. PICK shown, entered, seen, below \in Nat :
        /\ shown = w.shown /\ entered = w.entered /\ seen = Cardinality(w.seen)
        /\ below = Cardinality(Below(w, S, top))
  BY <1>1, FS_CardinalityType DEF Walk, Balance
<1>3. shown - seen + below <= entered
  BY <1>1, <1>2 DEF Balance
<1> QED BY <1>2, <1>3

LEMMA WalkFields ==
  ASSUME NEW w \in Walk
  PROVE  /\ w.kept \subseteq Ids /\ w.seen \subseteq Ids
         /\ IsFiniteSet(w.kept) /\ IsFiniteSet(w.seen)
         /\ w.shown \in Nat /\ w.entered \in Nat /\ w.left \in Nat
BY MatchingFinite DEF Walk

LEMMA Classified == {Classify("invalid_input"), Classify("failure"), OK} \subseteq Replies
BY DEF Classify, RouterStatus, StatusOf, Replies, OK

LEMMA SameList ==
  ASSUME UNCHANGED <<list, rows>>, asked'.status = asked.status, asked'.user = asked.user
  PROVE  Matching(asked)' = Matching(asked) /\ Order' = Order
<1>1. Matching(asked)' = Matching(asked)
  BY DEF Matching, Live, Passes
<1>2. \A a, b : Before(a, b)' <=> Before(a, b)
  BY DEF Before, TaskBefore, UserBefore
<1> QED BY <1>1, <1>2 DEF Order

LEMMA RefuseStep ==
  ASSUME IInv, pc = "idle", Refuse PROVE IInv'
<1>1. walk' = NoWalk /\ pc' = "idle" /\ NoWalk \in Walk
  BY DEF Refuse, NoWalk, Walk
<1>2. reply' \in Reply
  BY Classified DEF Refuse, Reply
<1>3. TypeOK'
  BY <1>1, <1>2 DEF IInv, TypeOK, Refuse
<1>4. ~ walk'.open /\ ~ walk'.complete
  BY <1>1 DEF NoWalk
<1> QED BY <1>1, <1>3, <1>4 DEF IInv, PositionSmall, ReadingAccounted, Reading, NoneOpen,
                               CompleteSettled, NothingPastTheEnd

LEMMA StartStep ==
  ASSUME IInv, NEW query, Start(query) PROVE IInv'
<1>1. /\ query \in Asked /\ asked' = query /\ pc' = "select" /\ reply' = NoReply
      /\ UNCHANGED <<list, rows, items, writes>>
  BY DEF Start, Send
<1>2. Matching(asked)' = Matching(query) /\ Matching(query) \subseteq Ids
  BY <1>1 DEF Matching, Live, Passes
<1>3. PICK S : S = Matching(query)
  OBVIOUS
<1>4. NoWalk \in Walk /\ ~ NoWalk.open /\ ~ NoWalk.complete
  BY DEF NoWalk, Walk
<1>5. CASE query.page = 1
  <2>1. PICK begun : begun = [NoWalk EXCEPT !.open = TRUE, !.kept = S]
    OBVIOUS
  <2>2. walk' = begun
    BY <1>3, <1>5, <2>1 DEF Start, Send
  <2>3. begun = [open |-> TRUE, complete |-> FALSE, kept |-> S, seen |-> {},
                 shown |-> 0, entered |-> 0, left |-> 0]
    BY <2>1 DEF NoWalk
  <2>4. /\ begun \in Walk /\ begun.open /\ ~ begun.complete /\ begun.kept = S
        /\ begun.seen = {} /\ begun.shown = 0 /\ begun.entered = 0 /\ begun.left = 0
    BY <1>2, <1>3, <2>3 DEF Walk
  <2>5. TypeOK'
    BY <1>1, <2>2, <2>4 DEF IInv, TypeOK
  <2>6. Position' = 0
    <3>1. query.limit \in Int /\ query.page = 1
      BY <1>1, <1>5, Sizes DEF Asked
    <3> QED BY <1>1, <3>1 DEF Position
  <2>7. Accounted(Order, Matching(asked), Position, walk)'
    BY <2>2, <2>4, <2>6, FreshAccounted
  <2> QED BY <1>1, <1>2, <1>3, <2>2, <2>4, <2>5, <2>6, <2>7
          DEF IInv, PositionSmall, ReadingAccounted, NoneOpen, CompleteSettled, NothingPastTheEnd
<1>6. CASE query.page # 1
  <2>1. walk' = NoWalk
    BY <1>6 DEF Start, Send
  <2>2. TypeOK'
    BY <1>1, <1>4, <2>1 DEF IInv, TypeOK
  <2> QED BY <1>1, <1>4, <2>1, <2>2 DEF IInv, PositionSmall, ReadingAccounted, Reading, NoneOpen,
                                        CompleteSettled, NothingPastTheEnd
<1> QED BY <1>5, <1>6

(* Numbers of a page, apart from the state.                                *)
LEMMA PageNumbers ==
  ASSUME TypeOK
  PROVE  \E page, limit, begin, end \in Nat :
           /\ page = asked.page /\ limit = asked.limit /\ page >= 1 /\ limit >= 1
           /\ page <= MaxInt /\ limit <= MaxLimit
           /\ begin = (asked.page - 1) * asked.limit /\ end = asked.page * asked.limit
           /\ end = begin + limit /\ page <= end
           /\ Fits(asked) <=> begin <= MaxOffset
<1>1. PICK page, limit \in Nat : /\ page = asked.page /\ limit = asked.limit
                                 /\ page >= 1 /\ limit >= 1
                                 /\ page <= MaxInt /\ limit <= MaxLimit
  BY Sizes DEF TypeOK, Asked
<1>2. PICK before \in Nat : page = before + 1
  <2>1. page - 1 \in Nat /\ page = (page - 1) + 1
    BY <1>1
  <2> QED BY <2>1
<1>3. PICK begin \in Nat : begin = before * limit
  OBVIOUS
<1>4. page * limit = begin + limit /\ (page - 1) * limit = begin
  <2>1. (before + 1) * limit = before * limit + limit
    OBVIOUS
  <2>2. page - 1 = before
    BY <1>2
  <2> QED BY <1>2, <1>3, <2>1, <2>2
<1>5. page <= begin + limit
  <2>1. before * limit >= before
    <3>1. \A a, b \in Nat : b >= 1 => a * b >= a
      OBVIOUS
    <3> QED BY <1>1, <3>1
  <2> QED BY <1>1, <1>2, <1>3, <2>1
<1>6. Fits(asked) <=> begin <= MaxOffset
  <2>1. (asked.page - 1) * asked.limit = begin
    BY <1>1, <1>4
  <2> QED BY <2>1 DEF Fits
<1> QED BY <1>1, <1>3, <1>4, <1>5, <1>6

LEMMA ContinueStep ==
  ASSUME IInv, Continue PROVE IInv'
<1>1. /\ pc = "idle" /\ Reading /\ pc' = "select" /\ reply' = NoReply
      /\ UNCHANGED <<list, rows, items, writes, walk>> /\ TypeOK
  BY DEF IInv, Continue, Reading
<1>2. PICK page, limit, begin, end \in Nat :
           /\ page = asked.page /\ limit = asked.limit /\ page >= 1 /\ limit >= 1
           /\ page <= MaxInt /\ limit <= MaxLimit
           /\ begin = (asked.page - 1) * asked.limit /\ end = asked.page * asked.limit
           /\ end = begin + limit /\ page <= end
           /\ Fits(asked) <=> begin <= MaxOffset
  BY <1>1, PageNumbers
<1>3. PICK number \in Nat : number = IF reply.err = "none" THEN page + 1 ELSE page
  <2>1. (IF reply.err = "none" THEN page + 1 ELSE page) \in Nat
    OBVIOUS
  <2> QED BY <2>1
<1>4. asked \in Asked
  BY <1>1 DEF TypeOK
<1>5. /\ asked'.page = number /\ asked'.limit = limit
      /\ asked'.status = asked.status /\ asked'.user = asked.user
      /\ asked' = [page |-> number, limit |-> limit, status |-> asked.status, user |-> asked.user]
  BY <1>2, <1>3, <1>4 DEF Continue, Asked
<1>6. Position' = (number - 1) * limit
  BY <1>1, <1>5 DEF Position
<1>7. Position' = Position
  <2>1. CASE reply.err = "none"
    <3>1. Position = end /\ number - 1 = page
      BY <1>1, <1>2, <1>3, <2>1 DEF Position
    <3> QED BY <1>2, <1>6, <3>1
  <2>2. CASE reply.err # "none"
    <3>1. Position = begin /\ number = page
      BY <1>1, <1>2, <1>3, <2>2 DEF Position
    <3> QED BY <1>2, <1>6, <3>1
  <2> QED BY <2>1, <2>2
<1>8. number \in 1..MaxInt
  <2>1. CASE reply.err = "none"
    <3>1. Position = end
      BY <1>1, <1>2, <2>1 DEF Position
    <3>2. end = 0 \/ end < Cardinality(Ids)
      BY <1>1, <3>1 DEF IInv, PositionSmall
    <3> QED BY <1>2, <1>3, <2>1, <3>2, Sizes
  <2>2. CASE reply.err # "none"
    BY <1>2, <1>3, <2>2, Sizes
  <2> QED BY <2>1, <2>2
<1>9. asked' \in Asked
  BY <1>2, <1>4, <1>5, <1>8, Sizes DEF Asked
<1>10. TypeOK'
  BY <1>1, <1>9 DEF TypeOK
<1>11. Matching(asked)' = Matching(asked) /\ Order' = Order
  BY <1>1, <1>5, SameList
<1>12. Fits(asked)' => Fits(asked)
  <2>1. Position' = (asked'.page - 1) * asked'.limit
    BY <1>1 DEF Position
  <2>2. Position \in {begin, end} /\ begin <= end
    BY <1>2 DEF Position
  <2>3. Fits(asked)' => Position <= MaxOffset
    BY <1>7, <2>1 DEF Fits
  <2> QED BY <1>2, <2>2, <2>3, Sizes
<1>13. PositionSmall'
  BY <1>1, <1>7 DEF IInv, PositionSmall, Reading
<1>14. ReadingAccounted'
  BY <1>1, <1>7, <1>11, <1>12 DEF IInv, ReadingAccounted, Reading
<1> QED BY <1>1, <1>10, <1>13, <1>14
        DEF IInv, NoneOpen, CompleteSettled, NothingPastTheEnd, Reading

LEMMA FailStep ==
  ASSUME IInv, Fail PROVE IInv'
<1>1. /\ pc # "idle" /\ pc' = "idle" /\ items' = <<>> /\ TypeOK
      /\ reply' = [err |-> "failure", code |-> Classify("failure")]
      /\ UNCHANGED <<list, rows, asked, writes, walk>>
  BY DEF IInv, Fail
<1>2. reply' \in Reply /\ reply'.err # "none"
  BY <1>1, Classified DEF Reply
<1>3. <<>> \in Seq(Ids) /\ Len(<<>>) <= MaxLimit
  BY Sizes
<1>4. TypeOK'
  BY <1>1, <1>2, <1>3 DEF TypeOK
<1>5. Position' = Position
  BY <1>1, <1>2 DEF Position
<1>6. Matching(asked)' = Matching(asked) /\ Order' = Order
  BY <1>1, SameList
<1>7. PositionSmall' /\ ReadingAccounted'
  BY <1>1, <1>5, <1>6 DEF IInv, PositionSmall, ReadingAccounted, Reading, Fits
<1> QED BY <1>1, <1>4, <1>7 DEF IInv, NoneOpen, CompleteSettled, NothingPastTheEnd


LEMMA ShownIs ==
  ASSUME NEW w \in Walk, NEW page \in Seq(Ids), NEW complete \in BOOLEAN,
         NEW v, v = [w EXCEPT !.seen = @ \cup ToSet(page), !.shown = @ + Len(page),
                              !.complete = complete]
  PROVE  Shown(v, w, page) /\ v.complete = complete
<1>1. PICK seen, shown : seen = w.seen \cup ToSet(page) /\ shown = w.shown + Len(page)
  OBVIOUS
<1>2. ToSet(page) \subseteq Ids /\ Len(page) \in Nat
  BY DEF ToSet
<1>3. w.shown \in Nat /\ w.seen \subseteq Ids
  BY DEF Walk
<1>4. shown \in Nat /\ seen \subseteq Ids
  BY <1>1, <1>2, <1>3
<1>5. v = [w EXCEPT !.seen = seen, !.shown = shown, !.complete = complete]
  BY <1>1
<1>6. /\ v \in Walk /\ v.kept = w.kept /\ v.seen = seen
      /\ v.shown = shown /\ v.entered = w.entered /\ v.left = w.left
      /\ v.open = w.open /\ v.complete = complete
  BY ONLY <1>4, <1>5, w \in Walk, complete \in BOOLEAN DEF Walk
<1> QED BY <1>1, <1>6 DEF Shown

LEMMA SelectStep ==
  ASSUME IInv, Select PROVE IInv'
<1>1. /\ pc = "select" /\ pc' = "count" /\ TypeOK
      /\ UNCHANGED <<list, rows, asked, reply, writes, walk>>
  BY DEF IInv, Select
<1>2. PICK sorted \in Sorted(Matching(asked)) : items' = Page(sorted, asked.limit)
  BY DEF Select
<1>3. /\ items' \in Seq(Ids) /\ Len(items') <= MaxLimit
      /\ Stored(Offset(asked)) >= Cardinality(Ids) => items' = <<>>
  BY <1>1, <1>2, PageLength
<1>4. TypeOK'
  BY <1>1, <1>3 DEF TypeOK
<1>5. PICK page, limit, begin, end \in Nat :
           /\ page = asked.page /\ limit = asked.limit /\ page >= 1 /\ limit >= 1
           /\ page <= MaxInt /\ limit <= MaxLimit
           /\ begin = (asked.page - 1) * asked.limit /\ end = asked.page * asked.limit
           /\ end = begin + limit /\ page <= end
           /\ Fits(asked) <=> begin <= MaxOffset
  BY <1>1, PageNumbers
<1>6. begin <= MaxOffset => Stored(Offset(asked)) = begin
  BY <1>5, OffsetIs
<1>7. NothingPastTheEnd'
  <2>1. SUFFICES ASSUME begin >= Cardinality(Ids), begin <= MaxOffset PROVE items' = <<>>
    BY <1>1, <1>5 DEF NothingPastTheEnd, Fits
  <2> QED BY <1>3, <1>6, <2>1
<1>8. Position = begin /\ Position' = begin
  BY <1>1, <1>5 DEF Position
<1>9. Matching(asked)' = Matching(asked) /\ Order' = Order
  BY <1>1, SameList
<1>10. PositionSmall'
  BY <1>1, <1>8 DEF IInv, PositionSmall, Reading
<1>11. ASSUME Reading, Fits(asked)
       PROVE  Accounted(Order', Matching(asked)', (asked.page * asked.limit)', Ahead')
  <2>1. PICK R, S : R = Order /\ S = Matching(asked)
    OBVIOUS
  <2>2. IsFiniteSet(S)
    BY <2>1, MatchingFinite DEF Matching
  <2>3. Linear(R, S) /\ SortedBy(R, S, sorted)
    BY <1>1, <1>2, <2>1, OrderLinear, SortedIs DEF InOrder
  <2>4. begin <= MaxOffset
    BY <1>5, <1>11
  <2>5. items' = Slice(sorted, begin, limit)
    BY <1>2, <1>5, <1>6, <2>4 DEF Page
  <2>6. PICK shown : shown = items'
    OBVIOUS
  <2>7. PICK w : w = walk /\ w \in Walk /\ IsFiniteSet(w.seen)
    BY <1>1, WalkFields DEF TypeOK
  <2>8. PICK v : v = [w EXCEPT !.seen = @ \cup ToSet(shown), !.shown = @ + Len(shown),
                               !.complete = w.complete]
    OBVIOUS
  <2>9. Shown(v, w, shown)
    <3>1. w.complete \in BOOLEAN /\ shown \in Seq(Ids)
      BY <1>3, <2>6, <2>7 DEF Walk
    <3> QED BY <2>7, <2>8, <3>1, ShownIs
  <2>10. Accounted(R, S, begin, w)
    BY <1>8, <1>11, <2>1, <2>7 DEF IInv, ReadingAccounted
  <2>11. shown = Slice(sorted, begin, limit)
    BY <2>5, <2>6
  <2>12. Accounted(R, S, end, v)
    <3>1. end = begin + limit
      BY <1>5
    <3> QED BY ONLY <2>2, <2>3, <2>7, <2>9, <2>10, <2>11, <3>1, FetchAccounted,
                    begin \in Nat, limit \in Nat, end \in Nat
  <2>13. Ahead' = v
    BY <1>1, <2>6, <2>7, <2>8 DEF Ahead, Walk
  <2>14. (asked.page * asked.limit)' = end
    BY <1>1, <1>5
  <2> QED BY <1>9, <2>1, <2>12, <2>13, <2>14
<1>12. ReadingAccounted'
  BY <1>1, <1>8, <1>9, <1>11 DEF IInv, ReadingAccounted, Reading, Fits
<1>13. CompleteSettled'
  BY <1>1 DEF IInv, CompleteSettled
<1> QED BY <1>1, <1>4, <1>7, <1>10, <1>12, <1>13 DEF IInv, NoneOpen


LEMMA CountStep ==
  ASSUME IInv, Count PROVE IInv'
<1>1. /\ pc = "count" /\ pc' = "idle" /\ items' = <<>> /\ TypeOK
      /\ reply' = [err |-> "none", code |-> OK]
      /\ UNCHANGED <<list, rows, asked, writes>>
  BY DEF IInv, Count, Show
<1>2. reply' \in Reply /\ reply'.err = "none"
  BY <1>1, Classified DEF Reply
<1>3. <<>> \in Seq(Ids) /\ Len(<<>>) <= MaxLimit
  BY Sizes
<1>4. PICK page, limit, begin, end \in Nat :
           /\ page = asked.page /\ limit = asked.limit /\ page >= 1 /\ limit >= 1
           /\ page <= MaxInt /\ limit <= MaxLimit
           /\ begin = (asked.page - 1) * asked.limit /\ end = asked.page * asked.limit
           /\ end = begin + limit /\ page <= end
           /\ Fits(asked) <=> begin <= MaxOffset
  BY <1>1, PageNumbers
<1>5. Position' = end
  BY <1>1, <1>2, <1>4 DEF Position
<1>6. Matching(asked)' = Matching(asked) /\ Order' = Order
  BY <1>1, SameList
<1>7. PICK w : w = walk /\ w \in Walk
  BY <1>1 DEF TypeOK
<1>8. ~ w.complete
  BY <1>1, <1>7 DEF IInv, CompleteSettled
<1>9. CASE ~ w.open
  <2>1. walk' = walk
    BY <1>7, <1>9 DEF Count, Show
  <2>2. TypeOK'
    BY <1>1, <1>2, <1>3, <2>1 DEF TypeOK
  <2> QED BY <1>1, <1>7, <1>8, <1>9, <2>1, <2>2
          DEF IInv, PositionSmall, ReadingAccounted, Reading, NoneOpen, CompleteSettled,
              NothingPastTheEnd
<1>10. CASE w.open
  <2>1. PICK total \in Nat : total = Cardinality(Matching(asked)) /\ total <= Cardinality(Ids)
    BY MatchingFinite DEF Matching
  <2>2. PICK complete \in BOOLEAN : complete = (end >= total)
    <3>1. (end >= total) \in BOOLEAN
      OBVIOUS
    <3> QED BY <3>1, Zenon
  <2>3. PICK shown : shown = items
    OBVIOUS
  <2>4. PICK v : v = [w EXCEPT !.seen = @ \cup ToSet(shown), !.shown = @ + Len(shown),
                               !.complete = complete]
    OBVIOUS
  <2>5. walk' = v
    BY <1>4, <1>7, <1>10, <2>1, <2>2, <2>3, <2>4 DEF Count, Show
  <2>6. Shown(v, w, shown) /\ v.complete = complete
    <3>1. shown \in Seq(Ids)
      BY <1>1, <2>3 DEF TypeOK
    <3> QED BY <1>7, <2>4, <3>1, ShownIs
  <2>7. v \in Walk /\ v.open /\ v.kept = w.kept
    BY <1>10, <2>6 DEF Shown
  <2>8. TypeOK'
    BY <1>1, <1>2, <1>3, <2>5, <2>7 DEF TypeOK
  <2>9. PICK R, S : R = Order /\ S = Matching(asked) /\ IsFiniteSet(S)
    BY MatchingFinite DEF Matching
  <2>10. Reading
    BY <1>7, <1>8, <1>10 DEF Reading
  <2>11. w.kept \subseteq S
    BY <1>7, <2>9, <2>10 DEF IInv, ReadingAccounted
  <2>12. Fits(asked) => Accounted(R, S, end, v)
    <3> SUFFICES ASSUME Fits(asked) PROVE Accounted(R, S, end, v)
      OBVIOUS
    <3>1. PICK u : u = Ahead
      OBVIOUS
    <3>2. Accounted(R, S, end, u)
      BY <1>1, <1>4, <2>9, <2>10, <3>1 DEF IInv, ReadingAccounted
    <3>3. /\ v.kept = u.kept /\ v.seen = u.seen /\ v.shown = u.shown
          /\ v.entered = u.entered /\ v.left = u.left
      BY <1>7, <2>3, <2>4, <3>1 DEF Ahead, Walk
    <3> QED BY <3>2, <3>3, AccountedFields
  <2>13. CASE complete
    <3>1. Fits(asked) => /\ Cardinality(v.kept \ v.seen) <= v.left
                         /\ v.shown - Cardinality(v.seen) <= v.entered
      <4>1. Cardinality(S) <= end /\ IsFiniteSet(v.seen) /\ v.kept \subseteq S
        BY <2>1, <2>2, <2>7, <2>9, <2>11, <2>13, WalkFields
      <4> QED BY <2>7, <2>9, <2>12, <4>1, EndAccounted
    <3> QED BY <1>1, <2>5, <2>6, <2>7, <2>8, <2>13, <3>1
            DEF IInv, PositionSmall, ReadingAccounted, Reading, NoneOpen, CompleteSettled,
                NothingPastTheEnd, Fits
  <2>14. CASE ~ complete
    <3>1. end < Cardinality(Ids)
      <4>1. ~ (end >= total)
        BY <2>2, <2>14, Zenon
      <4> QED BY <2>1, <4>1, Sizes
    <3>2. PositionSmall'
      BY <1>5, <3>1 DEF PositionSmall
    <3>3. ReadingAccounted'
      <4>1. Fits(asked) => Accounted(Order, Matching(asked), Position, walk)'
        BY <1>5, <1>6, <2>5, <2>9, <2>12
      <4>2. walk'.kept \subseteq Matching(asked)'
        BY <1>6, <2>5, <2>7, <2>9, <2>11
      <4> QED BY <1>1, <4>1, <4>2 DEF ReadingAccounted, Fits
    <3> QED BY <1>1, <2>5, <2>6, <2>7, <2>8, <2>14, <3>2, <3>3
            DEF IInv, NoneOpen, CompleteSettled, NothingPastTheEnd
  <2> QED BY <2>13, <2>14
<1> QED BY <1>9, <1>10


(* What a reading w that becomes v is charged for when the list S becomes T  *)
(* by a change of one row.                                                 *)
Charged(S, T, id, w, v) ==
  /\ w \in Walk /\ v \in Walk /\ v.seen = w.seen /\ v.shown = w.shown
  /\ v.open = w.open /\ v.complete = w.complete
  /\ \/ T = S /\ v.kept = w.kept /\ v.entered = w.entered /\ v.left = w.left
     \/ /\ id \notin S /\ T = S \cup {id}
        /\ v.kept = w.kept /\ v.entered = w.entered + 1 /\ v.left = w.left
     \/ /\ id \in S /\ T = S \ {id}
        /\ v.kept = w.kept \ {id} /\ v.entered = w.entered /\ v.left = w.left + 1

LEMMA ChangeAccounted ==
  ASSUME NEW R, NEW S, IsFiniteSet(S), Linear(R, S), NEW Q, NEW T, Linear(Q, T),
         \A a, b \in S \cap T : <<a, b>> \in R <=> <<a, b>> \in Q,
         NEW id, NEW w, NEW v, Charged(S, T, id, w, v), w.kept \subseteq S,
         NEW n \in Nat, Accounted(R, S, n, w)
  PROVE  Accounted(Q, T, n, v) /\ v.kept \subseteq T
<1>1. /\ w \in Walk /\ v \in Walk /\ v.seen = w.seen /\ v.shown = w.shown
      /\ IsFiniteSet(w.seen)
  BY WalkFields DEF Charged
<1>2. CASE T = S /\ v.kept = w.kept /\ v.entered = w.entered /\ v.left = w.left
  <2>1. Accounted(Q, S, n, w)
    BY <1>2, AccountedSame
  <2> QED BY <1>1, <1>2, <2>1, AccountedFields
<1>3. CASE /\ id \notin S /\ T = S \cup {id}
           /\ v.kept = w.kept /\ v.entered = w.entered + 1 /\ v.left = w.left
  <2>1. Accounted(Q, S, n, w)
    BY <1>3, AccountedSame
  <2>2. Accounted(Q, S \cup {id}, n, v)
    BY <1>1, <1>3, <2>1, EnterAccounted
  <2> QED BY <1>3, <2>2
<1>4. CASE /\ id \in S /\ T = S \ {id}
           /\ v.kept = w.kept \ {id} /\ v.entered = w.entered /\ v.left = w.left + 1
  <2>1. Accounted(R, S \ {id}, n, v)
    BY <1>1, <1>4, LeaveAccounted
  <2>2. Accounted(Q, T, n, v)
    BY <1>4, <2>1, AccountedSame
  <2> QED BY <1>4, <2>2
<1> QED BY <1>2, <1>3, <1>4 DEF Charged

(* The rows of the list before and after a change of one.                  *)
LEMMA ChangeList ==
  ASSUME TypeOK, NEW id \in Ids, Change(id)
  PROVE  /\ UNCHANGED <<list, pc, asked, items, reply>>
         /\ rows' \in [Ids -> Row \cup {NoRow}] /\ writes' \in 0..MaxWrites
         /\ Matching(asked)' \subseteq Ids
         /\ Matching(asked)' \ {id} = Matching(asked) \ {id}
         /\ \A a, b \in Matching(asked) \cap Matching(asked)' :
               <<a, b>> \in Order <=> <<a, b>> \in Order'
<1>1. PICK table \in [Ids -> Row \cup {NoRow}] :
        /\ \A a \in Ids \ {id} : table[a] = rows[a]
        /\ rows[id] # NoRow => table[id] # NoRow /\ table[id].created = rows[id].created
        /\ Write(table)
  BY DEF Change
<1>2. rows' = table /\ UNCHANGED <<list, pc, asked, items, reply>> /\ writes < MaxWrites
      /\ writes' = writes + 1
  BY <1>1 DEF Write
<1>3. writes' \in 0..MaxWrites
  BY <1>2, BoundAssumption DEF TypeOK
<1>4. PICK S, T : S = Matching(asked) /\ T = Matching(asked)'
  OBVIOUS
<1>5. \A a \in Ids \ {id} : a \in T <=> a \in S
  BY <1>1, <1>2, <1>4 DEF Matching, Live, Passes
<1>6. T \subseteq Ids /\ S \subseteq Ids
  BY <1>4 DEF Matching
<1>7. \A a \in S \cap T : rows[a].created = table[a].created
  <2>1. \A a \in S : a \in Ids /\ rows[a] # NoRow
    BY <1>4 DEF Matching, Live
  <2> QED BY <1>1, <2>1
<1>8. ASSUME NEW a \in S \cap T, NEW b \in S \cap T
      PROVE  <<a, b>> \in Order <=> <<a, b>> \in Order'
  <2>1. <<a, b>> \in S \X S /\ <<a, b>> \in T \X T /\ <<a, b>>[1] = a /\ <<a, b>>[2] = b
    OBVIOUS
  <2>2. Before(a, b) <=> Before(a, b)'
    BY <1>2, <1>7 DEF Before, TaskBefore, UserBefore
  <2>3. <<a, b>> \in Order <=> Before(a, b)
    BY <1>4, <2>1 DEF Order
  <2>4. <<a, b>> \in Order' <=> Before(a, b)'
    BY <1>4, <2>1 DEF Order
  <2> QED BY <2>2, <2>3, <2>4
<1> QED BY <1>1, <1>2, <1>3, <1>4, <1>5, <1>6, <1>8


LEMMA ChangeCharged ==
  ASSUME TypeOK, Reading, NEW id \in Ids, Change(id)
  PROVE  Charged(Matching(asked), Matching(asked)', id, walk, walk')
<1>1. PICK S, T : /\ S = Matching(asked) /\ T = Matching(asked)'
                  /\ T \ {id} = S \ {id}
  BY ChangeList
<1>2. PICK w : w = walk /\ w \in Walk /\ w.open /\ ~ w.complete
  BY DEF TypeOK, Reading
<1>3. PICK entered, left : entered = T \ S /\ left = S \ T
  OBVIOUS
<1>4. walk' = [w EXCEPT !.kept = @ \ left, !.entered = @ + Cardinality(entered),
                        !.left = @ + Cardinality(left)]
  BY <1>1, <1>2, <1>3 DEF Change, Write
<1>5. Cardinality({}) = 0 /\ Cardinality({id}) = 1
  BY FS_EmptySet, FS_Singleton
<1>6. PICK v : v = walk'
  OBVIOUS
<1>7. w.entered \in Nat /\ w.left \in Nat /\ w.kept \subseteq Ids
  BY <1>2, WalkFields
<1>8. \/ T = S /\ entered = {} /\ left = {}
      \/ id \notin S /\ T = S \cup {id} /\ entered = {id} /\ left = {}
      \/ id \in S /\ T = S \ {id} /\ entered = {} /\ left = {id}
  BY <1>1, <1>3
<1>9. PICK kept, more, less :
        kept = w.kept \ left /\ more = w.entered + Cardinality(entered)
        /\ less = w.left + Cardinality(left)
  OBVIOUS
<1>10. kept \subseteq Ids /\ more \in Nat /\ less \in Nat
  BY <1>5, <1>7, <1>8, <1>9
<1>11. v = [w EXCEPT !.kept = kept, !.entered = more, !.left = less]
  BY <1>4, <1>6, <1>9
<1>12. /\ v \in Walk /\ v.seen = w.seen /\ v.shown = w.shown
       /\ v.open = w.open /\ v.complete = w.complete
       /\ v.kept = kept /\ v.entered = more /\ v.left = less
  BY ONLY <1>2, <1>10, <1>11 DEF Walk
<1>13. Charged(S, T, id, w, v)
  <2>1. ASSUME entered = {} /\ left = {}
        PROVE  kept = w.kept /\ more = w.entered /\ less = w.left
    BY <1>5, <1>7, <1>9, <2>1
  <2>2. ASSUME entered = {id} /\ left = {}
        PROVE  kept = w.kept /\ more = w.entered + 1 /\ less = w.left
    BY <1>5, <1>7, <1>9, <2>2
  <2>3. ASSUME entered = {} /\ left = {id}
        PROVE  kept = w.kept \ {id} /\ more = w.entered /\ less = w.left + 1
    BY <1>5, <1>7, <1>9, <2>3
  <2> QED BY ONLY <1>2, <1>8, <1>12, <2>1, <2>2, <2>3, Zenon DEF Charged
<1> QED BY <1>1, <1>2, <1>6, <1>13

LEMMA ChangeChargedAhead ==
  ASSUME TypeOK, Reading, NEW id \in Ids, Change(id)
  PROVE  Charged(Matching(asked), Matching(asked)', id, Ahead, Ahead')
<1>1. PICK S, T : S = Matching(asked) /\ T = Matching(asked)'
  OBVIOUS
<1>2. PICK w, v : w = walk /\ v = walk'
  OBVIOUS
<1>3. Charged(S, T, id, w, v)
  BY <1>1, <1>2, ChangeCharged
<1>4. PICK page \in Seq(Ids) : page = items /\ page = items'
  BY ChangeList DEF TypeOK
<1>5. PICK x : x = [w EXCEPT !.seen = @ \cup ToSet(page), !.shown = @ + Len(page),
                             !.complete = w.complete]
  OBVIOUS
<1>6. PICK y : y = [v EXCEPT !.seen = @ \cup ToSet(page), !.shown = @ + Len(page),
                             !.complete = v.complete]
  OBVIOUS
<1>7. w \in Walk /\ v \in Walk /\ w.complete \in BOOLEAN /\ v.complete \in BOOLEAN
  BY <1>3 DEF Charged, Walk
<1>8. Shown(x, w, page) /\ x.complete = w.complete
  BY <1>5, <1>7, ShownIs
<1>9. Shown(y, v, page) /\ y.complete = v.complete
  BY <1>6, <1>7, ShownIs
<1>10. x = Ahead /\ y = Ahead'
  BY <1>2, <1>4, <1>5, <1>6, <1>7 DEF Ahead, Walk
<1>11. Charged(S, T, id, x, y)
  BY <1>3, <1>8, <1>9 DEF Charged, Shown
<1> QED BY <1>1, <1>10, <1>11


LEMMA ChangeStep ==
  ASSUME IInv, NEW id \in Ids, Change(id) PROVE IInv'
<1>1. /\ TypeOK
      /\ UNCHANGED <<list, pc, asked, items, reply>>
      /\ rows' \in [Ids -> Row \cup {NoRow}] /\ writes' \in 0..MaxWrites
  BY ChangeList DEF IInv
<1>2. Position' = Position /\ NothingPastTheEnd' /\ Fits(asked)' = Fits(asked)
  BY <1>1 DEF IInv, Position, NothingPastTheEnd, Fits
<1>3. CASE ~ Reading
  <2>1. walk' = walk
    BY <1>3 DEF Change, Write, Reading
  <2>2. TypeOK'
    BY <1>1, <2>1 DEF TypeOK
  <2>3. ~ Reading'
    BY <1>3, <2>1 DEF Reading
  <2> QED BY <1>1, <1>2, <2>1, <2>2, <2>3
          DEF IInv, PositionSmall, ReadingAccounted, NoneOpen, CompleteSettled
<1>4. CASE Reading
  <2>1. PICK S, T, R, Q : /\ S = Matching(asked) /\ T = Matching(asked)'
                          /\ R = Order /\ Q = Order'
    OBVIOUS
  <2>2. PICK w, v, x, y : w = walk /\ v = walk' /\ x = Ahead /\ y = Ahead'
    OBVIOUS
  <2>3. Charged(S, T, id, w, v) /\ Charged(S, T, id, x, y)
    BY <1>1, <1>4, <2>1, <2>2, ChangeCharged, ChangeChargedAhead
  <2>4. v \in Walk /\ v.open = w.open /\ v.complete = w.complete
    BY <2>3 DEF Charged
  <2>5. Reading' /\ TypeOK'
    BY <1>1, <1>4, <2>2, <2>4 DEF Reading, TypeOK
  <2>6. Linear(R, S) /\ Linear(Q, T)
    BY <1>1, <2>1, <2>5, OrderLinear, OrderLinearNext DEF InOrder
  <2>7. /\ IsFiniteSet(S)
        /\ \A a, b \in S \cap T : <<a, b>> \in R <=> <<a, b>> \in Q
    BY <1>1, <2>1, ChangeList, MatchingFinite DEF Matching
  <2>8. PICK begin, end \in Nat : begin = Position /\ end = asked.page * asked.limit
    BY <1>1, PageNumbers DEF Position
  <2>9. w.kept \subseteq S /\ x.kept \subseteq S
    BY <1>1, <1>4, <2>1, <2>2 DEF IInv, ReadingAccounted, Ahead, TypeOK, Walk
  <2>10. Fits(asked) => /\ Accounted(R, S, begin, w)
                        /\ pc = "count" => Accounted(R, S, end, x)
    BY <1>4, <2>1, <2>2, <2>8 DEF IInv, ReadingAccounted
  <2>11. v.kept \subseteq T /\ (Fits(asked) => Accounted(Q, T, begin, v))
    <3>1. v.kept \subseteq T
      BY <2>3, <2>9 DEF Charged
    <3> QED BY <2>3, <2>6, <2>7, <2>9, <2>10, <3>1, ChangeAccounted
  <2>12. Fits(asked) /\ pc = "count" => Accounted(Q, T, end, y)
    BY <2>3, <2>6, <2>7, <2>9, <2>10, ChangeAccounted
  <2>13. PositionSmall'
    BY <1>2, <1>4 DEF IInv, PositionSmall
  <2>14. ReadingAccounted'
    <3>1. (asked.page * asked.limit)' = end
      BY <1>1, <2>8
    <3> QED BY <1>1, <1>2, <2>1, <2>2, <2>8, <2>11, <2>12, <3>1 DEF ReadingAccounted
  <2> QED BY <1>1, <1>2, <1>4, <2>2, <2>4, <2>5, <2>13, <2>14
          DEF IInv, NoneOpen, CompleteSettled, Reading
<1> QED BY <1>3, <1>4

LEMMA IInvInit ==
  ASSUME Init PROVE IInv
<1>1. walk = NoWalk /\ NoWalk \in Walk /\ ~ walk.open /\ ~ walk.complete
  BY DEF Init, NoWalk, Walk
<1>2. rows \in [Ids -> Row \cup {NoRow}] /\ writes \in 0..MaxWrites
  BY BoundAssumption DEF Init
<1>3. asked \in Asked
  BY Sizes DEF Init, Asked
<1>4. items \in Seq(Ids) /\ Len(items) <= MaxLimit
  BY Sizes DEF Init
<1>5. TypeOK
  BY <1>1, <1>2, <1>3, <1>4 DEF Init, TypeOK
<1> QED BY <1>1, <1>5 DEF Init, IInv, PositionSmall, ReadingAccounted, Reading, NoneOpen,
                          CompleteSettled, NothingPastTheEnd

LEMMA IInvStep ==
  ASSUME IInv, [Next]_vars PROVE IInv'
<1>1. CASE Next
  <2>1. TypeOK
    BY DEF IInv
  <2>2. ASSUME pc = "idle" /\ Refuse PROVE IInv'
    BY <2>2, RefuseStep
  <2>3. ASSUME NEW query, Start(query) PROVE IInv'
    BY <2>3, StartStep
  <2>4. ASSUME Continue PROVE IInv'
    BY <2>4, ContinueStep
  <2>5. ASSUME Select PROVE IInv'
    BY <2>5, SelectStep
  <2>6. ASSUME Count PROVE IInv'
    BY <2>6, CountStep
  <2>7. ASSUME Fail PROVE IInv'
    BY <2>7, FailStep
  <2>8. ASSUME NEW id \in Ids, Change(id) PROVE IInv'
    BY <2>8, ChangeStep
  <2> QED BY <1>1, <2>1, <2>2, <2>3, <2>4, <2>5, <2>6, <2>7, <2>8, Steps
<1>2. CASE UNCHANGED vars
  <2>1. UNCHANGED <<list, rows, pc, asked, items, reply, writes, walk>>
    BY <1>2 DEF vars
  <2>2. Matching(asked)' = Matching(asked) /\ Order' = Order
    BY <2>1, SameList
  <2>3. Position' = Position /\ Ahead' = Ahead
    BY <2>1 DEF Position, Ahead
  <2> QED BY <2>1, <2>2, <2>3
          DEF IInv, TypeOK, PositionSmall, ReadingAccounted, Reading, NoneOpen,
              CompleteSettled, NothingPastTheEnd, Fits
<1> QED BY <1>1, <1>2

(***************************************************************************)
(* The theorems.                                                           *)
(***************************************************************************)

(* How far a reading of the list has come, and what it was charged for, is  *)
(* kept by every page and every change of the list.                        *)
THEOREM Invariance == Spec => []IInv
BY IInvInit, IInvStep, PTL DEF Spec

(* Every variable keeps its type: a page number that was accepted never     *)
(* grows beyond an integer, and no reply is longer than MaxLimit, also     *)
(* where the offset does not fit.                                          *)
THEOREM TypeCorrectness == Spec => []TypeOK
<1>1. IInv => TypeOK
  BY DEF IInv
<1> QED BY <1>1, Invariance, PTL

(* A reading that comes to the total of the list has missed a row that was  *)
(* there all the time only for another one that left the list meanwhile,   *)
(* however many pages, requests that failed and changes there were, as     *)
(* long as the offset of its last page fits into an int32.                 *)
THEOREM MissesFew == Spec => []WalksMissFew
<1>1. IInv => WalksMissFew
  BY DEF IInv, CompleteSettled, WalksMissFew
<1> QED BY <1>1, Invariance, PTL

(* At any time of a reading, the rows it was shown again are no more than   *)
(* those that entered the list since it began, as long as its offsets fit. *)
THEOREM RepeatsFew == Spec => []WalksRepeatFew
<1>1. ASSUME IInv PROVE WalksRepeatFew
  <2>1. CASE walk.complete
    BY <1>1, <2>1 DEF IInv, CompleteSettled, WalksRepeatFew
  <2>2. CASE ~ walk.open
    <3>1. walk.shown = 0 /\ walk.seen = {} /\ walk.entered = 0
      BY <1>1, <2>2 DEF IInv, NoneOpen, NoWalk
    <3> QED BY <3>1, FS_EmptySet DEF WalksRepeatFew
  <2>3. CASE Reading
    <3>1. PICK w : w = walk /\ w \in Walk /\ IsFiniteSet(w.seen)
      BY <1>1, WalkFields DEF IInv, TypeOK
    <3>2. PICK R, S, n : /\ R = Order /\ S = Matching(asked) /\ n = Position
                         /\ IsFiniteSet(S)
      BY MatchingFinite DEF Matching
    <3>3. Fits(asked) => Accounted(R, S, n, w)
      BY <1>1, <2>3, <3>1, <3>2 DEF IInv, ReadingAccounted
    <3>4. Fits(asked) => w.shown - Cardinality(w.seen) <= w.entered
      BY <3>1, <3>2, <3>3, RepeatsAccounted
    <3> QED BY <3>1, <3>4 DEF WalksRepeatFew
  <2> QED BY <2>1, <2>2, <2>3 DEF Reading
<1> QED BY <1>1, Invariance, PTL

(* A page that begins behind every row is empty as long as the place where  *)
(* it begins fits into the int32 the query builder keeps of it; one beyond *)
(* may show the front of the list.                                         *)
THEOREM EmptyPastTheEnd == Spec => []NothingPastTheEnd
<1>1. IInv => NothingPastTheEnd
  BY DEF IInv
<1> QED BY <1>1, Invariance, PTL


(* A reading during which no row entered or left the list, and whose       *)
(* offsets fit, shows it exactly.                                          *)
QuietWalksExact ==
  walk.complete /\ Fits(asked) /\ walk.entered = 0 /\ walk.left = 0
  => walk.kept \subseteq walk.seen /\ walk.shown <= Cardinality(walk.seen)

(* Who reads a list to its total while only rows outside of it, or rows     *)
(* that stay in it, are changed is shown every row and none twice.         *)
THEOREM QuietReading == Spec => []QuietWalksExact
<1>1. ASSUME IInv PROVE QuietWalksExact
  <2>1. SUFFICES ASSUME walk.complete, Fits(asked), walk.entered = 0, walk.left = 0
                 PROVE  walk.kept \subseteq walk.seen /\ walk.shown <= Cardinality(walk.seen)
    BY DEF QuietWalksExact
  <2>2. PICK w : w = walk /\ w \in Walk /\ IsFiniteSet(w.kept) /\ IsFiniteSet(w.seen)
    BY <1>1, WalkFields DEF IInv, TypeOK
  <2>3. PICK missed : missed = w.kept \ w.seen /\ IsFiniteSet(missed)
    BY <2>2, FS_Difference
  <2>4. Cardinality(missed) <= 0
    BY <1>1, <2>1, <2>2, <2>3 DEF IInv, CompleteSettled
  <2>5. missed = {}
    BY <2>3, <2>4, FS_CardinalityType, FS_EmptySet
  <2>6. PICK shown, seen \in Nat : shown = w.shown /\ seen = Cardinality(w.seen)
    BY <2>2, FS_CardinalityType DEF Walk
  <2>7. shown - seen <= 0
    BY <1>1, <2>1, <2>2, <2>6 DEF IInv, CompleteSettled
  <2> QED BY <2>2, <2>3, <2>5, <2>6, <2>7
<1> QED BY <1>1, Invariance, PTL
=============================================================================
