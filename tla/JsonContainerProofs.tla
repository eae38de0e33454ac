------------------------ MODULE JsonContainerProofs ------------------------
(***************************************************************************)
(* What erase, insert and emplace of json.hpp tell, for arrays of any      *)
(* length and objects with any names: the order of the names is total, an  *)
(* object's iterators go through all its members in this order, and what   *)
(* is erased leaves the order of the others alone.  At the end the order   *)
(* of values without elements.                                             *)
(***************************************************************************)
EXTENDS JsonContainer, JsonOrder, FiniteSetTheorems, SequenceTheorems, WellFoundedInduction, TLAPS

-----------------------------------------------------------------------------
(* The order of names.                                                     *)

\* A set of naturals has a least one: of the intervals that end in it one is in all
\* the others.
LEMMA LeastNatural ==
    ASSUME NEW S \in SUBSET Nat, S # {}
    PROVE  \E n \in S : \A m \in S : n <= m
  <1> DEFINE T == {0 .. n : n \in S}
  <1>1. T \subseteq FiniteSubsetsOf(Nat) /\ T # {}
    <2>1. \A n \in S : 0 .. n \subseteq Nat /\ IsFiniteSet(0 .. n)
      BY FS_Interval
    <2> QED
      BY <2>1 DEF FiniteSubsetsOf
  <1>2. \E x \in T : \A y \in T : <<y, x>> \notin StrictSubsetOrdering(Nat)
    <2> HIDE DEF T
    <2> QED
      BY <1>1, FS_StrictSubsetOrderingWellFounded, WFMin, Zenon
  <1>3. PICK n \in S : \A y \in T : <<y, 0 .. n>> \notin StrictSubsetOrdering(Nat)
    BY <1>2
  <1>4. ASSUME NEW m \in S, m < n
        PROVE  FALSE
    <2>1. 0 .. m \subseteq 0 .. n /\ n \in 0 .. n /\ n \notin 0 .. m /\ 0 .. n \subseteq Nat
      BY <1>4
    <2>2. <<0 .. m, 0 .. n>> \in StrictSubsetOrdering(Nat)
      BY <2>1 DEF StrictSubsetOrdering
    <2> QED
      BY <1>3, <2>2
  <1>5. \A m \in S : n <= m
    BY <1>4
  <1> QED
    BY <1>5

LEMMA ByteInt == \A c \in Byte : c \in Int
  BY DEF Byte

\* BytesLess is a strict order of the names, and a total one.
LEMMA LessIrreflexive == \A a \in Seq(Byte) : ~BytesLess(a, a)
  <1>1. ASSUME NEW a \in Seq(Byte), NEW n \in 0 .. Len(a), n < Len(a)
        PROVE  ~(a[n + 1] < a[n + 1])
    <2>1. a[n + 1] \in Byte
      BY <1>1
    <2> QED
      BY <2>1, ByteInt
  <1> QED
    BY <1>1 DEF BytesLess

LEMMA LessTransitive ==
    ASSUME NEW a \in Seq(Byte), NEW b \in Seq(Byte), NEW c \in Seq(Byte),
           BytesLess(a, b), BytesLess(b, c)
    PROVE  BytesLess(a, c)
  <1>1. PICK m \in 0 .. Len(a) :
          /\ \A i \in 1 .. m : i <= Len(b) /\ a[i] = b[i]
          /\ m < Len(b)
          /\ m < Len(a) => a[m + 1] < b[m + 1]
    BY DEF BytesLess
  <1>2. PICK n \in 0 .. Len(b) :
          /\ \A i \in 1 .. n : i <= Len(c) /\ b[i] = c[i]
          /\ n < Len(c)
          /\ n < Len(b) => b[n + 1] < c[n + 1]
    BY DEF BytesLess
  <1>3. CASE m < n
    <2>1. m < Len(c) /\ (m < Len(a) => a[m + 1] < c[m + 1])
      BY <1>1, <1>2, <1>3
    <2>2. \A i \in 1 .. m : i <= Len(c) /\ a[i] = c[i]
      BY <1>1, <1>2, <1>3
    <2> QED
      BY <2>1, <2>2 DEF BytesLess
  <1>4. CASE n < m
    <2>1. n < Len(c) /\ (n < Len(a) => a[n + 1] < c[n + 1]) /\ n \in 0 .. Len(a)
      BY <1>1, <1>2, <1>4
    <2>2. \A i \in 1 .. n : i <= Len(c) /\ a[i] = c[i]
      BY <1>1, <1>2, <1>4
    <2> QED
      BY <2>1, <2>2 DEF BytesLess
  <1>5. CASE m = n
    <2>1. m < Len(c) /\ (m < Len(a) => a[m + 1] < c[m + 1])
      <3>1. m < Len(b) /\ m < Len(c)
        BY <1>1, <1>2, <1>5
      <3>2. m < Len(a) => a[m + 1] \in Byte /\ b[m + 1] \in Byte /\ c[m + 1] \in Byte
        BY <3>1
      <3>3. m < Len(a) => a[m + 1] < b[m + 1] /\ b[m + 1] < c[m + 1]
        BY <1>1, <1>2, <1>5, <3>1
      <3>4. \A x, y, z \in Byte : x < y /\ y < z => x < z
        BY ByteInt
      <3> QED
        BY <3>1, <3>2, <3>3, <3>4
    <2>2. \A i \in 1 .. m : i <= Len(c) /\ a[i] = c[i]
      BY <1>1, <1>2, <1>5
    <2> QED
      BY <2>1, <2>2 DEF BytesLess
  <1> QED
    BY <1>3, <1>4, <1>5

LEMMA LessTotal ==
    ASSUME NEW a \in Seq(Byte), NEW b \in Seq(Byte), a # b
    PROVE  BytesLess(a, b) \/ BytesLess(b, a)
  <1> DEFINE S == {n \in Nat : n < Len(a) /\ n < Len(b) /\ a[n + 1] # b[n + 1]}
  <1>1. CASE S # {}
    <2>1. PICK n \in S : \A m \in S : n <= m
      <3>1. S \in SUBSET Nat
        OBVIOUS
      <3> HIDE DEF S
      <3> QED
        BY <1>1, <3>1, LeastNatural
    <2>2. \A i \in 1 .. n : i <= Len(a) /\ i <= Len(b) /\ a[i] = b[i]
      <3> TAKE i \in 1 .. n
      <3>1. i - 1 \in Nat /\ i - 1 < n /\ i - 1 \notin S
        BY <2>1
      <3> QED
        BY <2>1, <3>1
    <2>3. n \in 0 .. Len(a) /\ n \in 0 .. Len(b) /\ n < Len(a) /\ n < Len(b)
      BY <2>1
    <2>4. a[n + 1] < b[n + 1] \/ b[n + 1] < a[n + 1]
      <3>1. a[n + 1] \in Byte /\ b[n + 1] \in Byte /\ a[n + 1] # b[n + 1]
        BY <2>1, <2>3
      <3> QED
        BY <3>1, ByteInt
    <2> QED
      BY <2>2, <2>3, <2>4 DEF BytesLess
  <1>2. CASE S = {}
    <2>1. \A n \in Nat : n < Len(a) /\ n < Len(b) => a[n + 1] = b[n + 1]
      BY <1>2
    <2>2. \A i \in 1 .. Len(a) : i <= Len(b) => a[i] = b[i]
      <3> TAKE i \in 1 .. Len(a)
      <3>1. i - 1 \in Nat /\ i - 1 < Len(a) /\ (i - 1) + 1 = i
        OBVIOUS
      <3> QED
        BY <2>1, <3>1
    <2>3. CASE Len(a) < Len(b)
      <3>1. \A i \in 1 .. Len(a) : i <= Len(b) /\ a[i] = b[i]
        BY <2>2, <2>3
      <3>2. Len(a) \in 0 .. Len(a) /\ ~(Len(a) < Len(a))
        OBVIOUS
      <3> QED
        BY <2>3, <3>1, <3>2 DEF BytesLess
    <2>4. CASE Len(b) < Len(a)
      <3>1. \A i \in 1 .. Len(b) : i <= Len(a) /\ b[i] = a[i]
        BY <2>2, <2>4
      <3>2. Len(b) \in 0 .. Len(b) /\ ~(Len(b) < Len(b))
        OBVIOUS
      <3> QED
        BY <2>4, <3>1, <3>2 DEF BytesLess
    <2>5. CASE Len(a) = Len(b)
      BY <2>2, <2>5
    <2> QED
      BY <2>3, <2>4, <2>5
  <1> QED
    BY <1>1, <1>2
-----------------------------------------------------------------------------
(* The place of a name among names.                                        *)

NameSet(D) == IsFiniteSet(D) /\ D \subseteq Seq(Byte)
Below(D, k) == {j \in D : BytesLess(j, k)}
Place(D, k) == Cardinality(Below(D, k))

LEMMA PlaceType ==
    ASSUME NEW D, NameSet(D), NEW k
    PROVE  /\ IsFiniteSet(Below(D, k)) /\ Place(D, k) \in Nat /\ Cardinality(D) \in Nat
           /\ k \in D => Place(D, k) < Cardinality(D)
  <1>1. Below(D, k) \in SUBSET D /\ IsFiniteSet(D)
    BY DEF Below, NameSet
  <1>2. /\ IsFiniteSet(Below(D, k)) /\ Place(D, k) <= Cardinality(D)
        /\ Cardinality(D) = Place(D, k) => D = Below(D, k)
    BY <1>1, FS_Subset DEF Place
  <1>3. Place(D, k) \in Nat /\ Cardinality(D) \in Nat
    BY <1>1, <1>2, FS_CardinalityType DEF Place
  <1>4. k \in D => k \notin Below(D, k)
    BY LessIrreflexive DEF Below, NameSet
  <1> QED
    BY <1>2, <1>3, <1>4

\* A lesser name has a lesser place.
LEMMA PlacesGrow ==
    ASSUME NEW D, NameSet(D), NEW j \in D, NEW k \in D, BytesLess(j, k)
    PROVE  Place(D, j) < Place(D, k)
  <1>1. Below(D, j) \in SUBSET Below(D, k)
    BY LessTransitive DEF Below, NameSet
  <1>2. j \in Below(D, k) /\ j \notin Below(D, j)
    BY LessIrreflexive DEF Below, NameSet
  <1>3. /\ Place(D, j) <= Place(D, k)
        /\ Place(D, k) = Place(D, j) => Below(D, k) = Below(D, j)
    BY <1>1, PlaceType, FS_Subset DEF Place
  <1> QED
    BY <1>2, <1>3, PlaceType

\* No two names share a place, and every place has a name.
LEMMA PlacesDiffer ==
    ASSUME NEW D, NameSet(D), NEW j \in D, NEW k \in D, Place(D, j) = Place(D, k)
    PROVE  j = k
  <1>1. SUFFICES ASSUME j # k PROVE FALSE
    OBVIOUS
  <1>2. BytesLess(j, k) \/ BytesLess(k, j)
    BY <1>1, LessTotal DEF NameSet
  <1>3. Place(D, j) < Place(D, k) \/ Place(D, k) < Place(D, j)
    BY <1>2, PlacesGrow
  <1> QED
    BY <1>3, PlaceType

LEMMA PlacesAreTaken ==
    ASSUME NEW D, NameSet(D), NEW i \in 0 .. Cardinality(D) - 1
    PROVE  \E k \in D : Place(D, k) = i
  <1> DEFINE n == Cardinality(D)
             place == [k \in D |-> Place(D, k)]
  <1>1. n \in Nat
    BY PlaceType
  <1>2. IsFiniteSet(0 .. n - 1) /\ Cardinality(0 .. n - 1) = n
    BY <1>1, FS_Interval
  <1> HIDE DEF n
  <1>3. place \in [D -> 0 .. n - 1]
    BY <1>1, PlaceType DEF n
  <1>4. place \in Injection(D, 0 .. n - 1)
    BY <1>3, PlacesDiffer DEF Injection, IsInjective
  <1>5. place \in Surjection(D, 0 .. n - 1)
    BY <1>2, <1>4, FS_Injection DEF n
  <1> QED
    BY <1>5 DEF Surjection, n

\* Keys lists the names by their places.
LEMMA KeysListNames ==
    ASSUME NEW f, NameSet(DOMAIN f)
    PROVE  /\ Cardinality(DOMAIN f) \in Nat
           /\ \A i \in 1 .. Cardinality(DOMAIN f) :
                 Keys(f)[i] \in DOMAIN f /\ Place(DOMAIN f, Keys(f)[i]) = i - 1
           /\ \A k \in DOMAIN f :
                 /\ Place(DOMAIN f, k) + 1 \in 1 .. Cardinality(DOMAIN f)
                 /\ Keys(f)[Place(DOMAIN f, k) + 1] = k
  <1> DEFINE D == DOMAIN f
             n == Cardinality(D)
  <1>1. n \in Nat
    BY PlaceType
  <1>2. ASSUME NEW i \in 1 .. n
        PROVE  Keys(f)[i] \in D /\ Place(D, Keys(f)[i]) = i - 1
    <2>1. Keys(f)[i] = CHOOSE k \in D : Place(D, k) = i - 1
      BY DEF Keys, Place, Below
    <2>2. i - 1 \in 0 .. n - 1
      BY <1>1
    <2>3. \E k \in D : Place(D, k) = i - 1
      BY <2>2, PlacesAreTaken
    <2> QED
      BY <2>1, <2>3
  <1>3. ASSUME NEW k \in D
        PROVE  Place(D, k) + 1 \in 1 .. n /\ Keys(f)[Place(D, k) + 1] = k
    <2>1. Place(D, k) \in Nat /\ Place(D, k) < n
      BY PlaceType
    <2>2. Place(D, k) + 1 \in 1 .. n /\ (Place(D, k) + 1) - 1 = Place(D, k)
      BY <1>1, <2>1
    <2>3. Keys(f)[Place(D, k) + 1] \in D /\ Place(D, Keys(f)[Place(D, k) + 1]) = Place(D, k)
      BY <1>2, <2>2
    <2> QED
      BY <2>2, <2>3, PlacesDiffer
  <1> QED
    BY <1>1, <1>2, <1>3

\* The names at the places first + 1 to last.
Between(f, first, last) == {Keys(f)[i] : i \in first + 1 .. last}

LEMMA BetweenSize ==
    ASSUME NEW f, NameSet(DOMAIN f), NEW first \in Nat, NEW last \in Nat, first <= last,
           last <= Cardinality(DOMAIN f)
    PROVE  /\ Between(f, first, last) \subseteq DOMAIN f
           /\ IsFiniteSet(Between(f, first, last))
           /\ Cardinality(Between(f, first, last)) = last - first
  <1> DEFINE gone == Between(f, first, last)
             range == first + 1 .. last
             list == [i \in range |-> Keys(f)[i]]
  <1>1. \A i \in range : /\ i \in 1 .. Cardinality(DOMAIN f) /\ i \in Int
                         /\ Keys(f)[i] \in DOMAIN f
                         /\ Place(DOMAIN f, Keys(f)[i]) = i - 1
    BY KeysListNames
  <1>2. IsFiniteSet(range) /\ Cardinality(range) = last - first
    <2>1. first + 1 \in Int /\ last \in Int
      OBVIOUS
    <2>2. /\ IsFiniteSet(range)
          /\ Cardinality(range) = IF first + 1 > last THEN 0 ELSE last - (first + 1) + 1
      BY <2>1, FS_Interval
    <2> HIDE DEF range
    <2> QED
      BY <2>2
  <1>3. list \in Bijection(range, gone)
    <2>1. list \in [range -> gone] /\ \A t \in gone : \E i \in range : list[i] = t
      BY DEF Between
    <2>2. \A i, j \in range : list[i] = list[j] => i = j
      BY <1>1
    <2> QED
      BY <2>1, <2>2 DEF Bijection, Injection, Surjection, IsInjective
  <1>4. IsFiniteSet(gone) /\ Cardinality(gone) = Cardinality(range)
    BY <1>2, <1>3, FS_Bijection DEF ExistsBijection
  <1> QED
    BY <1>1, <1>2, <1>4 DEF Between

PlacesKept(f, first, last, rest) ==
    \A m \in 1 .. Cardinality(DOMAIN f) :
        m <= first \/ m > last
            => /\ Keys(f)[m] \in rest
               /\ Place(rest, Keys(f)[m]) = IF m <= first THEN m - 1 ELSE m - 1 - (last - first)

\* Without them, the names before keep their places and those behind move up.
LEMMA PlacesWithout ==
    ASSUME NEW f, NameSet(DOMAIN f), NEW first \in Nat, NEW last \in Nat, first <= last,
           last <= Cardinality(DOMAIN f),
           NEW rest, rest = DOMAIN f \ Between(f, first, last)
    PROVE  PlacesKept(f, first, last, rest)
  <1> SUFFICES ASSUME NEW m \in 1 .. Cardinality(DOMAIN f), m <= first \/ m > last
               PROVE  /\ Keys(f)[m] \in rest
                      /\ Place(rest, Keys(f)[m])
                            = IF m <= first THEN m - 1 ELSE m - 1 - (last - first)
    BY DEF PlacesKept
  <1> DEFINE D == DOMAIN f
             gone == Between(f, first, last)
             k == Keys(f)[m]
  <1>1. /\ Cardinality(D) \in Nat /\ m \in Int
        /\ k \in D /\ Place(D, k) = m - 1
    BY KeysListNames
  <1>2. \A x \in gone : x \in D /\ Place(D, x) \in Int /\ first <= Place(D, x) /\ Place(D, x) < last
    BY KeysListNames DEF Between
  <1>3. k \in rest
    BY <1>1, <1>2
  <1>4. Below(rest, k) = Below(D, k) \ gone
    BY DEF Below
  <1>5. CASE m <= first
    <2>1. \A x \in gone : ~BytesLess(x, k)
      BY <1>1, <1>2, <1>5, PlacesGrow
    <2>2. Below(rest, k) = Below(D, k)
      BY <1>4, <2>1 DEF Below
    <2> QED
      BY <1>1, <1>3, <1>5, <2>2 DEF Place
  <1>6. CASE m > last
    <2>1. ASSUME NEW x \in gone
          PROVE  x \in Below(D, k)
      <3>1. x \in D /\ x # k /\ ~BytesLess(k, x)
        BY <1>1, <1>2, <1>6, PlacesGrow
      <3> QED
        BY <1>1, <3>1, LessTotal DEF Below, NameSet
    <2>2. Below(D, k) \cap gone = gone
      BY <2>1
    <2>3. IsFiniteSet(Below(D, k))
      BY PlaceType
    <2>4. Cardinality(Below(D, k) \ gone) = Cardinality(Below(D, k)) - Cardinality(gone)
      BY <2>2, <2>3, FS_Difference
    <2>5. Cardinality(gone) = last - first
      BY BetweenSize
    <2>6. Place(rest, k) = Place(D, k) - (last - first)
      BY <1>4, <2>4, <2>5 DEF Place
    <2> QED
      BY <1>1, <1>3, <1>6, <2>6
  <1> QED
    BY <1>5, <1>6

Lacks(g, f, first, last) == DOMAIN g = DOMAIN f \ Between(f, first, last)

LEMMA KeysWithout ==
    ASSUME NEW f, NameSet(DOMAIN f), NEW first \in Nat, NEW last \in Nat, first <= last,
           last <= Cardinality(DOMAIN f),
           NEW g, Lacks(g, f, first, last)
    PROVE  /\ NameSet(DOMAIN g)
           /\ Cardinality(DOMAIN g) \in Nat
           /\ Cardinality(DOMAIN g) + (last - first) = Cardinality(DOMAIN f)
           /\ \A i \in 1 .. Cardinality(DOMAIN g) :
                 Keys(g)[i] = Keys(f)[IF i <= first THEN i ELSE i + (last - first)]
  <1> DEFINE D == DOMAIN f
             gone == Between(f, first, last)
             n == Cardinality(D)
             E == DOMAIN g
  <1>0. E = D \ gone
    BY DEF Lacks
  <1>1. n \in Nat /\ IsFiniteSet(D) /\ D \cap gone = gone
    BY PlaceType, BetweenSize DEF NameSet
  <1>2. IsFiniteSet(E) /\ Cardinality(E) = n - (last - first)
    <2>1. Cardinality(gone) = last - first /\ E = D \ gone
      BY <1>0, BetweenSize
    <2> HIDE DEF gone, D, E
    <2>2. IsFiniteSet(D \ gone) /\ Cardinality(D \ gone) = Cardinality(D) - Cardinality(D \cap gone)
      BY <1>1, FS_Difference
    <2> QED
      BY <1>1, <2>1, <2>2
  <1>3. NameSet(E)
    BY <1>0, <1>2 DEF NameSet
  <1>4. ASSUME NEW i \in 1 .. Cardinality(E)
        PROVE  Keys(g)[i] = Keys(f)[IF i <= first THEN i ELSE i + (last - first)]
    <2> DEFINE m == IF i <= first THEN i ELSE i + (last - first)
    <2>1. m \in 1 .. n /\ (m <= first \/ m > last)
      BY <1>1, <1>2
    <2>2. (IF m <= first THEN m - 1 ELSE m - 1 - (last - first)) = i - 1
      BY <1>1, <1>2
    <2> HIDE DEF m
    <2>3. Keys(f)[m] \in E /\ Place(E, Keys(f)[m]) = i - 1
      <3>1. PlacesKept(f, first, last, E)
        BY <1>0, PlacesWithout
      <3> HIDE DEF E
      <3>2. /\ Keys(f)[m] \in E
            /\ Place(E, Keys(f)[m]) = IF m <= first THEN m - 1 ELSE m - 1 - (last - first)
        BY <2>1, <3>1 DEF PlacesKept
      <3> QED
        BY <2>2, <3>2
    <2>4. Keys(g)[(i - 1) + 1] = Keys(f)[m]
      BY <1>3, <2>3, KeysListNames
    <2>5. (i - 1) + 1 = i
      BY <1>1, <1>2
    <2> QED
      BY <2>4, <2>5 DEF m
  <1>5. Cardinality(E) \in Nat /\ Cardinality(E) + (last - first) = n
    BY <1>1, <1>2, FS_CardinalityType
  <1> QED
    BY <1>3, <1>4, <1>5

-----------------------------------------------------------------------------
(* Sequences.                                                              *)

LEMMA SequenceType ==
    ASSUME NEW s
    PROVE  /\ IsSequence(s) => s \in Seq({s[i] : i \in 1 .. Len(s)})
           /\ \A S : s \in Seq(S) => IsSequence(s)
  <1>1. ASSUME IsSequence(s)
        PROVE  s \in Seq({s[i] : i \in 1 .. Len(s)})
    <2> DEFINE S == {s[i] : i \in 1 .. Len(s)}
    <2>1. Len(s) \in Nat /\ s = [i \in 1 .. Len(s) |-> s[i]] /\ \A i \in 1 .. Len(s) : s[i] \in S
      BY <1>1 DEF IsSequence
    <2> DEFINE n == Len(s)
    <2> HIDE DEF S, n
    <2>2. [i \in 1 .. n |-> s[i]] \in Seq(S)
      BY <2>1 DEF n
    <2> QED
      BY <2>1, <2>2 DEF S, n
  <1>2. ASSUME NEW S, s \in Seq(S)
        PROVE  IsSequence(s)
    BY <1>2, LenProperties DEF IsSequence
  <1> QED
    BY <1>1, <1>2

LEMMA TwoSequences ==
    ASSUME NEW s, IsSequence(s), NEW t, IsSequence(t)
    PROVE  \E S : s \in Seq(S) /\ t \in Seq(S)
  <1> DEFINE S == {s[i] : i \in 1 .. Len(s)}
             T == {t[i] : i \in 1 .. Len(t)}
  <1>1. s \in Seq(S) /\ t \in Seq(T)
    BY SequenceType
  <1> HIDE DEF S, T
  <1>2. s \in Seq(S \cup T) /\ t \in Seq(S \cup T)
    BY <1>1, SeqMonotonic
  <1> QED
    BY <1>2

\* Two sequences are equal where they are part by part.
LEMMA SamePart ==
    ASSUME NEW s, IsSequence(s), NEW t, IsSequence(t),
           NEW m \in Nat, NEW i \in Nat, NEW j \in Nat,
           i + m <= Len(s), j + m <= Len(t),
           \A n \in 1 .. m : s[i + n] = t[j + n]
    PROVE  SubSeq(s, i + 1, i + m) = SubSeq(t, j + 1, j + m)
  <1>1. PICK S : s \in Seq(S) /\ t \in Seq(S)
    BY TwoSequences
  <1> DEFINE a == SubSeq(s, i + 1, i + m)
             b == SubSeq(t, j + 1, j + m)
  <1>2. a \in Seq(S) /\ Len(a) = m /\ \A n \in 1 .. m : a[n] = s[i + n]
    BY <1>1
  <1>3. b \in Seq(S) /\ Len(b) = m /\ \A n \in 1 .. m : b[n] = t[j + n]
    BY <1>1
  <1> HIDE DEF a, b
  <1>4. a = b
    BY <1>2, <1>3, SeqEqual
  <1> QED
    BY <1>4 DEF a, b

LEMMA CutElements ==
    ASSUME NEW s, IsSequence(s), NEW from \in Nat, NEW to \in Nat, from <= to, to <= Len(s)
    PROVE  /\ IsSequence(Cut(s, from, to)) /\ Len(Cut(s, from, to)) = Len(s) - (to - from)
           /\ \A i \in 1 .. Len(s) - (to - from) :
                 Cut(s, from, to)[i] = s[IF i <= from THEN i ELSE i + (to - from)]
  <1> DEFINE a == SubSeq(s, 1, from)
             b == SubSeq(s, to + 1, Len(s))
             S == {s[i] : i \in 1 .. Len(s)}
  <1>1. s \in Seq(S) /\ Len(s) \in Nat
    BY SequenceType DEF IsSequence
  <1> HIDE DEF S
  <1>2. a \in Seq(S) /\ Len(a) = from /\ \A i \in 1 .. from : a[i] = s[i]
    BY <1>1
  <1>3. b \in Seq(S) /\ Len(b) = Len(s) - to /\ \A i \in 1 .. Len(s) - to : b[i] = s[to + i]
    BY <1>1
  <1> HIDE DEF a, b
  <1>4. /\ a \o b \in Seq(S) /\ Len(a \o b) = Len(s) - (to - from)
        /\ \A i \in 1 .. Len(s) - (to - from) :
              (a \o b)[i] = IF i <= from THEN a[i] ELSE b[i - from]
    <2>1. /\ a \o b \in Seq(S) /\ Len(a \o b) = Len(a) + Len(b)
          /\ \A i \in 1 .. Len(a) + Len(b) :
                (a \o b)[i] = IF i <= Len(a) THEN a[i] ELSE b[i - Len(a)]
      BY <1>2, <1>3, ConcatProperties
    <2>2. Len(a) + Len(b) = Len(s) - (to - from)
      BY <1>1, <1>2, <1>3
    <2> QED
      BY <1>2, <2>1, <2>2
  <1>5. ASSUME NEW i \in 1 .. Len(s) - (to - from)
        PROVE  (a \o b)[i] = s[IF i <= from THEN i ELSE i + (to - from)]
    <2>1. CASE i <= from
      <3>1. i \in 1 .. from
        BY <2>1
      <3> QED
        BY <1>2, <1>4, <2>1, <3>1
    <2>2. CASE ~(i <= from)
      <3>1. i - from \in 1 .. Len(s) - to /\ to + (i - from) = i + (to - from)
        BY <1>1, <2>2
      <3>2. (a \o b)[i] = b[i - from]
        BY <1>4, <2>2
      <3>3. b[i - from] = s[to + (i - from)]
        BY <1>3, <3>1
      <3> QED
        BY <2>2, <3>1, <3>2, <3>3
    <2> QED
      BY <2>1, <2>2
  <1>6. Cut(s, from, to) = a \o b
    BY DEF Cut, a, b
  <1> QED
    BY <1>4, <1>5, <1>6, SequenceType

\* What is spliced in can be cut out again.
LEMMA SpliceElements ==
    ASSUME NEW s, IsSequence(s), NEW t, IsSequence(t), NEW at \in Nat, at <= Len(s)
    PROVE  /\ IsSequence(Splice(s, at, t)) /\ Len(Splice(s, at, t)) = Len(s) + Len(t)
           /\ \A i \in 1 .. Len(s) :
                 s[i] = Splice(s, at, t)[IF i <= at THEN i ELSE i + Len(t)]
  <1>1. PICK S : s \in Seq(S) /\ t \in Seq(S)
    BY TwoSequences
  <1> DEFINE a == SubSeq(s, 1, at)
             b == SubSeq(s, at + 1, Len(s))
             w == a \o t \o b
  <1>2. Len(s) \in Nat /\ Len(t) \in Nat
    BY <1>1
  <1>3. a \in Seq(S) /\ Len(a) = at /\ \A i \in 1 .. at : a[i] = s[i]
    BY <1>1
  <1>4. b \in Seq(S) /\ Len(b) = Len(s) - at /\ \A i \in 1 .. Len(s) - at : b[i] = s[at + i]
    BY <1>1
  <1> HIDE DEF a, b
  <1>5. a \o t \in Seq(S) /\ Len(a \o t) = at + Len(t) /\ \A i \in 1 .. at : (a \o t)[i] = a[i]
    BY <1>1, <1>2, <1>3
  <1>6. /\ w \in Seq(S) /\ Len(w) = Len(s) + Len(t)
        /\ \A i \in 1 .. Len(s) + Len(t) :
              w[i] = IF i <= at + Len(t) THEN (a \o t)[i] ELSE b[i - (at + Len(t))]
    <2> DEFINE u == a \o t
    <2>1. u \in Seq(S) /\ Len(u) = at + Len(t) /\ w = u \o b
      BY <1>5
    <2> HIDE DEF u
    <2>2. /\ u \o b \in Seq(S) /\ Len(u \o b) = Len(u) + Len(b)
          /\ \A i \in 1 .. Len(u) + Len(b) :
                (u \o b)[i] = IF i <= Len(u) THEN u[i] ELSE b[i - Len(u)]
      <3>1. u \in Seq(S) /\ b \in Seq(S)
        BY <1>4, <2>1
      <3> QED
        BY <3>1, ConcatProperties, Zenon
    <2>3. Len(u) + Len(b) = Len(s) + Len(t)
      BY <1>2, <1>4, <2>1
    <2> QED
      BY <2>1, <2>2, <2>3 DEF u
  <1> HIDE DEF w
  <1>7. ASSUME NEW i \in 1 .. Len(s)
        PROVE  s[i] = w[IF i <= at THEN i ELSE i + Len(t)]
    <2>1. CASE i <= at
      BY <1>2, <1>3, <1>5, <1>6, <2>1
    <2>2. CASE i > at
      <3>1. /\ i + Len(t) \in 1 .. Len(s) + Len(t) /\ i + Len(t) > at + Len(t)
            /\ i + Len(t) - (at + Len(t)) = i - at /\ i - at \in 1 .. Len(s) - at
            /\ at + (i - at) = i
        BY <1>2, <2>2
      <3>2. w[i + Len(t)] = b[i - at]
        <4> DEFINE k == i + Len(t)
        <4>1. k \in 1 .. Len(s) + Len(t) /\ ~(k <= at + Len(t)) /\ k - (at + Len(t)) = i - at
          BY <1>2, <3>1
        <4> HIDE DEF k
        <4>2. w[k] = b[k - (at + Len(t))]
          BY <1>6, <4>1, Zenon
        <4> QED
          BY <4>1, <4>2 DEF k
      <3>3. b[i - at] = s[i]
        BY <1>4, <3>1
      <3> QED
        BY <2>2, <3>2, <3>3
    <2> QED
      BY <1>2, <2>1, <2>2
  <1>8. Splice(s, at, t) = w
    BY DEF Splice, a, b, w
  <1> QED
    BY <1>6, <1>7, <1>8, SequenceType

-----------------------------------------------------------------------------
(* The elements of a value in order.                                       *)

LEMMA Kinds ==
    ASSUME NEW v
    PROVE  /\ IsArray(v)  => ~IsNull(v) /\ ~IsObject(v) /\ ~IsString(v) /\ IsStructured(v) /\ ~Primitive(v)
           /\ IsObject(v) => ~IsNull(v) /\ ~IsArray(v) /\ ~IsString(v) /\ IsStructured(v) /\ ~Primitive(v)
           /\ IsNull(v)   => ~IsArray(v) /\ ~IsObject(v) /\ ~IsString(v) /\ ~IsStructured(v) /\ ~Primitive(v)
           /\ ~IsArray(v) /\ ~IsObject(v) => ~IsStructured(v)
  BY DEF IsNull, IsArray, IsObject, IsString, IsStructured, Primitive

LEMMA Made ==
    /\ \A s : IsArray(Arr(s)) /\ Arr(s)[2] = s
    /\ \A f : IsObject(Obj(f)) /\ Obj(f)[2] = f
    /\ \A b : IsString(Str(b)) /\ Str(b)[2] = b
    /\ IsNull(Null)
  BY DEF IsNull, IsArray, IsObject, IsString, Arr, Obj, Str, Null

LEMMA ArrayForward ==
    ASSUME NEW v, IsArray(v), Shaped(v)
    PROVE  /\ End(v) = Len(v[2]) /\ Len(v[2]) \in Nat /\ Size(v) = Len(v[2])
           /\ IsSequence(Forward(v)) /\ Len(Forward(v)) = Len(v[2])
           /\ \A i \in 1 .. Len(v[2]) : Forward(v)[i] = v[2][i]
  <1>1. Len(v[2]) \in Nat
    BY DEF Shaped, IsSequence
  <1>2. Size(v) = Len(v[2]) /\ End(v) = Len(v[2]) /\ Begin(v) = 0
    BY Kinds DEF End, Size, Begin
  <1>3. \A at : Deref(v, at).value = v[2][at + 1]
    <2>1. ASSUME NEW at
          PROVE  Deref(v, at) = Ok(v[2][at + 1])
      <3>1. IsArray(v) /\ ~IsObject(v) /\ IsStructured(v)
        BY Kinds
      <3> QED
        BY <3>1 DEF Deref
    <2> QED
      BY <2>1 DEF Ok
  <1> DEFINE n == Len(v[2])
             s == [i \in 1 .. n |-> v[2][i]]
  <1> HIDE DEF n
  <1>4. Forward(v) = s
    <2>1. Forward(v) = [i \in 1 .. n - 0 |-> Deref(v, 0 + i - 1).value]
      BY <1>2 DEF Forward, n
    <2>2. n - 0 = n /\ \A i \in 1 .. n : (0 + i - 1) + 1 = i
      BY <1>1 DEF n
    <2> QED
      BY <1>3, <2>1, <2>2
  <1>5. s \in Seq({v[2][i] : i \in 1 .. n}) /\ Len(s) = n
    BY <1>1 DEF n
  <1>6. IsSequence(s)
    BY <1>5, SequenceType
  <1> QED
    BY <1>1, <1>2, <1>4, <1>5, <1>6 DEF n

LEMMA ObjectForward ==
    ASSUME NEW v, IsObject(v), NameSet(DOMAIN v[2])
    PROVE  /\ End(v) = Cardinality(DOMAIN v[2]) /\ Cardinality(DOMAIN v[2]) \in Nat
           /\ Size(v) = Cardinality(DOMAIN v[2])
           /\ IsSequence(Forward(v)) /\ Len(Forward(v)) = Cardinality(DOMAIN v[2])
           /\ \A i \in 1 .. Cardinality(DOMAIN v[2]) : Forward(v)[i] = v[2][Keys(v[2])[i]]
  <1> DEFINE n == Cardinality(DOMAIN v[2])
             s == [i \in 1 .. n |-> v[2][Keys(v[2])[i]]]
  <1>1. n \in Nat
    BY KeysListNames
  <1>2. Size(v) = n /\ End(v) = n /\ Begin(v) = 0
    BY Kinds DEF End, Size, Begin
  <1>3. \A at : Deref(v, at).value = v[2][Keys(v[2])[at + 1]]
    <2>1. ASSUME NEW at
          PROVE  Deref(v, at) = Ok(v[2][Keys(v[2])[at + 1]])
      <3>1. ~IsArray(v) /\ IsObject(v) /\ IsStructured(v)
        BY Kinds
      <3> QED
        BY <3>1 DEF Deref, KeyAt
    <2> QED
      BY <2>1 DEF Ok
  <1> HIDE DEF n
  <1>4. Forward(v) = s
    <2>1. Forward(v) = [i \in 1 .. n - 0 |-> Deref(v, 0 + i - 1).value]
      BY <1>2 DEF Forward
    <2>2. n - 0 = n /\ \A i \in 1 .. n : (0 + i - 1) + 1 = i
      BY <1>1
    <2> QED
      BY <1>3, <2>1, <2>2
  <1>5. s \in Seq({v[2][Keys(v[2])[i]] : i \in 1 .. n}) /\ Len(s) = n
    BY <1>1
  <1>6. IsSequence(s)
    BY <1>5, SequenceType
  <1> QED
    BY <1>1, <1>2, <1>4, <1>5, <1>6 DEF n

\* What w lacks of v, place by place.
LEMMA WithoutByPlace ==
    ASSUME NEW v, NEW w, NEW at \in Nat, NEW c \in Nat,
           IsSequence(Forward(v)), IsSequence(Forward(w)),
           End(w) = Len(Forward(w)), at <= Len(Forward(w)),
           Len(Forward(w)) = Len(Forward(v)) - c,
           \A i \in 1 .. Len(Forward(w)) :
              Forward(w)[i] = Forward(v)[IF i <= at THEN i ELSE i + c]
    PROVE  Without(v, w, at)
  <1> DEFINE old == Forward(v)
             new == Forward(w)
  <1>1. Len(old) \in Nat /\ Len(new) \in Nat
    BY DEF IsSequence
  <1> HIDE DEF old, new
  <1>2. SubSeq(new, 1, at) = SubSeq(old, 1, at)
    <2>1. 0 + at <= Len(new) /\ 0 + at <= Len(old)
      BY <1>1 DEF old, new
    <2>2. \A n \in 1 .. at : new[0 + n] = old[0 + n]
      BY <1>1 DEF old, new
    <2>3. SubSeq(new, 0 + 1, 0 + at) = SubSeq(old, 0 + 1, 0 + at)
      BY <2>1, <2>2, SamePart DEF old, new
    <2> QED
      BY <2>3
  <1>3. SubSeq(new, at + 1, Len(new)) = SubSeq(old, at + 1 + Len(old) - Len(new), Len(old))
    <2> DEFINE m == Len(new) - at
    <2>1. m \in Nat /\ at + c \in Nat /\ at + m <= Len(new) /\ (at + c) + m <= Len(old)
      BY <1>1 DEF old, new
    <2>2. \A n \in 1 .. m : new[at + n] = old[(at + c) + n]
      <3> TAKE n \in 1 .. m
      <3>1. at + n \in 1 .. Len(new) /\ ~(at + n <= at) /\ (at + n) + c = (at + c) + n
        BY <1>1, <2>1
      <3> QED
        BY <3>1 DEF old, new
    <2>3. SubSeq(new, at + 1, at + m) = SubSeq(old, (at + c) + 1, (at + c) + m)
      <3> HIDE DEF m
      <3> QED
        BY <2>1, <2>2, SamePart DEF old, new
    <2>4. /\ at + m = Len(new) /\ (at + c) + m = Len(old)
          /\ (at + c) + 1 = at + 1 + Len(old) - Len(new)
      BY <1>1 DEF old, new
    <2> QED
      BY <2>3, <2>4
  <1> QED
    BY <1>1, <1>2, <1>3 DEF Without, old, new

-----------------------------------------------------------------------------
(* Erasing and inserting.                                                  *)

LEMMA ErasedElements ==
    ASSUME NEW v, IsArray(v), Shaped(v), NEW from \in Nat, NEW to \in Nat, from <= to, to <= End(v)
    PROVE  /\ Shaped(Arr(Cut(v[2], from, to)))
           /\ Without(v, Arr(Cut(v[2], from, to)), from)
  <1> DEFINE w == Arr(Cut(v[2], from, to))
  <1>1. IsSequence(v[2]) /\ End(v) = Len(v[2])
    BY ArrayForward DEF Shaped
  <1>2. IsArray(w) /\ w[2] = Cut(v[2], from, to)
    BY Made
  <1>3. /\ IsSequence(w[2]) /\ Len(w[2]) = Len(v[2]) - (to - from)
        /\ \A i \in 1 .. Len(v[2]) - (to - from) :
              w[2][i] = v[2][IF i <= from THEN i ELSE i + (to - from)]
    <2>1. to <= Len(v[2])
      BY <1>1
    <2>2. /\ IsSequence(Cut(v[2], from, to)) /\ Len(Cut(v[2], from, to)) = Len(v[2]) - (to - from)
          /\ \A i \in 1 .. Len(v[2]) - (to - from) :
                Cut(v[2], from, to)[i] = v[2][IF i <= from THEN i ELSE i + (to - from)]
      <3> DEFINE s == v[2]
      <3>1. IsSequence(s) /\ to <= Len(s)
        BY <1>1, <2>1
      <3> HIDE DEF s
      <3>2. /\ IsSequence(Cut(s, from, to)) /\ Len(Cut(s, from, to)) = Len(s) - (to - from)
            /\ \A i \in 1 .. Len(s) - (to - from) :
                  Cut(s, from, to)[i] = s[IF i <= from THEN i ELSE i + (to - from)]
        BY ONLY <3>1, CutElements, from \in Nat, to \in Nat, from <= to
      <3> QED
        BY <3>2 DEF s
    <2> HIDE DEF w
    <2> QED
      BY <1>2, <2>2
  <1> HIDE DEF w
  <1>4. Shaped(w)
    BY <1>2, <1>3, Kinds DEF Shaped
  <1>5. /\ IsSequence(Forward(v)) /\ Len(Forward(v)) = Len(v[2]) /\ Len(v[2]) \in Nat
        /\ \A i \in 1 .. Len(v[2]) : Forward(v)[i] = v[2][i]
    BY ArrayForward
  <1>6. /\ IsSequence(Forward(w)) /\ Len(Forward(w)) = Len(w[2]) /\ End(w) = Len(w[2])
        /\ \A i \in 1 .. Len(w[2]) : Forward(w)[i] = w[2][i]
    BY <1>2, <1>4, ArrayForward
  <1> DEFINE c == to - from
  <1>7. /\ c \in Nat /\ from <= Len(Forward(w)) /\ Len(Forward(w)) = Len(Forward(v)) - c
    BY <1>1, <1>3, <1>5, <1>6
  <1>8. ASSUME NEW i \in 1 .. Len(Forward(w))
        PROVE  Forward(w)[i] = Forward(v)[IF i <= from THEN i ELSE i + c]
    <2>1. (IF i <= from THEN i ELSE i + c) \in 1 .. Len(v[2]) /\ i \in 1 .. Len(w[2])
      BY <1>3, <1>5, <1>6, <1>7
    <2> QED
      BY <1>3, <1>5, <1>6, <2>1
  <1> HIDE DEF c
  <1>9. Without(v, w, from)
    BY <1>5, <1>6, <1>7, <1>8, WithoutByPlace
  <1> QED
    BY <1>4, <1>9 DEF w

\* The object v without the members at the places first + 1 to last.
Rest(v, first, last) == Obj([k \in DOMAIN v[2] \ Between(v[2], first, last) |-> v[2][k]])

LEMMA ErasedMembers ==
    ASSUME NEW v, IsObject(v), Shaped(v), NEW from \in Nat, NEW to \in Nat, from <= to, to <= End(v)
    PROVE  Shaped(Rest(v, from, to)) /\ Without(v, Rest(v, from, to), from)
  <1> DEFINE w == Rest(v, from, to)
             f == v[2]
             g == w[2]
             c == to - from
  <1>1. /\ IsObject(w) /\ NameSet(DOMAIN f)
        /\ DOMAIN g = DOMAIN f \ Between(f, from, to) /\ \A k \in DOMAIN g : g[k] = f[k]
    BY Made DEF Shaped, NameSet, Rest
  <1> HIDE DEF w
  <1>2. /\ End(v) = Cardinality(DOMAIN f) /\ Cardinality(DOMAIN f) \in Nat
        /\ IsSequence(Forward(v)) /\ Len(Forward(v)) = Cardinality(DOMAIN f)
        /\ \A i \in 1 .. Cardinality(DOMAIN f) : Forward(v)[i] = f[Keys(f)[i]]
    BY <1>1, ObjectForward
  <1>3. /\ NameSet(DOMAIN g) /\ Cardinality(DOMAIN g) = Cardinality(DOMAIN f) - c
        /\ \A i \in 1 .. Cardinality(DOMAIN g) :
              Keys(g)[i] = Keys(f)[IF i <= from THEN i ELSE i + c]
    <2>1. to <= Cardinality(DOMAIN f) /\ Cardinality(DOMAIN f) \in Nat
      BY <1>2
    <2>2. Lacks(g, f, from, to) /\ NameSet(DOMAIN f)
      BY <1>1 DEF Lacks
    <2> HIDE DEF f, g, c
    <2>3. c = to - from
      BY DEF c
    <2>4. /\ NameSet(DOMAIN g)
          /\ Cardinality(DOMAIN g) \in Nat
          /\ Cardinality(DOMAIN g) + (to - from) = Cardinality(DOMAIN f)
      BY <2>1, <2>2, KeysWithout
    <2>5. \A i \in 1 .. Cardinality(DOMAIN g) :
             Keys(g)[i] = Keys(f)[IF i <= from THEN i ELSE i + (to - from)]
      BY <2>1, <2>2, KeysWithout
    <2> QED
      BY <2>1, <2>3, <2>4, <2>5
  <1>4. /\ End(w) = Cardinality(DOMAIN g) /\ Cardinality(DOMAIN g) \in Nat
        /\ IsSequence(Forward(w)) /\ Len(Forward(w)) = Cardinality(DOMAIN g)
        /\ \A i \in 1 .. Cardinality(DOMAIN g) : Forward(w)[i] = g[Keys(g)[i]]
    BY <1>1, <1>3, ObjectForward
  <1>5. Shaped(w)
    BY <1>1, <1>3, Kinds DEF Shaped, NameSet
  <1>6. c \in Nat /\ from <= Len(Forward(w)) /\ Len(Forward(w)) = Len(Forward(v)) - c
    BY <1>2, <1>3, <1>4
  <1>7. ASSUME NEW i \in 1 .. Len(Forward(w))
        PROVE  Forward(w)[i] = Forward(v)[IF i <= from THEN i ELSE i + c]
    <2> DEFINE m == IF i <= from THEN i ELSE i + c
    <2>1. m \in 1 .. Cardinality(DOMAIN f) /\ i \in 1 .. Cardinality(DOMAIN g)
      BY <1>2, <1>3, <1>4, <1>6
    <2>2. Keys(g)[i] = Keys(f)[m] /\ Keys(g)[i] \in DOMAIN g
      BY <1>3, <2>1, KeysListNames
    <2> HIDE DEF m
    <2>3. Forward(w)[i] = g[Keys(f)[m]] /\ g[Keys(f)[m]] = f[Keys(f)[m]]
      BY <1>1, <1>4, <2>1, <2>2
    <2> QED
      BY <1>2, <2>1, <2>3 DEF m
  <1> HIDE DEF c
  <1> QED
    BY <1>2, <1>4, <1>5, <1>6, <1>7, WithoutByPlace DEF w

LEMMA InsertedElements ==
    ASSUME NEW v, IsArray(v), Shaped(v), NEW at \in Nat, at <= End(v), NEW t, IsSequence(t)
    PROVE  Shaped(Arr(Splice(v[2], at, t))) /\ Without(Arr(Splice(v[2], at, t)), v, at)
  <1> DEFINE w == Arr(Splice(v[2], at, t))
             c == Len(t)
  <1>1. IsSequence(v[2]) /\ End(v) = Len(v[2]) /\ c \in Nat
    BY ArrayForward DEF Shaped, IsSequence
  <1>2. IsArray(w) /\ w[2] = Splice(v[2], at, t)
    BY Made
  <1>3. /\ IsSequence(w[2]) /\ Len(w[2]) = Len(v[2]) + c
        /\ \A i \in 1 .. Len(v[2]) : v[2][i] = w[2][IF i <= at THEN i ELSE i + c]
    <2>1. at <= Len(v[2])
      BY <1>1
    <2>2. /\ IsSequence(Splice(v[2], at, t)) /\ Len(Splice(v[2], at, t)) = Len(v[2]) + Len(t)
          /\ \A i \in 1 .. Len(v[2]) :
                v[2][i] = Splice(v[2], at, t)[IF i <= at THEN i ELSE i + Len(t)]
      <3> DEFINE s == v[2]
      <3>1. IsSequence(s) /\ at <= Len(s)
        BY <1>1, <2>1
      <3> HIDE DEF s
      <3>2. /\ IsSequence(Splice(s, at, t)) /\ Len(Splice(s, at, t)) = Len(s) + Len(t)
            /\ \A i \in 1 .. Len(s) :
                  s[i] = Splice(s, at, t)[IF i <= at THEN i ELSE i + Len(t)]
        BY ONLY <3>1, SpliceElements, at \in Nat, IsSequence(t)
      <3> QED
        BY <3>2 DEF s
    <2> HIDE DEF w
    <2> QED
      BY <1>2, <2>2
  <1> HIDE DEF w, c
  <1>4. Shaped(w)
    BY <1>2, <1>3, Kinds DEF Shaped
  <1>5. /\ IsSequence(Forward(v)) /\ Len(Forward(v)) = Len(v[2]) /\ Len(v[2]) \in Nat
        /\ \A i \in 1 .. Len(v[2]) : Forward(v)[i] = v[2][i]
    BY ArrayForward
  <1>6. /\ IsSequence(Forward(w)) /\ Len(Forward(w)) = Len(w[2])
        /\ \A i \in 1 .. Len(w[2]) : Forward(w)[i] = w[2][i]
    BY <1>2, <1>4, ArrayForward
  <1>7. at <= Len(Forward(v)) /\ Len(Forward(v)) = Len(Forward(w)) - c
    BY <1>1, <1>3, <1>5, <1>6
  <1>8. ASSUME NEW i \in 1 .. Len(Forward(v))
        PROVE  Forward(v)[i] = Forward(w)[IF i <= at THEN i ELSE i + c]
    <2>1. (IF i <= at THEN i ELSE i + c) \in 1 .. Len(w[2]) /\ i \in 1 .. Len(v[2])
      BY <1>1, <1>3, <1>5
    <2> QED
      BY <1>3, <1>5, <1>6, <2>1
  <1>9. Without(w, v, at)
    BY <1>1, <1>5, <1>6, <1>7, <1>8, WithoutByPlace
  <1> QED
    BY <1>4, <1>9 DEF w

-----------------------------------------------------------------------------
(* What the operations leave and tell.                                     *)

LEMMA Answers ==
    ASSUME NEW v, NEW x
    PROVE  /\ Done(v, x).error = 0 /\ Done(v, x).value = v /\ Done(v, x).result = x
           /\ Refused(v, x).error = x /\ Refused(v, x).value = v
           /\ Ok(v).error = 0 /\ Ok(v).value = v
           /\ Throw(x).error = x
  BY DEF Done, Refused, Ok, Throw

LEMMA ShapedMade ==
    /\ \A s : IsSequence(s) => Shaped(Arr(s))
    /\ \A f : NameSet(DOMAIN f) => Shaped(Obj(f))
    /\ \A b \in Seq(Byte) : Shaped(Str(b))
    /\ Shaped(Null)
  <1>1. ASSUME NEW s, IsSequence(s)
        PROVE  Shaped(Arr(s))
    BY <1>1, Made, Kinds DEF Shaped
  <1>2. ASSUME NEW f, NameSet(DOMAIN f)
        PROVE  Shaped(Obj(f))
    BY <1>2, Made, Kinds DEF Shaped, NameSet
  <1>3. ASSUME NEW b \in Seq(Byte)
        PROVE  Shaped(Str(b))
    BY Made, Kinds DEF Shaped
  <1>4. Shaped(Null)
    BY Made, Kinds DEF Shaped
  <1> QED
    BY <1>1, <1>2, <1>3, <1>4

LEMMA ShapedHas ==
    ASSUME NEW v, Shaped(v)
    PROVE  /\ IsArray(v)  => IsSequence(v[2]) /\ Len(v[2]) \in Nat
           /\ IsObject(v) => NameSet(DOMAIN v[2])
           /\ IsString(v) => v[2] \in Seq(Byte)
  BY DEF Shaped, NameSet, IsSequence

\* A position in v, or one in another value.
Spot(v, pos) == pos = <<"other", 0>> \/ \E at \in 0 .. End(v) : pos = <<"doc", at>>

LEMMA EndType ==
    ASSUME NEW v, Shaped(v)
    PROVE  End(v) \in Nat
  <1>1. IsArray(v) \/ IsObject(v) \/ ~IsStructured(v)
    BY Kinds
  <1>2. CASE IsArray(v)
    BY <1>2, ArrayForward
  <1>3. CASE IsObject(v)
    BY <1>3, ShapedHas, ObjectForward
  <1>4. CASE ~IsStructured(v)
    BY <1>4 DEF End
  <1> QED
    BY <1>1, <1>2, <1>3, <1>4

LEMMA SpotPlace ==
    ASSUME NEW v, Shaped(v), NEW pos, Spot(v, pos), pos[1] = "doc"
    PROVE  pos[2] \in Nat /\ pos[2] <= End(v) /\ pos = <<"doc", pos[2]>>
  <1>1. PICK at \in 0 .. End(v) : pos = <<"doc", at>>
    BY DEF Spot
  <1> QED
    BY <1>1, EndType

\* What an erasing operation owes.
Erases(v, r) ==
    /\ Shaped(r.value)
    /\ r.error = 0 => IF IsNull(r.value) THEN r.result = End(r.value)
                      ELSE Without(v, r.value, r.result)

LEMMA RefusedErases ==
    ASSUME NEW v, Shaped(v), NEW id, id # 0
    PROVE  Erases(v, Refused(v, id))
  BY Answers DEF Erases

LEMMA NulledErases ==
    ASSUME NEW v, Primitive(v)
    PROVE  Erases(v, Done(Null, End(v)))
  <1>1. End(v) = 1 /\ End(Null) = 1 /\ IsNull(Null)
    BY Made, Kinds DEF End, Primitive
  <1> QED
    BY <1>1, Answers, ShapedMade DEF Erases

LEMMA CutErases ==
    ASSUME NEW v, IsArray(v), Shaped(v), NEW from \in Nat, NEW to \in Nat, from <= to, to <= End(v)
    PROVE  Erases(v, Done(Arr(Cut(v[2], from, to)), from))
  <1> DEFINE w == Arr(Cut(v[2], from, to))
  <1>1. ~IsNull(w) /\ Shaped(w) /\ Without(v, w, from)
    BY Made, Kinds, ErasedElements
  <1> HIDE DEF w
  <1>2. Erases(v, Done(w, from))
    BY <1>1, Answers DEF Erases
  <1> QED
    BY <1>2 DEF w

LEMMA RestErases ==
    ASSUME NEW v, IsObject(v), Shaped(v), NEW from \in Nat, NEW to \in Nat, from <= to, to <= End(v)
    PROVE  Erases(v, Done(Rest(v, from, to), from))
  <1> DEFINE w == Rest(v, from, to)
  <1>1. IsObject(w)
    BY Made DEF Rest
  <1> HIDE DEF w
  <1>2. ~IsNull(w) /\ Shaped(w) /\ Without(v, w, from)
    BY <1>1, Kinds, ErasedMembers DEF w
  <1>3. Erases(v, Done(w, from))
    BY <1>2, Answers DEF Erases
  <1> QED
    BY <1>3 DEF w

LEMMA KeysBetween ==
    ASSUME NEW v, NEW from \in Nat, NEW to \in Nat
    PROVE  /\ {KeyAt(v, i) : i \in from .. to - 1} = Between(v[2], from, to)
           /\ {KeyAt(v, from)} = Between(v[2], from, from + 1)
  <1>1. ASSUME NEW n \in Nat
        PROVE  {KeyAt(v, i) : i \in from .. n - 1} = Between(v[2], from, n)
    <2>1. ASSUME NEW k \in {KeyAt(v, i) : i \in from .. n - 1}
          PROVE  k \in Between(v[2], from, n)
      <3>1. PICK i \in from .. n - 1 : k = Keys(v[2])[i + 1]
        BY DEF KeyAt
      <3>2. i + 1 \in from + 1 .. n
        OBVIOUS
      <3> QED
        BY <3>1, <3>2 DEF Between
    <2>2. ASSUME NEW k \in Between(v[2], from, n)
          PROVE  k \in {KeyAt(v, i) : i \in from .. n - 1}
      <3>1. PICK i \in from + 1 .. n : k = Keys(v[2])[i]
        BY DEF Between
      <3>2. i - 1 \in from .. n - 1 /\ (i - 1) + 1 = i
        OBVIOUS
      <3> QED
        BY <3>1, <3>2 DEF KeyAt
    <2> QED
      BY <2>1, <2>2
  <1>2. {KeyAt(v, i) : i \in from .. (from + 1) - 1} = {KeyAt(v, from)}
    <2>1. from .. (from + 1) - 1 = {from}
      OBVIOUS
    <2> QED
      BY <2>1
  <1>3. from + 1 \in Nat
    OBVIOUS
  <1> QED
    BY <1>1, <1>2, <1>3

LEMMA EraseRangeErases ==
    ASSUME NEW v, Shaped(v), NEW first, Spot(v, first), NEW last, Spot(v, last), first[2] <= last[2]
    PROVE  Erases(v, EraseRange(v, "doc", first, last))
  <1> DEFINE r == EraseRange(v, "doc", first, last)
  <1>1. CASE first[1] # "doc" \/ last[1] # "doc"
    <2>1. r = Refused(v, 203)
      BY <1>1 DEF EraseRange
    <2> QED
      BY <2>1, RefusedErases
  <1>2. CASE first[1] = "doc" /\ last[1] = "doc"
    <2>1. first[2] \in Nat /\ last[2] \in Nat /\ last[2] <= End(v)
      BY <1>2, SpotPlace
    <2>2. CASE Primitive(v)
      <3>1. ~IsArray(v) /\ ~IsObject(v)
        BY <2>2, Kinds
      <3>2. r = Done(Null, End(v)) \/ r = Refused(v, 204)
        BY <1>2, <2>2, <3>1 DEF EraseRange
      <3> QED
        BY <2>2, <3>2, NulledErases, RefusedErases
    <2>3. CASE IsObject(v)
      <3>1. ~IsArray(v) /\ ~Primitive(v)
        BY <2>3, Kinds
      <3>2. {KeyAt(v, i) : i \in first[2] .. last[2] - 1} = Between(v[2], first[2], last[2])
        BY <2>1, KeysBetween
      <3>3. r = Done(Rest(v, first[2], last[2]), first[2])
        BY <1>2, <2>3, <3>1, <3>2 DEF EraseRange, Rest
      <3> QED
        BY <2>1, <2>3, <3>3, RestErases
    <2>4. CASE IsArray(v)
      <3>1. ~IsObject(v) /\ ~Primitive(v)
        BY <2>4, Kinds
      <3>2. r = Done(Arr(Cut(v[2], first[2], last[2])), first[2])
        BY <1>2, <2>4, <3>1 DEF EraseRange
      <3> QED
        BY <2>1, <2>4, <3>2, CutErases
    <2>5. CASE ~Primitive(v) /\ ~IsObject(v) /\ ~IsArray(v)
      <3>1. r = Refused(v, 307)
        BY <1>2, <2>5 DEF EraseRange
      <3> QED
        BY <3>1, RefusedErases
    <2> QED
      BY <2>2, <2>3, <2>4, <2>5
  <1> QED
    BY <1>1, <1>2

LEMMA EraseAtErases ==
    ASSUME NEW v, Shaped(v), NEW pos, Spot(v, pos),
           pos[1] = "doc" /\ IsStructured(v) => pos[2] < End(v)
    PROVE  Erases(v, EraseAt(v, "doc", pos))
  <1> DEFINE r == EraseAt(v, "doc", pos)
  <1>1. CASE pos[1] # "doc"
    <2>1. r = Refused(v, 202)
      BY <1>1 DEF EraseAt
    <2> QED
      BY <2>1, RefusedErases
  <1>2. CASE pos[1] = "doc"
    <2>1. pos[2] \in Nat /\ pos[2] + 1 \in Nat /\ pos[2] <= pos[2] + 1
      BY <1>2, SpotPlace
    <2>2. CASE Primitive(v)
      <3>1. ~IsArray(v) /\ ~IsObject(v)
        BY <2>2, Kinds
      <3>2. r = Done(Null, End(v)) \/ r = Refused(v, 205)
        BY <1>2, <2>2, <3>1 DEF EraseAt
      <3> QED
        BY <2>2, <3>2, NulledErases, RefusedErases
    <2>3. CASE IsObject(v)
      <3>1. ~IsArray(v) /\ ~Primitive(v) /\ pos[2] < End(v)
        BY <1>2, <2>3, Kinds
      <3>2. {KeyAt(v, pos[2])} = Between(v[2], pos[2], pos[2] + 1)
        BY <2>1, KeysBetween
      <3>3. r = Done(Rest(v, pos[2], pos[2] + 1), pos[2])
        BY <1>2, <2>3, <3>1, <3>2 DEF EraseAt, Rest
      <3>4. pos[2] + 1 <= End(v)
        BY <2>1, <2>3, <3>1, ObjectForward, ShapedHas
      <3> QED
        BY <2>1, <2>3, <3>3, <3>4, RestErases
    <2>4. CASE IsArray(v)
      <3>1. ~IsObject(v) /\ ~Primitive(v) /\ pos[2] < End(v)
        BY <1>2, <2>4, Kinds
      <3>2. r = Done(Arr(Cut(v[2], pos[2], pos[2] + 1)), pos[2])
        BY <1>2, <2>4, <3>1 DEF EraseAt
      <3>3. pos[2] + 1 <= End(v)
        BY <2>1, <2>4, <3>1, ArrayForward
      <3> QED
        BY <2>1, <2>4, <3>2, <3>3, CutErases
    <2>5. CASE ~Primitive(v) /\ ~IsObject(v) /\ ~IsArray(v)
      <3>1. r = Refused(v, 307)
        BY <1>2, <2>5 DEF EraseAt
      <3> QED
        BY <3>1, RefusedErases
    <2> QED
      BY <2>2, <2>3, <2>4, <2>5
  <1> QED
    BY <1>1, <1>2

\* What an inserting operation owes.
Inserts(v, r) ==
    /\ Shaped(r.value)
    /\ r.error = 0 => Without(r.value, v, r.result)

LEMMA RefusedInserts ==
    ASSUME NEW v, Shaped(v), NEW id, id # 0
    PROVE  Inserts(v, Refused(v, id))
  BY Answers DEF Inserts

LEMMA SpliceInserts ==
    ASSUME NEW v, IsArray(v), Shaped(v), NEW at \in Nat, at <= End(v), NEW t, IsSequence(t)
    PROVE  Inserts(v, Done(Arr(Splice(v[2], at, t)), at))
  <1> DEFINE w == Arr(Splice(v[2], at, t))
  <1>1. Shaped(w) /\ Without(w, v, at)
    BY InsertedElements
  <1> HIDE DEF w
  <1>2. Inserts(v, Done(w, at))
    BY <1>1, Answers DEF Inserts
  <1> QED
    BY <1>2 DEF w

LEMMA InsertListInserts ==
    ASSUME NEW v, Shaped(v), NEW pos, Spot(v, pos), NEW t, IsSequence(t)
    PROVE  Inserts(v, InsertList(v, "doc", pos, t))
  <1> DEFINE r == InsertList(v, "doc", pos, t)
  <1>1. CASE ~IsArray(v)
    <2>1. r = Refused(v, 309)
      BY <1>1 DEF InsertList
    <2> QED
      BY <2>1, RefusedInserts
  <1>2. CASE IsArray(v) /\ pos[1] # "doc"
    <2>1. r = Refused(v, 202)
      BY <1>2 DEF InsertList
    <2> QED
      BY <2>1, RefusedInserts
  <1>3. CASE IsArray(v) /\ pos[1] = "doc"
    <2>1. r = Done(Arr(Splice(v[2], pos[2], t)), pos[2])
      BY <1>3 DEF InsertList
    <2> QED
      BY <1>3, <2>1, SpotPlace, SpliceInserts
  <1> QED
    BY <1>1, <1>2, <1>3

\* Every part of an array is a sequence.
LEMMA PartIsSequence ==
    ASSUME NEW s, IsSequence(s), NEW a \in Nat, NEW b \in Nat, a <= b, b <= Len(s)
    PROVE  IsSequence(SubSeq(s, a + 1, b))
  <1>1. s \in Seq({s[i] : i \in 1 .. Len(s)})
    BY SequenceType
  <1>2. SubSeq(s, a + 1, b) \in Seq({s[i] : i \in 1 .. Len(s)})
    BY <1>1
  <1> QED
    BY <1>2, SequenceType

LEMMA InsertRangeInserts ==
    ASSUME NEW v, Shaped(v), NEW pos, Spot(v, pos), NEW x, IsArray(x), Shaped(x),
           NEW first \in {<<"doc", 0>>, <<"other", 0>>}
    PROVE  Inserts(v, InsertRange(v, "doc", pos, x, first, <<"other", Size(x)>>))
  <1> DEFINE last == <<"other", Size(x)>>
             r == InsertRange(v, "doc", pos, x, first, last)
  <1>1. CASE ~IsArray(v) \/ pos[1] # "doc"
    <2>1. r = Refused(v, 309) \/ r = Refused(v, 202)
      BY <1>1 DEF InsertRange
    <2> QED
      BY <2>1, RefusedInserts
  <1>2. CASE IsArray(v) /\ pos[1] = "doc" /\ first = <<"doc", 0>>
    <2>1. r = Refused(v, 210)
      <3>1. first[1] # last[1]
        BY <1>2
      <3> HIDE DEF last
      <3> QED
        BY <1>2, <3>1 DEF InsertRange
    <2> QED
      BY <2>1, RefusedInserts
  <1>3. CASE IsArray(v) /\ pos[1] = "doc" /\ first = <<"other", 0>>
    <2> DEFINE t == SubSeq(x[2], 0 + 1, Len(x[2]))
    <2>1. IsSequence(t)
      <3>1. IsSequence(x[2]) /\ Len(x[2]) \in Nat /\ 0 \in Nat /\ 0 <= Len(x[2])
        BY ShapedHas
      <3> QED
        BY <3>1, PartIsSequence
    <2>2. Size(x) = Len(x[2])
      BY ArrayForward
    <2>3. first[1] = last[1] /\ first[1] # "doc" /\ first[2] + 1 = 0 + 1 /\ last[2] = Len(x[2])
      BY <1>3, <2>2
    <2>4. r = Done(Arr(Splice(v[2], pos[2], t)), pos[2])
      <3> HIDE DEF last
      <3> QED
        BY <1>3, <2>3 DEF InsertRange
    <2> HIDE DEF t
    <2>5. Inserts(v, Done(Arr(Splice(v[2], pos[2], t)), pos[2]))
      BY <1>3, <2>1, SpotPlace, SpliceInserts
    <2> QED
      BY <2>4, <2>5
  <1> QED
    BY <1>1, <1>2, <1>3

-----------------------------------------------------------------------------
(* Members.                                                                *)

LEMMA MembersShaped ==
    ASSUME NEW v, Shaped(v), IsNull(v) \/ IsObject(v)
    PROVE  /\ NameSet(DOMAIN MembersOf(v))
           /\ Len(Forward(v)) = Cardinality(DOMAIN MembersOf(v))
           /\ \A k : Count(v, k) = IF k \in DOMAIN MembersOf(v) THEN 1 ELSE 0
  <1>1. CASE IsObject(v)
    <2>1. MembersOf(v) = v[2] /\ ~IsNull(v)
      BY <1>1, Kinds DEF MembersOf
    <2>2. NameSet(DOMAIN v[2])
      BY <1>1, ShapedHas
    <2> QED
      BY <1>1, <2>1, <2>2, ObjectForward DEF Count
  <1>2. CASE IsNull(v)
    <2>1. DOMAIN MembersOf(v) = {} /\ ~IsObject(v)
      BY <1>2, Kinds DEF MembersOf, EmptyFunction
    <2>2. Begin(v) = 1 /\ End(v) = 1
      BY <1>2, Kinds DEF Begin, End
    <2>3. Len(Forward(v)) = 0
      <3>1. Forward(v) = [i \in 1 .. 1 - 1 |-> Deref(v, 1 + i - 1).value]
        BY <2>2 DEF Forward
      <3>2. 1 .. 1 - 1 = 1 .. 0
        OBVIOUS
      <3>3. Len([i \in 1 .. 0 |-> Deref(v, 1 + i - 1).value]) = 0
        OBVIOUS
      <3> QED
        BY <3>1, <3>2, <3>3
    <2> QED
      BY <2>1, <2>3, FS_EmptySet DEF NameSet, Count
  <1> QED
    BY <1>1, <1>2

LEMMA WithMemberNames ==
    ASSUME NEW f, NameSet(DOMAIN f), NEW k \in Seq(Byte), NEW x
    PROVE  /\ NameSet(DOMAIN WithMember(f, k, x)) /\ DOMAIN WithMember(f, k, x) = DOMAIN f \cup {k}
           /\ k \notin DOMAIN f =>
                Cardinality(DOMAIN WithMember(f, k, x)) = Cardinality(DOMAIN f) + 1
  <1>1. DOMAIN WithMember(f, k, x) = DOMAIN f \cup {k}
    BY DEF WithMember
  <1>2. /\ IsFiniteSet(DOMAIN f \cup {k})
        /\ k \notin DOMAIN f => Cardinality(DOMAIN f \cup {k}) = Cardinality(DOMAIN f) + 1
    <2> DEFINE D == DOMAIN f
    <2>1. IsFiniteSet(D)
      BY DEF NameSet
    <2> HIDE DEF D
    <2>2. /\ IsFiniteSet(D \cup {k})
          /\ Cardinality(D \cup {k}) = IF k \in D THEN Cardinality(D) ELSE Cardinality(D) + 1
      BY <2>1, FS_AddElement
    <2> QED
      BY <2>2 DEF D
  <1> QED
    BY <1>1, <1>2 DEF NameSet

\* The members after a member was put in unless there was one of its name.
PutIn(v, k, x) ==
    IF k \in DOMAIN MembersOf(v) THEN MembersOf(v) ELSE WithMember(MembersOf(v), k, x)

LEMMA PutInNames ==
    ASSUME NEW v, Shaped(v), IsNull(v) \/ IsObject(v), NEW k \in Seq(Byte), NEW x
    PROVE  /\ NameSet(DOMAIN PutIn(v, k, x)) /\ k \in DOMAIN PutIn(v, k, x)
           /\ Cardinality(DOMAIN PutIn(v, k, x)) =
                Cardinality(DOMAIN MembersOf(v)) + (IF k \in DOMAIN MembersOf(v) THEN 0 ELSE 1)
           /\ Cardinality(DOMAIN MembersOf(v)) \in Nat
  <1>1. NameSet(DOMAIN MembersOf(v)) /\ Cardinality(DOMAIN MembersOf(v)) \in Nat
    BY MembersShaped, PlaceType
  <1> DEFINE f == MembersOf(v)
  <1> HIDE DEF f
  <1>2. CASE k \in DOMAIN f
    <2>1. PutIn(v, k, x) = f
      BY <1>2 DEF PutIn, f
    <2> QED
      BY <1>1, <1>2, <2>1 DEF f
  <1>3. CASE k \notin DOMAIN f
    <2>1. PutIn(v, k, x) = WithMember(f, k, x)
      BY <1>3 DEF PutIn, f
    <2>2. /\ NameSet(DOMAIN WithMember(f, k, x)) /\ k \in DOMAIN WithMember(f, k, x)
          /\ Cardinality(DOMAIN WithMember(f, k, x)) = Cardinality(DOMAIN f) + 1
      <3>1. NameSet(DOMAIN f)
        BY <1>1 DEF f
      <3>2. DOMAIN WithMember(f, k, x) = DOMAIN f \cup {k}
        BY <3>1, WithMemberNames
      <3>3. /\ NameSet(DOMAIN WithMember(f, k, x))
            /\ Cardinality(DOMAIN WithMember(f, k, x)) = Cardinality(DOMAIN f) + 1
        BY <1>3, <3>1, WithMemberNames
      <3> QED
        BY <3>2, <3>3
    <2>3. (IF k \in DOMAIN f THEN 0 ELSE 1) = 1
      BY <1>3
    <2>4. /\ NameSet(DOMAIN PutIn(v, k, x)) /\ k \in DOMAIN PutIn(v, k, x)
          /\ Cardinality(DOMAIN PutIn(v, k, x)) =
               Cardinality(DOMAIN f) + (IF k \in DOMAIN f THEN 0 ELSE 1)
      BY <2>1, <2>2, <2>3
    <2> QED
      BY <1>1, <2>4 DEF f
  <1> QED
    BY <1>2, <1>3

LEMMA PushBackMemberShaped ==
    ASSUME NEW v, Shaped(v), NEW k \in Seq(Byte), NEW x
    PROVE  Shaped(PushBackMember(v, k, x).value)
  <1>1. CASE IsNull(v) \/ IsObject(v)
    <2>1. PushBackMember(v, k, x) = Done(Obj(PutIn(v, k, x)), 0)
      BY <1>1 DEF PushBackMember, PutIn
    <2>2. Shaped(Obj(PutIn(v, k, x)))
      BY <1>1, PutInNames, ShapedMade
    <2> QED
      BY <2>1, <2>2, Answers
  <1>2. CASE ~(IsNull(v) \/ IsObject(v))
    <2>1. PushBackMember(v, k, x) = Refused(v, 308)
      BY <1>2 DEF PushBackMember
    <2> QED
      BY <2>1, Answers
  <1> QED
    BY <1>1, <1>2

\* An iterator to the member of an object under a name stands before its end.
LEMMA FindFinds ==
    ASSUME NEW f, NameSet(DOMAIN f), NEW k \in DOMAIN f
    PROVE  Find(Obj(f), k) \in 0 .. End(Obj(f)) - 1
  <1> DEFINE w == Obj(f)
  <1>1. IsObject(w) /\ w[2] = f
    BY Made
  <1> HIDE DEF w
  <1>2. Size(w) = Cardinality(DOMAIN f) /\ End(w) = Cardinality(DOMAIN f)
    BY <1>1, ObjectForward
  <1>3. \E i \in 0 .. Size(w) - 1 : KeyAt(w, i) = k
    <2>1. /\ Cardinality(DOMAIN f) \in Nat
          /\ Place(DOMAIN f, k) \in Nat
          /\ Place(DOMAIN f, k) + 1 \in 1 .. Cardinality(DOMAIN f)
          /\ Keys(f)[Place(DOMAIN f, k) + 1] = k
      BY KeysListNames, PlaceType
    <2>2. Place(DOMAIN f, k) \in 0 .. Size(w) - 1
      BY <1>2, <2>1
    <2> QED
      BY <1>1, <2>1, <2>2 DEF KeyAt
  <1>4. Find(w, k) = CHOOSE i \in 0 .. Size(w) - 1 : KeyAt(w, i) = k
    BY <1>1 DEF Find
  <1>5. Find(w, k) \in 0 .. Size(w) - 1
    BY <1>3, <1>4
  <1> QED
    BY <1>2, <1>5 DEF w

\* What an emplacing operation owes.
Emplaces(v, r) ==
    /\ Shaped(r.value)
    /\ r.error = 0 =>
         /\ r.result[1] \in 0 .. End(r.value) - 1
         /\ r.result[2] = (Len(Forward(r.value)) > Len(Forward(v)))

LEMMA EmplaceEmplaces ==
    ASSUME NEW v, Shaped(v), NEW k \in Seq(Byte), NEW x
    PROVE  Emplaces(v, Emplace(v, k, x))
  <1>1. CASE IsNull(v) \/ IsObject(v)
    <2> DEFINE g == PutIn(v, k, x)
               w == Obj(g)
    <2>1. PushBackMember(v, k, x) = Done(w, 0)
      BY <1>1 DEF PushBackMember, PutIn
    <2>2. PushBackMember(v, k, x).value = w
      BY <2>1, Answers
    <2>3. Emplace(v, k, x) = Done(w, <<Find(w, k), Count(v, k) = 0>>)
      BY <1>1, <2>2 DEF Emplace
    <2>4. NameSet(DOMAIN g) /\ k \in DOMAIN g
      BY <1>1, PutInNames
    <2> HIDE DEF g
    <2>5. Find(w, k) \in 0 .. End(w) - 1
      BY <2>4, FindFinds
    <2>6. Shaped(w) /\ IsObject(w) /\ w[2] = g
      BY <2>4, ShapedMade, Made
    <2> HIDE DEF w
    <2>7. Len(Forward(w)) = Cardinality(DOMAIN g)
      BY <2>4, <2>6, ObjectForward
    <2>8. (Count(v, k) = 0) = (Len(Forward(w)) > Len(Forward(v)))
      <3>1. /\ Len(Forward(v)) \in Nat
            /\ Len(Forward(w)) = Len(Forward(v)) + (IF k \in DOMAIN MembersOf(v) THEN 0 ELSE 1)
        BY <1>1, <2>7, PutInNames, MembersShaped DEF g
      <3>2. Count(v, k) = IF k \in DOMAIN MembersOf(v) THEN 1 ELSE 0
        BY <1>1, MembersShaped
      <3> QED
        BY <3>1, <3>2
    <2>9. /\ Emplace(v, k, x).error = 0 /\ Emplace(v, k, x).value = w
          /\ Emplace(v, k, x).result = <<Find(w, k), Count(v, k) = 0>>
      BY <2>3, Answers
    <2> QED
      BY <2>5, <2>6, <2>8, <2>9 DEF Emplaces
  <1>2. CASE ~(IsNull(v) \/ IsObject(v))
    <2>1. Emplace(v, k, x) = Refused(v, 311)
      BY <1>2 DEF Emplace
    <2> QED
      BY <2>1, Answers DEF Emplaces
  <1> QED
    BY <1>1, <1>2

-----------------------------------------------------------------------------
(* Construction and the other changes.                                     *)

\* A sequence of values whose elements and, of arrays, their elements have their
\* shapes: all that a brace list looks at.
ListShaped(list) ==
    /\ IsSequence(list)
    /\ \A i \in 1 .. Len(list) :
          /\ Shaped(list[i])
          /\ IsArray(list[i]) => \A j \in 1 .. Len(list[i][2]) : Shaped(list[i][2][j])

LEMMA FromListShaped ==
    ASSUME NEW list, ListShaped(list)
    PROVE  Shaped(FromList(list))
  <1>1. DOMAIN list = 1 .. Len(list) /\ Len(list) \in Nat
    BY DEF ListShaped, IsSequence
  <1>2. CASE \A i \in DOMAIN list : IsPair(list[i])
    <2> DEFINE name == [i \in 1 .. Len(list) |-> list[i][2][1][2]]
               N == {list[i][2][1][2] : i \in 1 .. Len(list)}
    <2>1. ASSUME NEW i \in 1 .. Len(list)
          PROVE  name[i] \in Seq(Byte)
      <3>1. IsArray(list[i]) /\ Len(list[i][2]) = 2 /\ IsString(list[i][2][1])
        BY <1>1, <1>2 DEF IsPair
      <3>2. Shaped(list[i][2][1])
        BY <3>1 DEF ListShaped
      <3>3. list[i][2][1][2] \in Seq(Byte)
        BY <3>1, <3>2, ShapedHas
      <3> QED
        BY <3>3
    <2>2. N \subseteq Seq(Byte)
      BY <2>1
    <2>3. name \in Surjection(1 .. Len(list), N)
      BY DEF Surjection
    <2>4. IsFiniteSet(1 .. Len(list))
      BY <1>1, FS_Interval
    <2>5. IsFiniteSet(N)
      BY <2>3, <2>4, FS_Surjection
    <2> DEFINE f == [k \in N |->
                       list[CHOOSE i \in DOMAIN list :
                              /\ list[i][2][1][2] = k
                              /\ \A j \in 1 .. i - 1 : list[j][2][1][2] # k][2][2]]
    <2>6. FromList(list) = Obj(f)
      BY <1>1, <1>2 DEF FromList
    <2>7. NameSet(DOMAIN f)
      BY <2>2, <2>5 DEF NameSet
    <2> HIDE DEF f
    <2> QED
      BY <2>6, <2>7, ShapedMade
  <1>3. CASE ~(\A i \in DOMAIN list : IsPair(list[i]))
    <2>1. FromList(list) = Arr(list)
      BY <1>3 DEF FromList
    <2> QED
      BY <2>1, ShapedMade DEF ListShaped
  <1> QED
    BY <1>2, <1>3

\* A list as a list of arrays of elements: what an item may stand in.
ItemShaped(x) == Shaped(x) /\ (IsArray(x) => \A i \in DOMAIN x[2] : Shaped(x[2][i]))

LEMMA PairLists ==
    ASSUME NEW k \in Seq(Byte), NEW x, ItemShaped(x)
    PROVE  /\ ListShaped(<<Str(k), x>>)
           /\ ListShaped(<<Arr(<<Str(k), x>>)>>)
           /\ ListShaped(<<Arr(<<Str(k), x>>), x>>)
  <1> DEFINE pair == <<Str(k), x>>
  <1>1. Shaped(Str(k)) /\ ~IsArray(Str(k)) /\ Shaped(x)
    BY ShapedMade, Made, Kinds DEF ItemShaped
  <1>2. IsArray(x) => \A j \in 1 .. Len(x[2]) : Shaped(x[2][j])
    <2>1. SUFFICES ASSUME IsArray(x) PROVE \A j \in 1 .. Len(x[2]) : Shaped(x[2][j])
      OBVIOUS
    <2>2. DOMAIN x[2] = 1 .. Len(x[2])
      BY <2>1, ShapedHas DEF ItemShaped, IsSequence
    <2> QED
      BY <2>1, <2>2 DEF ItemShaped
  <1>3. IsSequence(pair) /\ Len(pair) = 2 /\ pair[1] = Str(k) /\ pair[2] = x
    <2>1. pair \in Seq({Str(k), x})
      OBVIOUS
    <2> QED
      BY <2>1, SequenceType
  <1> HIDE DEF pair
  <1>4. ListShaped(pair)
    BY <1>1, <1>2, <1>3 DEF ListShaped
  <1> DEFINE a == Arr(pair)
  <1>5. Shaped(a) /\ \A j \in 1 .. Len(a[2]) : Shaped(a[2][j])
    BY <1>1, <1>3, ShapedMade, Made
  <1> HIDE DEF a
  <1>6. ListShaped(<<a>>)
    <2>1. <<a>> \in Seq({a}) /\ Len(<<a>>) = 1 /\ <<a>>[1] = a
      OBVIOUS
    <2>2. IsSequence(<<a>>)
      BY <2>1, SequenceType
    <2> QED
      BY <1>5, <2>1, <2>2 DEF ListShaped
  <1>7. ListShaped(<<a, x>>)
    <2>1. <<a, x>> \in Seq({a, x}) /\ Len(<<a, x>>) = 2 /\ <<a, x>>[1] = a /\ <<a, x>>[2] = x
      OBVIOUS
    <2>2. IsSequence(<<a, x>>)
      BY <2>1, SequenceType
    <2> QED
      BY <1>1, <1>2, <1>5, <2>1, <2>2 DEF ListShaped
  <1> QED
    BY <1>4, <1>6, <1>7 DEF a, pair

LEMMA FromRangeShaped ==
    ASSUME NEW v, Shaped(v), NEW first, Spot(v, first), NEW last, Spot(v, last),
           first[1] = "doc", first[2] <= last[2]
    PROVE  LET r == FromRange(v, first, last) IN r.error = 0 => Shaped(r.value)
  <1> DEFINE r == FromRange(v, first, last)
  <1>1. CASE first[1] # last[1]
    <2>1. r = Throw(201)
      BY <1>1 DEF FromRange
    <2> QED
      BY <2>1, Answers
  <1>2. CASE first[1] = last[1]
    <2>1. first[2] \in Nat /\ last[2] \in Nat /\ last[2] <= End(v)
      BY <1>2, SpotPlace
    <2>2. CASE IsArray(v)
      <3>1. ~IsObject(v) /\ ~Primitive(v)
        BY <2>2, Kinds
      <3>2. r = Ok(Arr(SubSeq(v[2], first[2] + 1, last[2])))
        BY <1>2, <2>2, <3>1 DEF FromRange
      <3>3. IsSequence(SubSeq(v[2], first[2] + 1, last[2]))
        BY <2>1, <2>2, ArrayForward, ShapedHas, PartIsSequence
      <3> QED
        BY <3>2, <3>3, ShapedMade, Answers
    <2>3. CASE IsObject(v)
      <3> DEFINE f == [k \in {KeyAt(v, i) : i \in first[2] .. last[2] - 1} |-> v[2][k]]
      <3>1. ~IsArray(v) /\ ~Primitive(v)
        BY <2>3, Kinds
      <3>2. r = Ok(Obj(f))
        BY <1>2, <2>3, <3>1 DEF FromRange
      <3>3. DOMAIN f = Between(v[2], first[2], last[2])
        BY <2>1, KeysBetween
      <3>4. NameSet(DOMAIN v[2]) /\ End(v) = Cardinality(DOMAIN v[2])
        BY <2>3, ShapedHas, ObjectForward
      <3>5. NameSet(DOMAIN f)
        <4>1. /\ Between(v[2], first[2], last[2]) \subseteq DOMAIN v[2]
              /\ IsFiniteSet(Between(v[2], first[2], last[2]))
          BY <2>1, <3>4, BetweenSize
        <4> QED
          BY <3>3, <3>4, <4>1 DEF NameSet
      <3> HIDE DEF f
      <3> QED
        BY <3>2, <3>5, ShapedMade, Answers
    <2>4. CASE Primitive(v)
      <3>1. ~IsArray(v) /\ ~IsObject(v)
        BY <2>4, Kinds
      <3>2. r = Ok(v) \/ r = Throw(204)
        BY <1>2, <2>4, <3>1 DEF FromRange
      <3> QED
        BY <3>2, Answers
    <2>5. CASE ~Primitive(v) /\ ~IsObject(v) /\ ~IsArray(v)
      <3>1. r = Throw(206)
        BY <1>2, <2>5 DEF FromRange
      <3> QED
        BY <3>1, Answers
    <2> QED
      BY <2>2, <2>3, <2>4, <2>5
  <1> QED
    BY <1>1, <1>2

\* The elements of a value that is an array or becomes one.
Held(v) == IF IsNull(v) THEN <<>> ELSE v[2]

LEMMA HeldIsSequence ==
    ASSUME NEW v, Shaped(v), IsNull(v) \/ IsArray(v)
    PROVE  \E S : Held(v) \in Seq(S)
  <1>1. CASE IsNull(v)
    <2>1. Held(v) = <<>>
      BY <1>1 DEF Held
    <2> QED
      BY <2>1
  <1>2. CASE IsArray(v)
    <2>1. Held(v) = v[2]
      BY <1>2, Kinds DEF Held
    <2> QED
      BY <1>2, <2>1, ShapedHas, SequenceType
  <1> QED
    BY <1>1, <1>2

LEMMA AssignIndexShaped ==
    ASSUME NEW v, Shaped(v), NEW i \in Nat, NEW x
    PROVE  Shaped(AssignIndex(v, i, x).value)
  <1>1. CASE IsNull(v) \/ IsArray(v)
    <2> DEFINE s == Held(v)
               g == Grown(s, i)
               new == [g EXCEPT ![i + 1] = x]
    <2>1. PICK S : s \in Seq(S)
      BY <1>1, HeldIsSequence
    <2>2. PICK T : g \in Seq(T)
      <3> HIDE DEF s
      <3> DEFINE T == S \cup {Null}
                 more == [j \in 1 .. i + 1 - Len(s) |-> Null]
      <3>1. s \in Seq(T)
        BY <2>1
      <3>2. i >= Len(s) => more \in Seq(T)
        BY <2>1
      <3>3. g = s \/ (i >= Len(s) /\ g = s \o more)
        BY <2>1 DEF Grown
      <3> HIDE DEF more, g, T
      <3>4. i >= Len(s) /\ g = s \o more => g \in Seq(T)
        BY <3>1, <3>2, ConcatProperties
      <3>5. g \in Seq(T)
        BY <3>1, <3>3, <3>4
      <3> QED
        BY <3>5
    <2> HIDE DEF g
    <2>3. new \in Seq(T \cup {x})
      <3>1. g \in Seq(T \cup {x}) /\ Len(g) \in Nat
        BY <2>2
      <3>2. CASE i + 1 \in 1 .. Len(g)
        BY <3>1, <3>2, ExceptSeq
      <3>3. CASE i + 1 \notin 1 .. Len(g)
        <4>1. new = g
          BY <3>1, <3>3
        <4> QED
          BY <3>1, <4>1
      <3> QED
        BY <3>2, <3>3
    <2>4. AssignIndex(v, i, x) = Done(Arr(new), 0)
      BY <1>1 DEF AssignIndex, Held, g
    <2> HIDE DEF new
    <2>5. Shaped(Arr(new))
      BY <2>3, SequenceType, ShapedMade
    <2> QED
      BY <2>4, <2>5, Answers
  <1>2. CASE ~(IsNull(v) \/ IsArray(v))
    <2>1. AssignIndex(v, i, x) = Refused(v, 305)
      BY <1>2 DEF AssignIndex
    <2> QED
      BY <2>1, Answers
  <1> QED
    BY <1>1, <1>2

LEMMA AssignKeyShaped ==
    ASSUME NEW v, Shaped(v), NEW k \in Seq(Byte), NEW x
    PROVE  Shaped(AssignKey(v, k, x).value)
  <1>1. CASE IsNull(v) \/ IsObject(v)
    <2>1. AssignKey(v, k, x) = Done(Obj(WithMember(MembersOf(v), k, x)), 0)
      BY <1>1 DEF AssignKey
    <2>2. Shaped(Obj(WithMember(MembersOf(v), k, x)))
      BY <1>1, MembersShaped, WithMemberNames, ShapedMade
    <2> QED
      BY <2>1, <2>2, Answers
  <1>2. CASE ~(IsNull(v) \/ IsObject(v))
    <2>1. AssignKey(v, k, x) = Refused(v, 305)
      BY <1>2 DEF AssignKey
    <2> QED
      BY <2>1, Answers
  <1> QED
    BY <1>1, <1>2

LEMMA PushBackShaped ==
    ASSUME NEW v, Shaped(v), NEW x
    PROVE  /\ Shaped(PushBack(v, x).value)
           /\ Shaped(EmplaceBack(v, x).value)
  <1>1. Shaped(PushBack(v, x).value)
    <2>1. CASE IsNull(v) \/ IsArray(v)
      <3> DEFINE s == Held(v)
                 new == Append(s, x)
      <3>1. PICK S : s \in Seq(S)
        BY <2>1, HeldIsSequence
      <3>2. PushBack(v, x) = Done(Arr(new), 0)
        BY <2>1 DEF PushBack, Held
      <3>3. new \in Seq(S \cup {x})
        <4> HIDE DEF s
        <4>1. s \in Seq(S \cup {x})
          BY <3>1
        <4> QED
          BY <4>1
      <3> HIDE DEF new
      <3>4. Shaped(Arr(new))
        BY <3>3, SequenceType, ShapedMade
      <3> QED
        BY <3>2, <3>4, Answers
    <2>2. CASE ~(IsNull(v) \/ IsArray(v))
      <3>1. PushBack(v, x) = Refused(v, 308)
        BY <2>2 DEF PushBack
      <3> QED
        BY <3>1, Answers
    <2> QED
      BY <2>1, <2>2
  <1>2. EmplaceBack(v, x) = PushBack(v, x) \/ EmplaceBack(v, x) = Refused(v, 311)
    BY DEF EmplaceBack
  <1> QED
    BY <1>1, <1>2, Answers

LEMMA PushBackListShaped ==
    ASSUME NEW v, Shaped(v), NEW list, ListShaped(list)
    PROVE  Shaped(PushBackList(v, list).value)
  <1>1. CASE IsObject(v) /\ Len(list) = 2 /\ IsString(list[1])
    <2>1. PushBackList(v, list) = PushBackMember(v, list[1][2], list[2])
      BY <1>1 DEF PushBackList
    <2>2. Shaped(list[1])
      BY <1>1 DEF ListShaped
    <2>3. list[1][2] \in Seq(Byte)
      BY <1>1, <2>2, ShapedHas
    <2> QED
      BY <2>1, <2>3, PushBackMemberShaped
  <1>2. CASE ~(IsObject(v) /\ Len(list) = 2 /\ IsString(list[1]))
    <2>1. PushBackList(v, list) = PushBack(v, FromList(list))
      BY <1>2 DEF PushBackList
    <2> QED
      BY <2>1, PushBackShaped
  <1> QED
    BY <1>1, <1>2

LEMMA EraseKeyShaped ==
    ASSUME NEW v, Shaped(v), NEW k
    PROVE  Shaped(EraseKey(v, k).value)
  <1>1. CASE IsObject(v)
    <2> DEFINE f == [j \in DOMAIN v[2] \ {k} |-> v[2][j]]
    <2>1. EraseKey(v, k) = Done(Obj(f), Count(v, k))
      BY <1>1 DEF EraseKey
    <2>2. NameSet(DOMAIN f)
      <3>1. NameSet(DOMAIN v[2]) /\ DOMAIN f \in SUBSET DOMAIN v[2]
        BY <1>1, ShapedHas
      <3> HIDE DEF f
      <3> QED
        BY <3>1, FS_Subset DEF NameSet
    <2> HIDE DEF f
    <2> QED
      BY <2>1, <2>2, ShapedMade, Answers
  <1>2. CASE ~IsObject(v)
    <2>1. EraseKey(v, k) = Refused(v, 307)
      BY <1>2 DEF EraseKey
    <2> QED
      BY <2>1, Answers
  <1> QED
    BY <1>1, <1>2

LEMMA EraseIndexShaped ==
    ASSUME NEW v, Shaped(v), NEW i \in Nat
    PROVE  Shaped(EraseIndex(v, i).value)
  <1>1. CASE ~IsArray(v)
    <2>1. EraseIndex(v, i) = Refused(v, 307)
      BY <1>1 DEF EraseIndex
    <2> QED
      BY <2>1, Answers
  <1>2. CASE IsArray(v) /\ i >= Size(v)
    <2>1. EraseIndex(v, i) = Refused(v, 401)
      BY <1>2 DEF EraseIndex
    <2> QED
      BY <2>1, Answers
  <1>3. CASE IsArray(v) /\ ~(i >= Size(v))
    <2>1. EraseIndex(v, i) = Done(Arr(Cut(v[2], i, i + 1)), 0)
      BY <1>3 DEF EraseIndex
    <2>2. i + 1 \in Nat /\ i <= i + 1 /\ i + 1 <= End(v)
      BY <1>3, ArrayForward
    <2>3. Shaped(Arr(Cut(v[2], i, i + 1)))
      BY <1>3, <2>2, ErasedElements
    <2> QED
      BY <2>1, <2>3, Answers
  <1> QED
    BY <1>1, <1>2, <1>3

LEMMA ClearShaped ==
    ASSUME NEW v, Shaped(v)
    PROVE  Shaped(Clear(v))
  <1>1. CASE IsNull(v) \/ v = Discarded
    BY <1>1 DEF Clear
  <1>2. CASE ~(IsNull(v) \/ v = Discarded)
    <2>1. Clear(v) = OfType(v[1])
      BY <1>2 DEF Clear
    <2>2. ASSUME NEW t
          PROVE  Shaped(OfType(t))
      <3>1. CASE t = "object"
        <4>1. OfType(t) = Obj(EmptyFunction)
          BY <3>1 DEF OfType
        <4>2. NameSet(DOMAIN EmptyFunction)
          BY FS_EmptySet DEF NameSet, EmptyFunction
        <4> QED
          BY <4>1, <4>2, ShapedMade
      <3>2. CASE t = "array"
        <4>1. OfType(t) = Arr(<<>>)
          BY <3>2 DEF OfType
        <4>2. <<>> \in Seq({})
          OBVIOUS
        <4> QED
          BY <4>1, <4>2, SequenceType, ShapedMade
      <3>3. CASE t = "string"
        <4>1. OfType(t) = Str(<<>>)
          BY <3>3 DEF OfType
        <4>2. <<>> \in Seq(Byte)
          OBVIOUS
        <4> QED
          BY <4>1, <4>2, ShapedMade
      <3>4. CASE t \notin {"object", "array", "string"}
        <4>1. OfType(t)[1] = t
          BY <3>4 DEF OfType, Bool, Integer, Unsigned, Float
        <4>2. ~IsArray(OfType(t)) /\ ~IsObject(OfType(t)) /\ ~IsString(OfType(t))
          BY <3>4, <4>1 DEF IsArray, IsObject, IsString
        <4> QED
          BY <4>2 DEF Shaped
      <3> QED
        BY <3>1, <3>2, <3>3, <3>4
    <2> QED
      BY <2>1, <2>2
  <1> QED
    BY <1>1, <1>2

\* What a value holds together with its type is all that its shape depends on.
LEMMA SwapWithShaped ==
    ASSUME NEW v, Shaped(v), NEW x, Shaped(x)
    PROVE  Shaped(SwapWith(v, x[1], x[2]).value)
  <1>1. CASE v[1] = x[1]
    <2> DEFINE w == <<x[1], x[2]>>
    <2>1. SwapWith(v, x[1], x[2]) = Done(w, v[2])
      BY <1>1 DEF SwapWith
    <2>2. w[1] = x[1] /\ w[2] = x[2]
      OBVIOUS
    <2> HIDE DEF w
    <2>3. Shaped(w)
      BY <2>2 DEF Shaped, IsArray, IsObject, IsString
    <2> QED
      BY <2>1, <2>3, Answers
  <1>2. CASE v[1] # x[1]
    <2>1. SwapWith(v, x[1], x[2]) = Refused(v, 310)
      BY <1>2 DEF SwapWith
    <2> QED
      BY <2>1, Answers
  <1> QED
    BY <1>1, <1>2

-----------------------------------------------------------------------------
(* The program.                                                            *)

\* The step part of EraseAndInsertTellWhere.
Tells ==
    LET at == outcome'.result
    IN  outcome'.error = 0 =>
          /\ outcome'.op = "erase" =>
               IF IsNull(doc') THEN at = End(doc') ELSE Without(doc, doc', at)
          /\ outcome'.op = "insert" => Without(doc', doc, at)
          /\ outcome'.op = "emplace" =>
               /\ at[1] \in 0 .. End(doc') - 1
               /\ at[2] = (Len(Forward(doc')) > Len(Forward(doc)))

LEMMA ChangeMakes ==
    ASSUME NEW op, NEW r, Change(op, r)
    PROVE  doc' = r.value /\ outcome'.op = op /\ outcome'.error = r.error /\ outcome'.result = r.result
  BY DEF Change, Outcome

LEMMA ChangeTells ==
    ASSUME NEW r, Change("change", r), Shaped(r.value)
    PROVE  Shaped(doc') /\ Tells
  BY ChangeMakes DEF Tells

LEMMA EraseTells ==
    ASSUME NEW r, Change("erase", r), Erases(doc, r)
    PROVE  Shaped(doc') /\ Tells
  BY ChangeMakes DEF Tells, Erases

LEMMA InsertTells ==
    ASSUME NEW r, Change("insert", r), Inserts(doc, r)
    PROVE  Shaped(doc') /\ Tells
  BY ChangeMakes DEF Tells, Inserts

LEMMA EmplaceTells ==
    ASSUME NEW r, Change("emplace", r), Emplaces(doc, r)
    PROVE  Shaped(doc') /\ Tells
  BY ChangeMakes DEF Tells, Emplaces

LEMMA PositionsAreSpots ==
    /\ \A pos \in Positions : Spot(doc, pos)
    /\ Shaped(doc) =>
         \A pos \in IF Primitive(doc) THEN Positions ELSE Elements :
            /\ Spot(doc, pos)
            /\ pos[1] = "doc" /\ IsStructured(doc) => pos[2] < End(doc)
  <1>1. \A pos \in Positions : Spot(doc, pos)
    BY DEF Positions, Here, Elsewhere, Spot
  <1>2. ASSUME Shaped(doc), NEW pos \in Elements
        PROVE  Spot(doc, pos) /\ (pos[1] = "doc" => pos[2] < End(doc))
    <2>1. End(doc) \in Nat
      BY <1>2, EndType
    <2>2. CASE pos = Elsewhere
      BY <2>2 DEF Spot, Elsewhere
    <2>3. CASE \E at \in 0 .. End(doc) - 1 : pos = Here(at)
      <3>1. PICK at \in 0 .. End(doc) - 1 : pos = <<"doc", at>>
        BY <2>3 DEF Here
      <3>2. at \in 0 .. End(doc) /\ at < End(doc)
        BY <2>1
      <3> QED
        BY <3>1, <3>2 DEF Spot
    <2> QED
      BY <1>2, <2>2, <2>3 DEF Elements
  <1>3. Primitive(doc) => ~IsStructured(doc)
    BY DEF Primitive
  <1> QED
    BY <1>1, <1>2, <1>3

LEMMA ItemsShaped == \A x \in Items : ItemShaped(x) /\ Shaped(x)
  BY ItemsAssumption DEF ItemShaped

\* What is put into the variable under a name or behind the others.
LEMMA PutStep ==
    ASSUME Shaped(doc), NEW x \in Items,
           \/ SetTo(x) \/ Push(x) \/ EmplaceLast(x)
           \/ \E i \in 0 .. MaxIndex : SetIndex(i, x)
           \/ \E k \in Names : SetKey(k, x) \/ PushMember(k, x) \/ EmplaceMember(k, x)
    PROVE  Shaped(doc') /\ Tells
  <1>1. CASE SetTo(x)
    BY <1>1, ItemsShaped DEF SetTo, Outcome, Tells
  <1>2. CASE Push(x)
    BY <1>2, PushBackShaped, ChangeTells DEF Push
  <1>3. CASE EmplaceLast(x)
    BY <1>3, PushBackShaped, ChangeTells DEF EmplaceLast
  <1>4. ASSUME NEW i \in 0 .. MaxIndex, SetIndex(i, x)
        PROVE  Shaped(doc') /\ Tells
    <2>1. i \in Nat
      BY MaxIndexAssumption
    <2> QED
      BY <1>4, <2>1, AssignIndexShaped, ChangeTells DEF SetIndex
  <1>5. ASSUME NEW k \in Names, SetKey(k, x) \/ PushMember(k, x) \/ EmplaceMember(k, x)
        PROVE  Shaped(doc') /\ Tells
    <2>1. k \in Seq(Byte)
      BY NamesAssumption
    <2>2. CASE SetKey(k, x)
      BY <2>1, <2>2, AssignKeyShaped, ChangeTells DEF SetKey
    <2>3. CASE PushMember(k, x)
      BY <2>1, <2>3, PushBackMemberShaped, ChangeTells DEF PushMember
    <2>4. CASE EmplaceMember(k, x)
      BY <2>1, <2>4, EmplaceEmplaces, EmplaceTells DEF EmplaceMember
    <2> QED
      BY <1>5, <2>2, <2>3, <2>4
  <1> QED
    BY <1>1, <1>2, <1>3, <1>4, <1>5

LEMMA ListStep ==
    ASSUME Shaped(doc), NEW x \in Items, NEW k \in Names,
           LET pair == <<Str(k), x>>
           IN SetToList(<<Arr(pair)>>) \/ SetToTyped(<<Arr(pair), x>>) \/ PushList(pair)
    PROVE  Shaped(doc') /\ Tells
  <1> DEFINE pair == <<Str(k), x>>
             one == <<Arr(pair)>>
             two == <<Arr(pair), x>>
  <1>1. ListShaped(pair) /\ ListShaped(one) /\ ListShaped(two)
    <2>1. k \in Seq(Byte) /\ ItemShaped(x)
      BY NamesAssumption, ItemsShaped
    <2> QED
      BY <2>1, PairLists
  <1>2. SetToList(one) \/ SetToTyped(two) \/ PushList(pair)
    OBVIOUS
  <1> HIDE DEF pair, one, two
  <1>3. CASE SetToList(one)
    <2>1. Shaped(Done(FromList(one), 0).value)
      BY <1>1, FromListShaped, Answers
    <2> QED
      BY <1>3, <2>1, ChangeTells DEF SetToList
  <1>4. CASE SetToTyped(two)
    <2>1. PICK r \in {AsArray(two), AsObject(two)} :
            Change("change", IF r.error # 0 THEN Refused(doc, r.error) ELSE Done(r.value, 0))
      BY <1>4 DEF SetToTyped
    <2>2. r = Ok(Arr(two)) \/ r = Ok(FromList(two)) \/ r = Throw(301)
      BY <2>1 DEF AsArray, AsObject
    <2>3. Shaped(Arr(two)) /\ Shaped(FromList(two))
      BY <1>1, FromListShaped, ShapedMade DEF ListShaped
    <2>4. r.error = 0 => Shaped(r.value)
      BY <2>2, <2>3, Answers
    <2>5. Shaped((IF r.error # 0 THEN Refused(doc, r.error) ELSE Done(r.value, 0)).value)
      BY <2>4, Answers
    <2> QED
      BY <2>1, <2>5, ChangeTells
  <1>5. CASE PushList(pair)
    BY <1>1, <1>5, PushBackListShaped, ChangeTells DEF PushList
  <1> QED
    BY <1>2, <1>3, <1>4, <1>5

LEMMA InsertStep ==
    ASSUME Shaped(doc), NEW x \in Items, NEW pos \in Positions,
           \/ InsertElement(pos, x) \/ InsertElements(pos, 2, x) \/ InsertAll(pos, <<x, Null>>)
           \/ \E first \in {Here(0), Elsewhere} :
                IsArray(x) /\ InsertFrom(pos, x, first, <<"other", Size(x)>>)
    PROVE  Shaped(doc') /\ Tells
  <1>1. Spot(doc, pos)
    BY PositionsAreSpots
  <1>2. IsSequence(<<x>>) /\ IsSequence([i \in 1 .. 2 |-> x]) /\ IsSequence(<<x, Null>>)
    <2>1. <<x>> \in Seq({x}) /\ [i \in 1 .. 2 |-> x] \in Seq({x}) /\ <<x, Null>> \in Seq({x, Null})
      OBVIOUS
    <2> QED
      BY <2>1, SequenceType
  <1>3. CASE InsertElement(pos, x)
    BY <1>1, <1>2, <1>3, InsertListInserts, InsertTells DEF InsertElement, InsertOne
  <1>4. CASE InsertElements(pos, 2, x)
    BY <1>1, <1>2, <1>4, InsertListInserts, InsertTells DEF InsertElements, InsertCopies
  <1>5. CASE InsertAll(pos, <<x, Null>>)
    BY <1>1, <1>2, <1>5, InsertListInserts, InsertTells DEF InsertAll
  <1>6. ASSUME NEW first \in {Here(0), Elsewhere},
               IsArray(x), InsertFrom(pos, x, first, <<"other", Size(x)>>)
        PROVE  Shaped(doc') /\ Tells
    <2>1. first \in {<<"doc", 0>>, <<"other", 0>>} /\ Shaped(x)
      BY ItemsShaped DEF Here, Elsewhere
    <2>2. Inserts(doc, InsertRange(doc, "doc", pos, x, first, <<"other", Size(x)>>))
      BY <1>1, <1>6, <2>1, InsertRangeInserts
    <2> QED
      BY <1>6, <2>2, InsertTells DEF InsertFrom
  <1> QED
    BY <1>3, <1>4, <1>5, <1>6

LEMMA EraseStep ==
    ASSUME Shaped(doc),
           \/ \E pos \in IF Primitive(doc) THEN Positions ELSE Elements : Erase(pos)
           \/ \E r \in Ranges :
                EraseFromTo(r[1], r[2]) \/ (r[1][1] = "doc" /\ SetToRange(r[1], r[2]))
           \/ \E k \in Names : EraseName(k)
           \/ \E i \in 0 .. MaxIndex : EraseNumber(i)
           \/ ClearAll
    PROVE  Shaped(doc') /\ Tells
  <1>1. ASSUME NEW pos \in IF Primitive(doc) THEN Positions ELSE Elements, Erase(pos)
        PROVE  Shaped(doc') /\ Tells
    BY <1>1, PositionsAreSpots, EraseAtErases, EraseTells DEF Erase
  <1>2. ASSUME NEW r \in Ranges,
               EraseFromTo(r[1], r[2]) \/ (r[1][1] = "doc" /\ SetToRange(r[1], r[2]))
        PROVE  Shaped(doc') /\ Tells
    <2>1. Spot(doc, r[1]) /\ Spot(doc, r[2]) /\ r[1][2] <= r[2][2]
      BY PositionsAreSpots DEF Ranges
    <2>2. CASE EraseFromTo(r[1], r[2])
      BY <2>1, <2>2, EraseRangeErases, EraseTells DEF EraseFromTo
    <2>3. CASE r[1][1] = "doc" /\ SetToRange(r[1], r[2])
      <3> DEFINE s == FromRange(doc, r[1], r[2])
      <3>1. s.error = 0 => Shaped(s.value)
        BY <2>1, <2>3, FromRangeShaped
      <3>2. Change("change", IF s.error # 0 THEN Refused(doc, s.error) ELSE Done(s.value, 0))
        BY <2>3 DEF SetToRange
      <3> HIDE DEF s
      <3>3. Shaped((IF s.error # 0 THEN Refused(doc, s.error) ELSE Done(s.value, 0)).value)
        BY <3>1, Answers
      <3> QED
        BY <3>2, <3>3, ChangeTells
    <2> QED
      BY <1>2, <2>2, <2>3
  <1>3. ASSUME NEW k \in Names, EraseName(k)
        PROVE  Shaped(doc') /\ Tells
    BY <1>3, EraseKeyShaped, ChangeTells DEF EraseName
  <1>4. ASSUME NEW i \in 0 .. MaxIndex, EraseNumber(i)
        PROVE  Shaped(doc') /\ Tells
    <2>1. i \in Nat
      BY MaxIndexAssumption
    <2> QED
      BY <1>4, <2>1, EraseIndexShaped, ChangeTells DEF EraseNumber
  <1>5. CASE ClearAll
    <2>1. Shaped(Done(Clear(doc), 0).value)
      BY ClearShaped, Answers
    <2> QED
      BY <1>5, <2>1, ChangeTells DEF ClearAll
  <1> QED
    BY <1>1, <1>2, <1>3, <1>4, <1>5

LEMMA SwapStep ==
    ASSUME Shaped(doc), NEW x \in Items, SwapHeld(x)
    PROVE  Shaped(doc') /\ Tells
  BY ItemsShaped, SwapWithShaped, ChangeTells DEF SwapHeld

\* Every operation on elements leaves arrays sequences and objects finite.
LEMMA StepTells ==
    ASSUME Shaped(doc), ElementsNext
    PROVE  Shaped(doc') /\ Tells
  <1>1. ASSUME NEW x \in Items,
               \/ SetTo(x) \/ Push(x) \/ EmplaceLast(x)
               \/ \E i \in 0 .. MaxIndex : SetIndex(i, x)
               \/ \E k \in Names : SetKey(k, x) \/ PushMember(k, x) \/ EmplaceMember(k, x)
        PROVE  Shaped(doc') /\ Tells
    BY <1>1, PutStep
  <1>2. ASSUME NEW x \in Items, NEW k \in Names,
               LET pair == <<Str(k), x>>
               IN SetToList(<<Arr(pair)>>) \/ SetToTyped(<<Arr(pair), x>>) \/ PushList(pair)
        PROVE  Shaped(doc') /\ Tells
    BY <1>2, ListStep
  <1>3. ASSUME NEW x \in Items, NEW pos \in Positions,
               \/ InsertElement(pos, x) \/ InsertElements(pos, 2, x) \/ InsertAll(pos, <<x, Null>>)
               \/ \E first \in {Here(0), Elsewhere} :
                    IsArray(x) /\ InsertFrom(pos, x, first, <<"other", Size(x)>>)
        PROVE  Shaped(doc') /\ Tells
    BY <1>3, InsertStep
  <1>4. ASSUME NEW x \in Items, SwapHeld(x)
        PROVE  Shaped(doc') /\ Tells
    BY <1>4, SwapStep
  <1>5. CASE \/ \E pos \in IF Primitive(doc) THEN Positions ELSE Elements : Erase(pos)
             \/ \E r \in Ranges :
                  EraseFromTo(r[1], r[2]) \/ (r[1][1] = "doc" /\ SetToRange(r[1], r[2]))
             \/ \E k \in Names : EraseName(k)
             \/ \E i \in 0 .. MaxIndex : EraseNumber(i)
             \/ ClearAll
    BY <1>5, EraseStep
  <1> QED
    BY <1>1, <1>2, <1>3, <1>4, <1>5 DEF ElementsNext

LEMMA StepKeepsShape == Shaped(doc) /\ [ElementsNext]_docVars => Shaped(doc)'
  <1>1. ASSUME Shaped(doc), ElementsNext
        PROVE  Shaped(doc')
    BY <1>1, StepTells
  <1>2. ASSUME Shaped(doc), UNCHANGED docVars
        PROVE  Shaped(doc')
    BY <1>2 DEF docVars
  <1> QED
    BY <1>1, <1>2

\* Whatever is done to the elements, an erased or inserted part is all that an
\* array or object loses or gains, the others stay in their order, and the iterator
\* given back stands where the caller goes on: json.hpp's erase, insert, emplace.
THEOREM ErasingAndInsertingTell == ElementsSpec => EraseAndInsertTellWhere
  <1>1. DocInit => Shaped(doc)
    BY ItemsAssumption DEF DocInit
  <1>2. Shaped(doc) /\ [ElementsNext]_docVars => Shaped(doc)'
    BY StepKeepsShape
  <1>3. Shaped(doc) /\ [ElementsNext]_docVars => [Tells]_docVars
    BY StepTells
  <1> QED
    BY <1>1, <1>2, <1>3, PTL DEF ElementsSpec, EraseAndInsertTellWhere, Tells

-----------------------------------------------------------------------------
(* The ways to an element.                                                 *)

LEMMA LengthOfList ==
    ASSUME NEW n \in Nat, NEW S, NEW s \in [1 .. n -> S]
    PROVE  s \in Seq(S) /\ Len(s) = n
  OBVIOUS

\* The elements from the last to the first, the first and the last of them.
LEMMA EndsAgree ==
    ASSUME NEW v, Shaped(v)
    PROVE  /\ Len(Forward(v)) = Size(v) /\ Backward(v) = Reverse(Forward(v))
           /\ ~Empty(v) => FrontOf(v) = Ok(Head(Forward(v))) /\ BackOf(v) = Ok(Last(Forward(v)))
  <1> DEFINE n == End(v) - Begin(v)
             e(i) == Deref(v, i).value
  <1>1. CASE IsNull(v)
    <2>1. Begin(v) = 1 /\ End(v) = 1 /\ Size(v) = 0 /\ Empty(v)
      BY <1>1, Kinds DEF Begin, End, Size, Empty
    <2>2. /\ Forward(v) = [i \in 1 .. 0 |-> Deref(v, 1 + i - 1).value]
          /\ Backward(v) = [i \in 1 .. 0 |-> Deref(v, 1 - i).value]
      <3>1. 1 .. 1 - 1 = 1 .. 0
        OBVIOUS
      <3> QED
        BY <2>1, <3>1 DEF Forward, Backward
    <2>3. Forward(v) = <<>> /\ Backward(v) = <<>>
      BY <2>2
    <2>4. Reverse(<<>>) = <<>>
      BY DEF Reverse
    <2> QED
      BY <2>1, <2>3, <2>4
  <1>2. CASE ~IsNull(v)
    <2>1. Begin(v) = 0 /\ End(v) = Size(v) /\ Size(v) \in Nat
      <3>1. End(v) = Size(v)
        BY <1>2, Kinds DEF End, Size
      <3> QED
        BY <1>2, <3>1, EndType DEF Begin
    <2> DEFINE m == Size(v)
    <2> HIDE DEF m
    <2>2. Forward(v) = [i \in 1 .. m |-> Deref(v, i - 1).value]
      <3>1. Forward(v) = [i \in 1 .. m - 0 |-> Deref(v, 0 + i - 1).value]
        BY <2>1 DEF Forward, m
      <3>2. m - 0 = m /\ \A i \in 1 .. m : 0 + i - 1 = i - 1
        BY <2>1 DEF m
      <3> QED
        BY <3>1, <3>2
    <2>3. Backward(v) = [i \in 1 .. m |-> Deref(v, m - i).value]
      <3>1. Backward(v) = [i \in 1 .. m - 0 |-> Deref(v, m - i).value]
        BY <2>1 DEF Backward, m
      <3>2. m - 0 = m
        BY <2>1 DEF m
      <3> QED
        BY <3>1, <3>2
    <2>4. Len(Forward(v)) = m /\ \A i \in 1 .. m : Forward(v)[i] = Deref(v, i - 1).value
      <3> DEFINE s == [i \in 1 .. m |-> Deref(v, i - 1).value]
      <3>1. s \in [1 .. m -> {s[i] : i \in 1 .. m}]
        OBVIOUS
      <3>2. Len(s) = m
        <4> HIDE DEF s
        <4> QED
          BY <2>1, <3>1, LengthOfList DEF m
      <3>3. \A i \in 1 .. m : s[i] = Deref(v, i - 1).value
        OBVIOUS
      <3> QED
        BY <2>2, <3>2, <3>3
    <2>5. Backward(v) = Reverse(Forward(v))
      <3>1. Reverse(Forward(v)) = [i \in 1 .. m |-> Forward(v)[(m - i) + 1]]
        BY <2>4 DEF Reverse
      <3>2. \A i \in 1 .. m : Forward(v)[(m - i) + 1] = Deref(v, m - i).value
        <4> TAKE i \in 1 .. m
        <4>1. (m - i) + 1 \in 1 .. m /\ ((m - i) + 1) - 1 = m - i
          BY <2>1 DEF m
        <4> QED
          BY <2>4, <4>1
      <3> QED
        BY <2>3, <3>1, <3>2
    <2>6. ASSUME ~Empty(v)
          PROVE  FrontOf(v) = Ok(Head(Forward(v))) /\ BackOf(v) = Ok(Last(Forward(v)))
      <3>1. m \in Nat /\ m # 0 /\ 1 \in 1 .. m /\ m \in 1 .. m
        BY <2>1, <2>6 DEF Empty, m
      <3>2. Head(Forward(v)) = Deref(v, 0).value /\ Last(Forward(v)) = Deref(v, m - 1).value
        <4>1. Head(Forward(v)) = Forward(v)[1] /\ Last(Forward(v)) = Forward(v)[m]
          BY <2>4 DEF Last
        <4> QED
          BY <2>4, <3>1, <4>1
      <3>3. ASSUME NEW at \in 0 .. m - 1
            PROVE  Deref(v, at) = Ok(Deref(v, at).value)
        <4>1. IsStructured(v) \/ at = 0
          BY <2>1, <3>3 DEF End, m
        <4>2. Deref(v, at) = Ok(v[2][at + 1]) \/ Deref(v, at) = Ok(v[2][KeyAt(v, at)]) \/ Deref(v, at) = Ok(v)
          <5>1. CASE IsArray(v)
            <6>1. IsArray(v) /\ ~IsObject(v) /\ IsStructured(v)
              BY <5>1, Kinds
            <6> QED
              BY <6>1 DEF Deref
          <5>2. CASE IsObject(v)
            <6>1. ~IsArray(v) /\ IsObject(v) /\ IsStructured(v)
              BY <5>2, Kinds
            <6> QED
              BY <6>1 DEF Deref
          <5>3. CASE ~IsArray(v) /\ ~IsObject(v)
            <6>1. ~IsStructured(v)
              BY <5>3, Kinds
            <6> QED
              BY <1>2, <4>1, <5>3, <6>1 DEF Deref
          <5> QED
            BY <5>1, <5>2, <5>3
        <4> QED
          BY <4>2 DEF Ok
      <3>4. FrontOf(v) = Deref(v, 0) /\ BackOf(v) = Deref(v, m - 1)
        BY <2>1 DEF FrontOf, BackOf, m
      <3>5. 0 \in 0 .. m - 1 /\ m - 1 \in 0 .. m - 1
        BY <3>1
      <3> QED
        BY <3>2, <3>3, <3>4, <3>5
    <2> QED
      BY <2>4, <2>5, <2>6 DEF m
  <1> QED
    BY <1>1, <1>2

LEMMA IndicesAgree ==
    ASSUME NEW v, Shaped(v), IsArray(v), NEW i \in 1 .. Size(v)
    PROVE  /\ At(v, i - 1) = Ok(Forward(v)[i])
           /\ DerefOffset(v, 0, i - 1) = At(v, Distance(v, 0, i - 1).value)
  <1>1. Len(v[2]) \in Nat /\ Size(v) = Len(v[2]) /\ Forward(v)[i] = v[2][i]
    BY ArrayForward
  <1>2. IsArray(v) /\ ~IsObject(v)
    BY Kinds
  <1>3. i \in 1 .. Len(v[2]) /\ ~(i - 1 >= Len(v[2])) /\ (i - 1) + 1 = i /\ 0 + (i - 1) = i - 1
    BY <1>1
  <1>4. At(v, i - 1) = Ok(v[2][i])
    BY <1>2, <1>3 DEF At
  <1>5. DerefOffset(v, 0, i - 1) = Ok(v[2][i])
    <2>1. DerefOffset(v, 0, i - 1) = Deref(v, 0 + (i - 1))
      BY <1>2, Kinds DEF DerefOffset
    <2>2. Deref(v, i - 1) = Ok(v[2][i])
      BY <1>2, <1>3, Kinds DEF Deref
    <2> QED
      BY <1>3, <2>1, <2>2
  <1>6. Distance(v, 0, i - 1).value = i - 1
    <2>1. Distance(v, 0, i - 1) = Ok((i - 1) - 0)
      BY <1>2 DEF Distance
    <2> QED
      BY <1>3, <2>1, Answers
  <1> QED
    BY <1>1, <1>4, <1>5, <1>6

\* The name at a place is found at this place and nowhere else.
LEMMA NamesAgree ==
    ASSUME NEW v, Shaped(v), IsObject(v), NEW i \in 1 .. Size(v)
    PROVE  LET k == IteratorKey(v, i - 1).value
           IN  /\ AtKey(v, k) = Ok(Forward(v)[i]) /\ Find(v, k) = i - 1
               /\ ValueOr(v, k, Discarded) = AtKey(v, k)
  <1> DEFINE f == v[2]
             k == Keys(f)[i]
  <1>1. NameSet(DOMAIN f) /\ ~IsArray(v) /\ IsStructured(v)
    BY ShapedHas, Kinds
  <1>2. /\ Size(v) = Cardinality(DOMAIN f) /\ End(v) = Size(v) /\ Size(v) \in Nat
        /\ Forward(v)[i] = f[k]
    BY <1>1, ObjectForward
  <1>3. IteratorKey(v, i - 1).value = k
    <2>1. IteratorKey(v, i - 1) = Ok(KeyAt(v, i - 1)) /\ (i - 1) + 1 = i
      BY <1>2 DEF IteratorKey
    <2> QED
      BY <2>1, Answers DEF KeyAt
  <1>4. k \in DOMAIN f /\ Place(DOMAIN f, k) = i - 1
    BY <1>1, <1>2, KeysListNames
  <1>5. AtKey(v, k) = Ok(f[k])
    BY <1>4 DEF AtKey
  <1>6. Find(v, k) = i - 1
    <2>1. Find(v, k) = CHOOSE j \in 0 .. Size(v) - 1 : KeyAt(v, j) = k
      BY <1>4 DEF Find
    <2>2. i - 1 \in 0 .. Size(v) - 1 /\ KeyAt(v, i - 1) = k
      BY <1>2 DEF KeyAt
    <2>3. ASSUME NEW j \in 0 .. Size(v) - 1, KeyAt(v, j) = k
          PROVE  j = i - 1
      <3>1. j + 1 \in 1 .. Cardinality(DOMAIN f) /\ j \in Int
        BY <1>2
      <3>2. Place(DOMAIN f, Keys(f)[j + 1]) = (j + 1) - 1
        BY <1>1, <3>1, KeysListNames
      <3> QED
        BY <1>4, <2>3, <3>1, <3>2 DEF KeyAt
    <2> QED
      BY <2>1, <2>2, <2>3
  <1>7. ValueOr(v, k, Discarded) = Ok(f[k])
    <2>1. Find(v, k) # End(v)
      BY <1>2, <1>6
    <2>2. ValueOr(v, k, Discarded) = Deref(v, i - 1)
      BY <1>6, <2>1 DEF ValueOr
    <2>3. Deref(v, i - 1) = Ok(f[KeyAt(v, i - 1)])
      BY <1>1 DEF Deref
    <2>4. KeyAt(v, i - 1) = k
      BY <1>2 DEF KeyAt
    <2> QED
      BY <2>2, <2>3, <2>4
  <1> QED
    BY <1>2, <1>3, <1>5, <1>6, <1>7

LEMMA FindAgrees ==
    ASSUME NEW v, Shaped(v), NEW k
    PROVE  (Find(v, k) = End(v)) = (Count(v, k) = 0)
  <1>1. CASE IsObject(v) /\ k \in DOMAIN v[2]
    <2>2. Size(v) = Cardinality(DOMAIN v[2]) /\ End(v) = Size(v) /\ Size(v) \in Nat
      BY <1>1, ShapedHas, ObjectForward
    <2>3. \E j \in 0 .. Size(v) - 1 : KeyAt(v, j) = k
      <3>1. /\ Place(DOMAIN v[2], k) \in Nat
            /\ Place(DOMAIN v[2], k) + 1 \in 1 .. Cardinality(DOMAIN v[2])
            /\ Keys(v[2])[Place(DOMAIN v[2], k) + 1] = k
        BY <1>1, ShapedHas, KeysListNames, PlaceType
      <3>2. Place(DOMAIN v[2], k) \in 0 .. Size(v) - 1
        BY <2>2, <3>1
      <3> QED
        BY <3>1, <3>2 DEF KeyAt
    <2>4. Find(v, k) = CHOOSE j \in 0 .. Size(v) - 1 : KeyAt(v, j) = k
      BY <1>1 DEF Find
    <2>5. Find(v, k) \in 0 .. Size(v) - 1
      BY <2>3, <2>4
    <2>6. Find(v, k) # End(v) /\ Count(v, k) = 1
      BY <1>1, <2>2, <2>5 DEF Count
    <2> QED
      BY <2>6
  <1>2. CASE ~(IsObject(v) /\ k \in DOMAIN v[2])
    <2>1. Find(v, k) = End(v) /\ Count(v, k) = 0
      BY <1>2 DEF Find, Count
    <2> QED
      BY <2>1
  <1> QED
    BY <1>1, <1>2

LEMMA ShapedAgree == Shaped(doc) => ElementsAgree
  BY EndsAgree, IndicesAgree, NamesAgree, FindAgrees DEF ElementsAgree

\* json.hpp's at, operator[], find, value, front, back and its iterators in both
\* directions lead to the same elements, in arrays and objects of any size, whatever
\* was done to them: the order of the names is total and every name has one place.
THEOREM WaysToElementsAgree == ElementsSpec => []ElementsAgree
  <1>1. DocInit => Shaped(doc)
    BY ItemsAssumption DEF DocInit
  <1>2. Shaped(doc) /\ [ElementsNext]_docVars => Shaped(doc)'
    BY StepKeepsShape
  <1> QED
    BY <1>1, <1>2, ShapedAgree, PTL DEF ElementsSpec

-----------------------------------------------------------------------------
(* Failures.                                                               *)

\* What is refused is left as it was.
Spares(v, r) == r.error # 0 => r.value = v

LEMMA AnswersSpare ==
    ASSUME NEW v, NEW r,
           (\E id : r = Refused(v, id)) \/ (\E w, x : r = Done(w, x))
    PROVE  Spares(v, r)
  BY Answers DEF Spares

LEMMA OperationsSpare ==
    ASSUME NEW v
    PROVE  /\ \A i, x : Spares(v, AssignIndex(v, i, x))
           /\ \A k, x : Spares(v, AssignKey(v, k, x))
           /\ \A x : Spares(v, PushBack(v, x)) /\ Spares(v, EmplaceBack(v, x))
           /\ \A k, x : Spares(v, PushBackMember(v, k, x)) /\ Spares(v, Emplace(v, k, x))
           /\ \A list : Spares(v, PushBackList(v, list))
           /\ \A pos : Spares(v, EraseAt(v, "doc", pos))
           /\ \A first, last : Spares(v, EraseRange(v, "doc", first, last))
           /\ \A k : Spares(v, EraseKey(v, k))
           /\ \A i : Spares(v, EraseIndex(v, i))
           /\ \A pos, list : Spares(v, InsertList(v, "doc", pos, list))
           /\ \A pos, x, first, last : Spares(v, InsertRange(v, "doc", pos, x, first, last))
           /\ \A t, held : Spares(v, SwapWith(v, t, held))
  <1>1. \A i, x : Spares(v, AssignIndex(v, i, x))
    BY AnswersSpare DEF AssignIndex
  <1>2. \A k, x : Spares(v, AssignKey(v, k, x))
    BY AnswersSpare DEF AssignKey
  <1>3. \A x : Spares(v, PushBack(v, x)) /\ Spares(v, EmplaceBack(v, x))
    <2>1. \A x : Spares(v, PushBack(v, x))
      BY AnswersSpare DEF PushBack
    <2> QED
      BY <2>1, AnswersSpare DEF EmplaceBack
  <1>4. \A k, x : Spares(v, PushBackMember(v, k, x)) /\ Spares(v, Emplace(v, k, x))
    <2>1. \A k, x : Spares(v, PushBackMember(v, k, x))
      BY AnswersSpare DEF PushBackMember
    <2> QED
      BY <2>1, AnswersSpare DEF Emplace
  <1>5. \A list : Spares(v, PushBackList(v, list))
    BY <1>3, <1>4 DEF PushBackList
  <1>6. \A pos : Spares(v, EraseAt(v, "doc", pos))
    BY AnswersSpare DEF EraseAt
  <1>7. \A first, last : Spares(v, EraseRange(v, "doc", first, last))
    BY AnswersSpare DEF EraseRange
  <1>8. \A k : Spares(v, EraseKey(v, k))
    BY AnswersSpare DEF EraseKey
  <1>9. \A i : Spares(v, EraseIndex(v, i))
    BY AnswersSpare DEF EraseIndex
  <1>10. \A pos, list : Spares(v, InsertList(v, "doc", pos, list))
    BY AnswersSpare DEF InsertList
  <1>11. \A pos, x, first, last : Spares(v, InsertRange(v, "doc", pos, x, first, last))
    BY AnswersSpare DEF InsertRange
  <1>12. \A t, held : Spares(v, SwapWith(v, t, held))
    BY AnswersSpare DEF SwapWith
  <1> QED
    BY <1>1, <1>2, <1>3, <1>4, <1>5, <1>6, <1>7, <1>8, <1>9, <1>10, <1>11, <1>12

\* What a change leaves and reports is what its operation does.
LEMMA ChangeSpares ==
    ASSUME NEW op, NEW r, Change(op, r), Spares(doc, r)
    PROVE  outcome'.error # 0 => doc' = doc
  BY ChangeMakes DEF Spares

\* A list for an object or array of its own is refused with the value unchanged.
LEMMA TypedSpares ==
    ASSUME NEW r
    PROVE  Spares(doc, IF r.error # 0 THEN Refused(doc, r.error) ELSE Done(r.value, 0))
  <1>1. CASE r.error # 0
    BY <1>1, AnswersSpare
  <1>2. CASE ~(r.error # 0)
    BY <1>2, AnswersSpare
  <1> QED
    BY <1>1, <1>2

LEMMA PutSpares ==
    ASSUME NEW x,
           \/ SetTo(x) \/ Push(x) \/ EmplaceLast(x)
           \/ \E i \in 0 .. MaxIndex : SetIndex(i, x)
           \/ \E k \in Names : SetKey(k, x) \/ PushMember(k, x) \/ EmplaceMember(k, x)
    PROVE  outcome'.error # 0 => doc' = doc
  <1>1. CASE SetTo(x)
    BY <1>1 DEF SetTo, Outcome
  <1>2. CASE Push(x) \/ EmplaceLast(x)
    BY <1>2, OperationsSpare, ChangeSpares DEF Push, EmplaceLast
  <1>3. CASE \E i \in 0 .. MaxIndex : SetIndex(i, x)
    BY <1>3, OperationsSpare, ChangeSpares DEF SetIndex
  <1>4. CASE \E k \in Names : SetKey(k, x) \/ PushMember(k, x) \/ EmplaceMember(k, x)
    BY <1>4, OperationsSpare, ChangeSpares DEF SetKey, PushMember, EmplaceMember
  <1> QED
    BY <1>1, <1>2, <1>3, <1>4

LEMMA ListSpares ==
    ASSUME NEW list,
           \/ SetToList(list) \/ SetToTyped(list) \/ PushList(list)
    PROVE  outcome'.error # 0 => doc' = doc
  <1>1. CASE SetToList(list)
    <2>1. Spares(doc, Done(FromList(list), 0))
      BY AnswersSpare
    <2> QED
      BY <1>1, <2>1, ChangeSpares DEF SetToList
  <1>2. CASE SetToTyped(list)
    BY <1>2, TypedSpares, ChangeSpares DEF SetToTyped
  <1>3. CASE PushList(list)
    BY <1>3, OperationsSpare, ChangeSpares DEF PushList
  <1> QED
    BY <1>1, <1>2, <1>3

LEMMA InsertSpares ==
    ASSUME NEW x, NEW pos,
           \/ InsertElement(pos, x) \/ InsertElements(pos, 2, x) \/ InsertAll(pos, <<x, Null>>)
           \/ \E first, last : InsertFrom(pos, x, first, last)
    PROVE  outcome'.error # 0 => doc' = doc
  <1>1. CASE InsertElement(pos, x)
    BY <1>1, OperationsSpare, ChangeSpares DEF InsertElement, InsertOne
  <1>2. CASE InsertElements(pos, 2, x)
    BY <1>2, OperationsSpare, ChangeSpares DEF InsertElements, InsertCopies
  <1>3. CASE InsertAll(pos, <<x, Null>>)
    BY <1>3, OperationsSpare, ChangeSpares DEF InsertAll
  <1>4. CASE \E first, last : InsertFrom(pos, x, first, last)
    BY <1>4, OperationsSpare, ChangeSpares DEF InsertFrom
  <1> QED
    BY <1>1, <1>2, <1>3, <1>4

LEMMA EraseSpares ==
    ASSUME \/ \E pos : Erase(pos)
           \/ \E first, last : EraseFromTo(first, last) \/ SetToRange(first, last)
           \/ \E k \in Names : EraseName(k)
           \/ \E i \in 0 .. MaxIndex : EraseNumber(i)
           \/ ClearAll
    PROVE  outcome'.error # 0 => doc' = doc
  <1>1. CASE \E pos : Erase(pos)
    BY <1>1, OperationsSpare, ChangeSpares DEF Erase
  <1>2. CASE \E first, last : EraseFromTo(first, last)
    BY <1>2, OperationsSpare, ChangeSpares DEF EraseFromTo
  <1>3. CASE \E first, last : SetToRange(first, last)
    BY <1>3, TypedSpares, ChangeSpares DEF SetToRange
  <1>4. CASE \E k \in Names : EraseName(k)
    BY <1>4, OperationsSpare, ChangeSpares DEF EraseName
  <1>5. CASE \E i \in 0 .. MaxIndex : EraseNumber(i)
    BY <1>5, OperationsSpare, ChangeSpares DEF EraseNumber
  <1>6. CASE ClearAll
    <2>1. Spares(doc, Done(Clear(doc), 0))
      BY AnswersSpare
    <2> QED
      BY <1>6, <2>1, ChangeSpares DEF ClearAll
  <1> QED
    BY <1>1, <1>2, <1>3, <1>4, <1>5, <1>6

LEMMA StepSpares ==
    ASSUME ElementsNext
    PROVE  outcome'.error # 0 => doc' = doc
  <1>1. ASSUME NEW x \in Items,
               \/ SetTo(x) \/ Push(x) \/ EmplaceLast(x)
               \/ \E i \in 0 .. MaxIndex : SetIndex(i, x)
               \/ \E k \in Names : SetKey(k, x) \/ PushMember(k, x) \/ EmplaceMember(k, x)
        PROVE  outcome'.error # 0 => doc' = doc
    BY <1>1, PutSpares
  <1>2. ASSUME NEW x \in Items, NEW k \in Names,
               LET pair == <<Str(k), x>>
               IN SetToList(<<Arr(pair)>>) \/ SetToTyped(<<Arr(pair), x>>) \/ PushList(pair)
        PROVE  outcome'.error # 0 => doc' = doc
    BY <1>2, ListSpares
  <1>3. ASSUME NEW x \in Items, NEW pos \in Positions,
               \/ InsertElement(pos, x) \/ InsertElements(pos, 2, x) \/ InsertAll(pos, <<x, Null>>)
               \/ \E first \in {Here(0), Elsewhere} :
                    IsArray(x) /\ InsertFrom(pos, x, first, <<"other", Size(x)>>)
        PROVE  outcome'.error # 0 => doc' = doc
    BY <1>3, InsertSpares
  <1>4. ASSUME NEW x \in Items, SwapHeld(x)
        PROVE  outcome'.error # 0 => doc' = doc
    BY <1>4, OperationsSpare, ChangeSpares DEF SwapHeld
  <1>5. CASE \/ \E pos \in IF Primitive(doc) THEN Positions ELSE Elements : Erase(pos)
             \/ \E r \in Ranges :
                  EraseFromTo(r[1], r[2]) \/ (r[1][1] = "doc" /\ SetToRange(r[1], r[2]))
             \/ \E k \in Names : EraseName(k)
             \/ \E i \in 0 .. MaxIndex : EraseNumber(i)
             \/ ClearAll
    BY <1>5, EraseSpares
  <1> QED
    BY <1>1, <1>2, <1>3, <1>4, <1>5 DEF ElementsNext

\* An operation on elements that throws leaves the value as it was: json.hpp's
\* assignment, push_back, emplace, insert, erase and swap check before they change.
THEOREM RefusalsChangeNothing == ElementsSpec => FailureChangesNothing
  <1>1. ElementsNext => [outcome'.error # 0 => doc' = doc]_docVars
    BY StepSpares
  <1> QED
    BY <1>1, PTL DEF ElementsSpec, FailureChangesNothing

-----------------------------------------------------------------------------
(* The order of values without elements.                                   *)

Words   == {w \in Seq(Byte) : Len(w) = 8}
Doubles == {x \in [kind : {"finite", "infinity"}, neg : BOOLEAN, digits : Seq(0 .. 9), point : Int] :
              x.digits = <<>> => x.point = 0}

\* The values of each kind, with integers for the numbers, or doubles.  An unsigned
\* number of 2^63 or more is less than itself as a signed one, so there are none.
Booleans   == {Bool(b) : b \in BOOLEAN}
Strings    == {Str(s) : s \in Seq(Byte)}
Integers64 == {Integer(w) : w \in Words} \cup {Unsigned(w) : w \in {w \in Words : ~IsNegative(w)}}
Floats     == {Float(x) : x \in Doubles}
ScalarsWith(numbers) == (({Null} \cup Booleans) \cup numbers) \cup Strings

\* One of three holds, what is less than a lesser one is less, and so is what equals one.
OrderedBy(V, Lesser(_, _), Same(_, _)) ==
    /\ \A a \in V : Same(a, a) /\ ~Lesser(a, a)
    /\ \A a \in V, b \in V :
         /\ Lesser(a, b) \/ Same(a, b) \/ Lesser(b, a)
         /\ Same(a, b) => Same(b, a) /\ ~Lesser(a, b)
    /\ \A a \in V, b \in V, c \in V :
         /\ Lesser(a, b) /\ Lesser(b, c) => Lesser(a, c)
         /\ Same(a, b) /\ Lesser(b, c) => Lesser(a, c)
         /\ Lesser(a, b) /\ Same(b, c) => Lesser(a, c)

Identical(a, b) == a = b

\* The order of bytes makes one of words, the negative ones before the others.
LEMMA BytesOrdered == OrderedBy(Seq(Byte), BytesLess, Identical)
  BY LessIrreflexive, LessTransitive, LessTotal DEF OrderedBy, Identical

LEMMA WordsOrdered == OrderedBy(Words, SignedLess, Identical)
  <1>1. Words \subseteq Seq(Byte) /\ \A w \in Words : IsNegative(w) \in BOOLEAN
    BY DEF Words, IsNegative
  <1>2. \A a \in Words : ~SignedLess(a, a)
    BY <1>1, LessIrreflexive DEF SignedLess
  <1>3. \A a \in Words, b \in Words : SignedLess(a, b) \/ a = b \/ SignedLess(b, a)
    BY <1>1, LessTotal DEF SignedLess
  <1>4. \A a \in Words, b \in Words, c \in Words :
           SignedLess(a, b) /\ SignedLess(b, c) => SignedLess(a, c)
    BY <1>1, LessTransitive DEF SignedLess
  <1> QED
    BY <1>2, <1>3, <1>4 DEF OrderedBy, Identical

\* Digits are bytes.
LEMMA DigitsOrdered ==
    /\ \A s \in Seq(0 .. 9) : ~BytesLess(s, s)
    /\ \A s \in Seq(0 .. 9), t \in Seq(0 .. 9) : BytesLess(s, t) \/ s = t \/ BytesLess(t, s)
    /\ \A s \in Seq(0 .. 9), t \in Seq(0 .. 9), u \in Seq(0 .. 9) :
          BytesLess(s, t) /\ BytesLess(t, u) => BytesLess(s, u)
  <1>1. Seq(0 .. 9) \subseteq Seq(Byte)
    BY DEF Byte
  <1> QED
    BY <1>1, LessIrreflexive, LessTransitive, LessTotal

\* Of two doubles with different digits or exponents one has the smaller magnitude.
LEMMA MagnitudesOrdered ==
    /\ \A x \in Doubles : ~SmallerMagnitude(x, x)
    /\ \A x \in Doubles, y \in Doubles :
         \/ SmallerMagnitude(x, y) \/ SmallerMagnitude(y, x)
         \/ x.digits = y.digits /\ x.point = y.point
    /\ \A x \in Doubles, y \in Doubles, z \in Doubles :
         SmallerMagnitude(x, y) /\ SmallerMagnitude(y, z) => SmallerMagnitude(x, z)
    /\ \A x \in Doubles, y \in Doubles : SmallerMagnitude(x, y) => y.digits # <<>>
  <1>1. \A x \in Doubles : x.digits \in Seq(0 .. 9) /\ x.point \in Int /\ (x.digits = <<>> => x.point = 0)
    BY DEF Doubles
  <1>2. \A x \in Doubles : ~SmallerMagnitude(x, x)
    BY <1>1, DigitsOrdered DEF SmallerMagnitude
  <1>3. \A x \in Doubles, y \in Doubles :
           \/ SmallerMagnitude(x, y) \/ SmallerMagnitude(y, x)
           \/ x.digits = y.digits /\ x.point = y.point
    BY <1>1, DigitsOrdered DEF SmallerMagnitude
  <1>4. \A s \in Seq(0 .. 9) : ~BytesLess(s, <<>>)
    BY DEF BytesLess
  <1>5. \A x \in Doubles, y \in Doubles : SmallerMagnitude(x, y) => y.digits # <<>>
    BY <1>1, <1>4 DEF SmallerMagnitude
  <1>6. \A x \in Doubles, y \in Doubles, z \in Doubles :
           SmallerMagnitude(x, y) /\ SmallerMagnitude(y, z) => SmallerMagnitude(x, z)
    BY <1>1, <1>5, DigitsOrdered DEF SmallerMagnitude
  <1> QED
    BY <1>2, <1>3, <1>5, <1>6

\* The two zeros are equal, and less than what is positive.
LEMMA DoublesOrdered == OrderedBy(Doubles, FloatLess, FloatEq)
  <1>1. \A x \in Doubles : x.kind # "nan" /\ x.neg \in BOOLEAN
    BY DEF Doubles
  <1>2. \A x \in Doubles : FloatEq(x, x) /\ ~FloatLess(x, x)
    BY <1>1 DEF FloatEq, FloatLess
  <1>3. \A x \in Doubles, y \in Doubles :
           /\ FloatLess(x, y) \/ FloatEq(x, y) \/ FloatLess(y, x)
           /\ FloatEq(x, y) => FloatEq(y, x) /\ ~FloatLess(x, y)
    BY <1>1, MagnitudesOrdered DEF FloatEq, FloatLess
  <1>4. \A x \in Doubles, y \in Doubles :
           FloatEq(x, y) => \A z \in Doubles : SmallerMagnitude(x, z) = SmallerMagnitude(y, z)
                                             /\ SmallerMagnitude(z, x) = SmallerMagnitude(z, y)
    BY DEF FloatEq, SmallerMagnitude
  <1>5. ASSUME NEW x \in Doubles, NEW y \in Doubles, NEW z \in Doubles,
               FloatLess(x, y), FloatLess(y, z)
        PROVE  FloatLess(x, z)
    <2>1. CASE x.neg /\ ~z.neg
      <3>1. SmallerMagnitude(y, x) \/ SmallerMagnitude(y, z)
        BY <1>1, <1>5, <2>1 DEF FloatLess
      <3>2. x.digits # <<>> \/ z.digits # <<>>
        BY <3>1, MagnitudesOrdered
      <3> QED
        BY <1>1, <2>1, <3>2 DEF FloatLess, FloatEq
    <2>2. CASE ~(x.neg /\ ~z.neg)
      <3>1. \/ ~x.neg /\ ~z.neg /\ SmallerMagnitude(x, y) /\ SmallerMagnitude(y, z)
            \/ x.neg /\ z.neg /\ SmallerMagnitude(z, y) /\ SmallerMagnitude(y, x)
        BY <1>1, <1>5, <2>2 DEF FloatLess
      <3>2. \/ ~x.neg /\ ~z.neg /\ SmallerMagnitude(x, z)
            \/ x.neg /\ z.neg /\ SmallerMagnitude(z, x)
        BY <3>1, MagnitudesOrdered
      <3>3. ~FloatEq(x, z)
        BY <1>4, <3>2, MagnitudesOrdered
      <3> QED
        BY <1>1, <3>2, <3>3 DEF FloatLess
    <2> QED
      BY <2>1, <2>2
  <1>6. \A x \in Doubles, y \in Doubles, z \in Doubles :
           /\ FloatEq(x, y) /\ FloatLess(y, z) => FloatLess(x, z)
           /\ FloatLess(x, y) /\ FloatEq(y, z) => FloatLess(x, z)
    BY <1>1, <1>4, MagnitudesOrdered DEF FloatEq, FloatLess
  <1> QED
    BY <1>2, <1>3, <1>5, <1>6 DEF OrderedBy

ScalarsOrdered(V) == OrderedBy(V, ScalarLess, ScalarEq)

\* Values whose types differ in rank are in the order of the ranks.
LEMMA RanksApart ==
    ASSUME NEW a, NEW b, a[1] \in DOMAIN Rank, b[1] \in DOMAIN Rank, Rank[a[1]] < Rank[b[1]]
    PROVE  ScalarLess(a, b) /\ ~ScalarLess(b, a) /\ ~ScalarEq(a, b) /\ ~ScalarEq(b, a)
  <1>1. \A t \in DOMAIN Rank : Rank[t] \in Int
    BY DEF Rank
  <1>2. Rank["integer"] = 2 /\ Rank["unsigned"] = 2
    BY DEF Rank
  <1>3. a[1] # b[1] /\ ~(Integral(a) /\ Integral(b))
    BY <1>1, <1>2 DEF Integral
  <1>4. TypeLess(a[1], b[1]) /\ ~TypeLess(b[1], a[1])
    BY <1>1 DEF TypeLess
  <1> QED
    BY <1>3, <1>4 DEF ScalarLess, ScalarEq, IsString

\* Two sets of values of which all in one are less than all in the other.
LEMMA OneAfterTheOther ==
    ASSUME NEW V, NEW W, ScalarsOrdered(V), ScalarsOrdered(W),
           \A a \in V : a[1] \in DOMAIN Rank, \A b \in W : b[1] \in DOMAIN Rank,
           \A a \in V, b \in W : Rank[a[1]] < Rank[b[1]]
    PROVE  ScalarsOrdered(V \cup W)
  <1>1. \A a \in V, b \in W :
           ScalarLess(a, b) /\ ~ScalarLess(b, a) /\ ~ScalarEq(a, b) /\ ~ScalarEq(b, a)
    BY RanksApart
  <1> QED
    BY <1>1 DEF ScalarsOrdered, OrderedBy

\* Within a rank the values are in the order of what they hold.
LEMMA NullOrdered == ScalarsOrdered({Null})
  BY DEF ScalarsOrdered, OrderedBy, Null, ScalarLess, ScalarEq, Integral, IsString, IsNumber,
         TypeLess, Rank, Discarded

LEMMA BooleansOrdered == ScalarsOrdered(Booleans)
  <1>1. ~TypeLess("boolean", "boolean")
    BY DEF TypeLess, Rank
  <1>2. ASSUME NEW a \in Booleans
        PROVE  a = Bool(TRUE) \/ a = Bool(FALSE)
    <2>1. PICK b \in BOOLEAN : a = Bool(b)
      BY Zenon DEF Booleans
    <2>2. b = TRUE \/ b = FALSE
      OBVIOUS
    <2> QED
      BY <2>1, <2>2
  <1>3. /\ ScalarLess(Bool(FALSE), Bool(TRUE)) /\ ~ScalarLess(Bool(TRUE), Bool(FALSE))
        /\ ~ScalarLess(Bool(TRUE), Bool(TRUE)) /\ ~ScalarLess(Bool(FALSE), Bool(FALSE))
    BY <1>1 DEF ScalarLess, Bool, Integral, IsString
  <1>4. Bool(TRUE) # Bool(FALSE)
    BY DEF Bool
  <1>5. \A b \in BOOLEAN : Bool(b) # Discarded
    BY DEF Bool, Discarded
  <1>6. /\ ScalarEq(Bool(TRUE), Bool(TRUE)) /\ ScalarEq(Bool(FALSE), Bool(FALSE))
        /\ ~ScalarEq(Bool(TRUE), Bool(FALSE)) /\ ~ScalarEq(Bool(FALSE), Bool(TRUE))
    <2>1. \A b \in BOOLEAN : ~Integral(Bool(b)) /\ Bool(b)[1] # "float" /\ ~IsNumber(Bool(b))
      BY DEF Bool, Integral, IsNumber
    <2> QED
      BY <1>4, <1>5, <2>1 DEF ScalarEq
  <1> QED
    BY <1>2, <1>3, <1>6 DEF ScalarsOrdered, OrderedBy

LEMMA StringsOrdered == ScalarsOrdered(Strings)
  <1>1. ~TypeLess("string", "string")
    BY DEF TypeLess, Rank
  <1>2. \A a \in Strings : a = <<"string", a[2]>> /\ a[1] = "string" /\ a[2] \in Seq(Byte)
    BY DEF Strings, Str
  <1>3. \A a \in Strings : a # Discarded
    BY <1>2 DEF Discarded
  <1>4. ASSUME NEW a \in Strings, NEW b \in Strings
        PROVE  (ScalarLess(a, b) <=> BytesLess(a[2], b[2])) /\ (ScalarEq(a, b) <=> a[2] = b[2])
    <2>1. ScalarLess(a, b) <=> BytesLess(a[2], b[2])
      BY <1>1, <1>2 DEF ScalarLess, Integral, IsString
    <2>2. ScalarEq(a, b) <=> a = b
      BY <1>2, <1>3 DEF ScalarEq, Integral, IsNumber
    <2>3. a = b <=> a[2] = b[2]
      BY <1>2
    <2> QED
      BY <2>1, <2>2, <2>3
  <1> QED
    BY <1>2, <1>4, BytesOrdered DEF ScalarsOrdered, OrderedBy, Identical

LEMMA IntegersOrdered == ScalarsOrdered(Integers64)
  <1>1. \A s \in {"integer", "unsigned"}, t \in {"integer", "unsigned"} : ~TypeLess(s, t)
    BY DEF TypeLess, Rank
  <1>2. \A a \in Integers64 :
           Integral(a) /\ a[2] \in Words /\ (a[1] = "unsigned" => ~IsNegative(a[2]))
    BY DEF Integers64, Integer, Unsigned, Integral
  <1>3. ASSUME NEW a \in Integers64, NEW b \in Integers64
        PROVE  (ScalarLess(a, b) <=> SignedLess(a[2], b[2])) /\ (ScalarEq(a, b) <=> a[2] = b[2])
    <2>1. a[1] \in {"integer", "unsigned"} /\ b[1] \in {"integer", "unsigned"}
      BY <1>2 DEF Integral
    <2>2. ScalarEq(a, b) <=> a[2] = b[2]
      BY <1>2, <2>1 DEF ScalarEq, IsNumber
    <2>3. CASE a[1] = "unsigned" /\ b[1] = "unsigned"
      <3>1. SignedLess(a[2], b[2]) <=> BytesLess(a[2], b[2])
        BY <1>2, <2>3 DEF SignedLess, IsNegative
      <3>2. ScalarLess(a, b) <=> BytesLess(a[2], b[2])
        BY <1>1, <2>1, <2>3 DEF ScalarLess, IsString
      <3> QED
        BY <2>2, <3>1, <3>2
    <2>4. CASE ~(a[1] = "unsigned" /\ b[1] = "unsigned")
      <3>1. ScalarLess(a, b) <=> SignedLess(a[2], b[2])
        BY <1>1, <2>1, <2>4 DEF ScalarLess, IsString, Integral
      <3> QED
        BY <2>2, <3>1
    <2> QED
      BY <2>3, <2>4
  <1> QED
    BY <1>2, <1>3, WordsOrdered DEF ScalarsOrdered, OrderedBy, Identical

LEMMA FloatsOrdered == ScalarsOrdered(Floats)
  <1>1. ~TypeLess("float", "float")
    BY DEF TypeLess, Rank
  <1>2. \A a \in Floats : a[1] = "float" /\ a[2] \in Doubles
    BY DEF Floats, Float
  <1>3. ASSUME NEW a \in Floats, NEW b \in Floats
        PROVE  (ScalarLess(a, b) <=> FloatLess(a[2], b[2])) /\ (ScalarEq(a, b) <=> FloatEq(a[2], b[2]))
    <2>1. ScalarLess(a, b) <=> FloatLess(a[2], b[2])
      BY <1>1, <1>2 DEF ScalarLess, Integral, IsString
    <2>2. ScalarEq(a, b) <=> FloatEq(a[2], b[2])
      BY <1>2 DEF ScalarEq, Integral, IsNumber
    <2> QED
      BY <2>1, <2>2
  <1> QED
    BY <1>2, <1>3, DoublesOrdered DEF ScalarsOrdered, OrderedBy

\* operator== and operator< of json.hpp on values without elements, the integers or
\* the doubles among them, are an order: of two values one is less or they are
\* equal, and both agree with each other, as sorting and keys of maps need.
THEOREM ScalarsAreOrdered ==
    ScalarsOrdered(ScalarsWith(Integers64)) /\ ScalarsOrdered(ScalarsWith(Floats))
  <1>1. /\ \A a \in {Null} : a[1] = "null"
        /\ \A a \in Booleans : a[1] = "boolean"
        /\ \A a \in Integers64 : a[1] \in {"integer", "unsigned"}
        /\ \A a \in Floats : a[1] = "float"
        /\ \A a \in Strings : a[1] = "string"
    BY DEF Null, Booleans, Bool, Integers64, Integer, Unsigned, Floats, Float, Strings, Str
  <1>2. /\ {"null", "boolean", "integer", "unsigned", "float", "string"} \subseteq DOMAIN Rank
        /\ Rank["null"] = 0 /\ Rank["boolean"] = 1 /\ Rank["integer"] = 2
        /\ Rank["unsigned"] = 2 /\ Rank["float"] = 2 /\ Rank["string"] = 5
    BY DEF Rank
  <1>3. ScalarsOrdered({Null} \cup Booleans)
    BY <1>1, <1>2, NullOrdered, BooleansOrdered, OneAfterTheOther
  <1>4. ASSUME NEW numbers, ScalarsOrdered(numbers),
               \A a \in numbers : a[1] \in {"integer", "unsigned", "float"}
        PROVE  ScalarsOrdered(ScalarsWith(numbers))
    <2>1. ScalarsOrdered(({Null} \cup Booleans) \cup numbers)
      <3>1. \A a \in {Null} \cup Booleans : a[1] \in DOMAIN Rank /\ Rank[a[1]] <= 1 /\ Rank[a[1]] \in Int
        BY <1>1, <1>2
      <3>2. \A b \in numbers : b[1] \in DOMAIN Rank /\ Rank[b[1]] = 2
        BY <1>2, <1>4
      <3>3. \A a \in {Null} \cup Booleans, b \in numbers : Rank[a[1]] < Rank[b[1]]
        BY <3>1, <3>2
      <3> QED
        BY <1>3, <1>4, <3>1, <3>2, <3>3, OneAfterTheOther
    <2>2. \A a \in ({Null} \cup Booleans) \cup numbers :
            a[1] \in DOMAIN Rank /\ Rank[a[1]] <= 2 /\ Rank[a[1]] \in Int
      BY <1>1, <1>2, <1>4
    <2>3. \A b \in Strings : b[1] \in DOMAIN Rank /\ Rank[b[1]] = 5
      BY <1>1, <1>2
    <2>4. \A a \in ({Null} \cup Booleans) \cup numbers, b \in Strings : Rank[a[1]] < Rank[b[1]]
      BY <2>2, <2>3
    <2> QED
      BY <2>1, <2>2, <2>3, <2>4, StringsOrdered, OneAfterTheOther DEF ScalarsWith
  <1> QED
    BY <1>1, <1>4, IntegersOrdered, FloatsOrdered
=============================================================================
