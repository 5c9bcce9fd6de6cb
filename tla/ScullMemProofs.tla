--------------------------- MODULE ScullMemProofs ---------------------------
(***************************************************************************)
(* Proofs about ScullMem, for any processes, quanta, quantum sets, sizes   *)
(* and bytes: the quantum sets keep their shape, every access stays inside *)
(* the memory it was given, and the device implements ScullFile.           *)
(***************************************************************************)
EXTENDS MCScullMem, SequenceTheorems, TLAPS

-----------------------------------------------------------------------------
(* Where an offset is: the arithmetic of scull_read and scull_write.       *)

\* The list item, the array entry and the offset of byte i, for areas of q bytes and
\* arrays of s pointers.
ItemOf(i, q, s) == i \div (q * s)
SetOf(i, q, s)  == (i % (q * s)) \div q
OffOf(i, q, s)  == (i % (q * s)) % q

\* Byte i is byte k of area a of item it.
Lies(i, it, a, k, q, s) == i = (q * s) * it + (q * a + k)

\* Quotient and remainder,
LEMMA DivMod ==
    ASSUME NEW x \in Nat, NEW m \in Nat \ {0}
    PROVE  /\ x \div m \in Nat /\ x % m \in Nat /\ x % m < m
           /\ x = m * (x \div m) + (x % m)
  <1>1. x \div m \in Nat
    OBVIOUS
  <1>2. x % m \in Nat /\ x % m < m
    OBVIOUS
  <1>3. x % m = x - m * (x \div m)
    OBVIOUS
  <1>. DEFINE k == m * (x \div m)
  <1>4. k \in Nat
    BY <1>1
  <1>. HIDE DEF k
  <1>5. x = k + (x % m)
    BY <1>2, <1>3, <1>4 DEF k
  <1>. QED
    BY <1>1, <1>2, <1>5, Zenon DEF k

\* which are determined by their sum.
LEMMA DivUnique ==
    ASSUME NEW m \in Nat \ {0}, NEW k \in Nat, NEW r \in Nat, r < m
    PROVE  (m * k + r) \div m = k /\ (m * k + r) % m = r
  OBVIOUS

\* A list item holds at least one byte.
LEMMA Product ==
    ASSUME NEW q \in Nat \ {0}, NEW s \in Nat \ {0}
    PROVE  q * s \in Nat \ {0}
  OBVIOUS

\* A remainder within an item is within one of its s areas.
LEMMA DivBelow ==
    ASSUME NEW q \in Nat \ {0}, NEW s \in Nat \ {0}, NEW r \in Nat, r < q * s
    PROVE  r \div q < s
  <1>1. r \div q \in Nat /\ q * (r \div q) <= r
    BY DivMod
  <1>2. ASSUME r \div q >= s PROVE FALSE
    <2>. DEFINE k == r \div q
    <2>1. k \in Nat /\ k >= s /\ q * k <= r
      BY <1>1, <1>2
    <2>. HIDE DEF k
    <2>2. q * s <= q * k
      BY <2>1
    <2>. QED
      BY <2>1, <2>2
  <1>. QED
    BY <1>1, <1>2

\* Item, area and offset of a byte are in range and add up to where it is.
LEMMA Address ==
    ASSUME NEW q \in Nat \ {0}, NEW s \in Nat \ {0}, NEW i \in Nat
    PROVE  /\ ItemOf(i, q, s) \in Nat /\ SetOf(i, q, s) \in Nat /\ OffOf(i, q, s) \in Nat
           /\ SetOf(i, q, s) < s /\ OffOf(i, q, s) < q
           /\ i = (q * s) * ItemOf(i, q, s) + (q * SetOf(i, q, s) + OffOf(i, q, s))
           /\ i % q = OffOf(i, q, s)
  <1>. DEFINE m == q * s
              it == ItemOf(i, q, s)
              r == i % (q * s)
              a == SetOf(i, q, s)
              k == OffOf(i, q, s)
  <1>1. m \in Nat \ {0}
    BY Product
  <1>2. it \in Nat /\ r \in Nat /\ r < q * s /\ i = m * it + r
    BY <1>1, DivMod DEF ItemOf
  <1>3. a \in Nat /\ k \in Nat /\ k < q /\ r = q * a + k
    BY <1>2, DivMod DEF SetOf, OffOf
  <1>4. a < s
    BY <1>2, DivBelow DEF SetOf
  <1>5. i % q = k
    <2>. HIDE DEF it, r, a, k
    <2>1. i = q * (s * it + a) + k /\ s * it + a \in Nat
      BY <1>2, <1>3
    <2>. DEFINE n == s * it + a
    <2>. HIDE DEF n
    <2>2. i = q * n + k /\ n \in Nat
      BY <2>1 DEF n
    <2>. QED
      BY <2>2, <1>3, DivUnique
  <1>6. i = m * it + (q * a + k)
    BY <1>2, <1>3
  <1>. QED
    BY <1>2, <1>3, <1>4, <1>5, <1>6

\* Item, area and offset determine the byte.
LEMMA AddressUnique ==
    ASSUME NEW q \in Nat \ {0}, NEW s \in Nat \ {0}, NEW it \in Nat, NEW a \in Nat, NEW k \in Nat,
           a < s, k < q, NEW i, Lies(i, it, a, k, q, s)
    PROVE  /\ i \in Nat
           /\ ItemOf(i, q, s) = it /\ SetOf(i, q, s) = a /\ OffOf(i, q, s) = k
  <1>. DEFINE m == q * s
              r == q * a + k
  <1>1. m \in Nat \ {0}
    BY Product
  <1>2. r \in Nat /\ r < m
    <2>1. q * (a + 1) <= q * s /\ q * (a + 1) = q * a + q /\ q * a \in Nat
      OBVIOUS
    <2>. QED
      BY <2>1
  <1>3. i = m * it + r
    BY DEF Lies
  <1>. HIDE DEF m
  <1>4. i \div m = it /\ i % m = r
    <2>. HIDE DEF r
    <2>. QED
      BY <1>1, <1>2, <1>3, DivUnique
  <1>5. r \div q = a /\ r % q = k
    BY DivUnique
  <1>6. i \in Nat
    BY <1>1, <1>2, <1>3
  <1>. QED
    BY <1>4, <1>5, <1>6 DEF m, ItemOf, SetOf, OffOf

\* Offsets of the same area: moving within the quantum changes only the last part.
LEMMA SameArea ==
    ASSUME NEW q \in Nat \ {0}, NEW s \in Nat \ {0}, NEW i \in Nat, NEW d \in Int,
           0 <= OffOf(i, q, s) + d, OffOf(i, q, s) + d < q
    PROVE  /\ i + d \in Nat
           /\ ItemOf(i + d, q, s) = ItemOf(i, q, s) /\ SetOf(i + d, q, s) = SetOf(i, q, s)
           /\ OffOf(i + d, q, s) = OffOf(i, q, s) + d
  <1>. DEFINE it == ItemOf(i, q, s)
              a == SetOf(i, q, s)
              k == OffOf(i, q, s)
              m == (q * s) * it
              n == q * a
  <1>1. it \in Nat /\ a \in Nat /\ k \in Nat /\ a < s /\ i = m + (n + k)
    BY Address
  <1>2. m \in Nat /\ n \in Nat
    BY <1>1
  <1>3. i + d = m + (n + (k + d)) /\ k + d \in Nat /\ k + d < q
    <2>. HIDE DEF m, n, k
    <2>. QED
      BY <1>1, <1>2 DEF k
  <1>. HIDE DEF it, a, k
  <1>4. i + d = (q * s) * it + (q * a + (k + d))
    BY <1>3
  <1>5. /\ i + d \in Nat /\ ItemOf(i + d, q, s) = it /\ SetOf(i + d, q, s) = a
        /\ OffOf(i + d, q, s) = k + d
    <2>. DEFINE l == k + d
                j == i + d
    <2>1. l \in Nat /\ l < q /\ Lies(j, it, a, l, q, s)
      BY <1>3, <1>4 DEF Lies
    <2>. HIDE DEF l, j
    <2>0. it \in Nat /\ a \in Nat /\ a < s
      BY <1>1
    <2>2. j \in Nat /\ ItemOf(j, q, s) = it /\ SetOf(j, q, s) = a /\ OffOf(j, q, s) = l
      BY <2>0, <2>1, AddressUnique
    <2>. QED
      BY <2>2 DEF l, j
  <1>. QED
    BY <1>5 DEF it, a, k

\* and two offsets of the same area differ by their distance.
LEMMA AreaDistance ==
    ASSUME NEW q \in Nat \ {0}, NEW s \in Nat \ {0}, NEW i \in Nat, NEW j \in Nat,
           ItemOf(i, q, s) = ItemOf(j, q, s), SetOf(i, q, s) = SetOf(j, q, s)
    PROVE  j - i = OffOf(j, q, s) - OffOf(i, q, s)
  <1>. DEFINE m == (q * s) * ItemOf(i, q, s)
              n == q * SetOf(i, q, s)
              k == OffOf(i, q, s)
              l == OffOf(j, q, s)
  <1>1. ItemOf(i, q, s) \in Nat /\ SetOf(i, q, s) \in Nat /\ k \in Nat /\ i = m + (n + k)
    BY Address
  <1>2. l \in Nat /\ j = m + (n + l)
    BY Address
  <1>3. m \in Nat /\ n \in Nat
    BY <1>1
  <1>. HIDE DEF m, n, k, l
  <1>4. j - i = l - k
    BY <1>1, <1>2, <1>3
  <1>. QED
    BY <1>4 DEF k, l

-----------------------------------------------------------------------------
(* The list of quantum sets.                                               *)

\* What a byte of an area may be, and an area: a sequence of them.
Stored == Bytes \cup {Junk}
Area == Seq(Stored)

\* Arrays of s pointers or none, areas of q bytes or none.
Shape(d, q, s) ==
    /\ d \in Seq(Seq(Area))
    /\ \A i \in 1..Len(d) : Len(d[i]) \in {0, s}
    /\ \A i \in 1..Len(d) : \A a \in 1..Len(d[i]) : Len(d[i][a]) \in {0, q}

\* Area a of item i, counted from 0; <<>> if there is none.
AreaAt(d, i, a) == IF i < Len(d) /\ a < Len(d[i + 1]) THEN d[i + 1][a + 1] ELSE <<>>

\* The lists d and e hold the same areas.
SameAreas(d, e) == \A i, a \in Nat : AreaAt(e, i, a) = AreaAt(d, i, a)
\* The same, except for area at of item it.
SameButOne(d, e, it, at) ==
    \A i, a \in Nat : <<i, a>> # <<it, at>> => AreaAt(e, i, a) = AreaAt(d, i, a)

\* A sequence with one element replaced.
LEMMA Replaced ==
    ASSUME NEW S, NEW d \in Seq(S), NEW i \in 1..Len(d), NEW x \in S
    PROVE  LET e == [d EXCEPT ![i] = x] IN
           /\ e \in Seq(S) /\ Len(e) = Len(d) /\ e[i] = x
           /\ \A j \in 1..Len(d) : j # i => e[j] = d[j]
  OBVIOUS

\* The elements of a sequence.
LEMMA Elements ==
    ASSUME NEW S, NEW d \in Seq(S)
    PROVE  /\ Len(d) \in Nat /\ DOMAIN d = 1..Len(d) /\ \A i \in 1..Len(d) : d[i] \in S
           /\ d = <<>> <=> Len(d) = 0
  OBVIOUS

\* A function on 1..n is a sequence.
LEMMA SeqOf ==
    ASSUME NEW S, NEW n \in Nat, NEW d, DOMAIN d = 1..n, d = [i \in 1..n |-> d[i]],
           \A i \in 1..n : d[i] \in S
    PROVE  d \in Seq(S) /\ Len(d) = n
  <1>1. d \in [1..n -> S]
    OBVIOUS
  <1>. QED
    BY <1>1

\* What a list with a shape consists of.
LEMMA ShapeTypes ==
    ASSUME NEW q \in Nat \ {0}, NEW s \in Nat \ {0}, NEW d, Shape(d, q, s)
    PROVE  /\ Len(d) \in Nat
           /\ \A i \in 1..Len(d) :
                /\ d[i] \in Seq(Area) /\ Len(d[i]) \in {0, s} /\ (d[i] = <<>> <=> Len(d[i]) = 0)
                /\ \A a \in 1..Len(d[i]) : d[i][a] \in Area /\ Len(d[i][a]) \in {0, q}
  <1>1. Len(d) \in Nat /\ \A i \in 1..Len(d) : d[i] \in Seq(Area)
    BY Elements, Zenon DEF Shape
  <1>2. ASSUME NEW i \in 1..Len(d)
        PROVE  /\ d[i] \in Seq(Area) /\ Len(d[i]) \in {0, s} /\ (d[i] = <<>> <=> Len(d[i]) = 0)
               /\ \A a \in 1..Len(d[i]) : d[i][a] \in Area /\ Len(d[i][a]) \in {0, q}
    <2>1. d[i] \in Seq(Area)
      BY <1>1
    <2>2. (d[i] = <<>> <=> Len(d[i]) = 0) /\ \A a \in 1..Len(d[i]) : d[i][a] \in Area
      BY <2>1, Elements, Zenon
    <2>. QED
      BY <2>1, <2>2, Zenon DEF Shape
  <1>. QED
    BY <1>1, <1>2

\* scull_follow only makes the list longer.
LEMMA FollowLen ==
    ASSUME NEW d, Len(d) \in Nat, NEW n \in Nat
    PROVE  Len(follow(d, n)) = max(Len(d), n)
  <1>. DEFINE m == max(Len(d), n)
              e == follow(d, n)
  <1>1. m \in Nat
    BY DEF max
  <1>2. DOMAIN e = 1..m /\ e = [i \in 1..m |-> e[i]]
    BY DEF follow
  <1>. HIDE DEF m, e
  <1>3. Len(e) = m
    BY <1>1, <1>2
  <1>. QED
    BY <1>3 DEF m, e

\* scull_follow adds items without an array, and no area.
LEMMA FollowShape ==
    ASSUME NEW q \in Nat \ {0}, NEW s \in Nat \ {0}, NEW d, Shape(d, q, s), NEW n \in Nat
    PROVE  LET e == follow(d, n) IN
           /\ Shape(e, q, s) /\ Len(e) = max(Len(d), n) /\ SameAreas(d, e)
  <1>. DEFINE e == follow(d, n)
              m == max(Len(d), n)
  <1>1. m \in Nat /\ m >= Len(d) /\ m >= n /\ Len(d) \in Nat
    BY ShapeTypes DEF max
  <1>2. e = [i \in 1..m |-> IF i <= Len(d) THEN d[i] ELSE <<>>]
    BY DEF follow
  <1>3. \A i \in 1..m : e[i] = IF i <= Len(d) THEN d[i] ELSE <<>>
    BY <1>2
  <1>4. \A i \in 1..m : e[i] \in Seq(Area)
    <2>1. <<>> \in Seq(Area)
      OBVIOUS
    <2>2. \A i \in 1..Len(d) : d[i] \in Seq(Area)
      BY ShapeTypes
    <2>. DEFINE A == Seq(Area)
    <2>3. <<>> \in A /\ \A i \in 1..Len(d) : d[i] \in A
      BY <2>1, <2>2
    <2>. HIDE DEF e, m, A
    <2>4. \A i \in 1..m : e[i] \in A
      BY <1>1, <1>3, <2>3
    <2>. QED
      BY <2>4 DEF A
  <1>5. e \in Seq(Seq(Area)) /\ Len(e) = m
    <2>1. e \in [1..m -> Seq(Area)]
      BY <1>2, <1>4
    <2>. HIDE DEF e, m
    <2>. QED
      BY <1>1, <2>1
  <1>6. Shape(e, q, s)
    <2>1. Len(<<>>) = 0
      OBVIOUS
    <2>2. \A i \in 1..Len(e) : Len(e[i]) \in {0, s}
      <3>. HIDE DEF e, m
      <3>. QED
        BY <1>1, <1>3, <1>5, <2>1, ShapeTypes
    <2>3. ASSUME NEW i \in 1..Len(e), NEW a \in 1..Len(e[i]) PROVE Len(e[i][a]) \in {0, q}
      <3>1. i <= Len(d) /\ e[i] = d[i]
        <4>. HIDE DEF e, m
        <4>. QED
          BY <1>1, <1>3, <1>5, <2>1
      <3>. QED
        BY <1>1, <3>1, ShapeTypes
    <2>. QED
      BY <1>5, <2>2, <2>3 DEF Shape
  <1>7. ASSUME NEW i \in Nat, NEW a \in Nat
        PROVE  AreaAt(e, i, a) = AreaAt(d, i, a)
    <2>1. Len(<<>>) = 0
      OBVIOUS
    <2>. HIDE DEF e, m
    <2>2. CASE i + 1 <= Len(d)
      BY <1>1, <1>3, <1>5, <2>2, SMTT(30) DEF AreaAt
    <2>3. CASE i + 1 > Len(d)
      BY <1>1, <1>3, <1>5, <2>1, <2>3 DEF AreaAt
    <2>. QED
      BY <1>1, <2>2, <2>3
  <1>. QED
    BY <1>5, <1>6, <1>7 DEF SameAreas

\* The array of item i is x, the others are as in d.
ItemSet(d, e, i, x) == e = [d EXCEPT ![i + 1] = x]

\* A new array in item i keeps the shape if it has it, and the areas of other items.
LEMMA ItemReplaced ==
    ASSUME NEW q \in Nat \ {0}, NEW s \in Nat \ {0}, NEW d, Shape(d, q, s),
           NEW i \in Nat, i < Len(d), NEW x \in Seq(Area), Len(x) \in {0, s},
           \A a \in 1..Len(x) : Len(x[a]) \in {0, q},
           NEW e, ItemSet(d, e, i, x)
    PROVE  /\ Shape(e, q, s) /\ Len(e) = Len(d) /\ e[i + 1] = x
           /\ \A j, a \in Nat : j # i => AreaAt(e, j, a) = AreaAt(d, j, a)
  <1>. DEFINE k == i + 1
  <1>1. Len(d) \in Nat /\ k \in 1..Len(d)
    BY ShapeTypes
  <1>2. d \in Seq(Seq(Area))
    BY DEF Shape
  <1>. DEFINE A == Seq(Area)
  <1>3. /\ e \in Seq(Seq(Area)) /\ Len(e) = Len(d) /\ e[k] = x
        /\ \A j \in 1..Len(d) : j # k => e[j] = d[j]
    <2>1. d \in Seq(A) /\ x \in A /\ e = [d EXCEPT ![k] = x]
      BY <1>2 DEF ItemSet
    <2>. HIDE DEF A, k
    <2>2. e \in Seq(A) /\ Len(e) = Len(d) /\ e[k] = x /\ \A j \in 1..Len(d) : j # k => e[j] = d[j]
      BY <1>1, <2>1, Replaced
    <2>. QED
      BY <2>2 DEF A
  <1>4. \A j \in 1..Len(e) : Len(e[j]) \in {0, s}
    <2>. HIDE DEF k
    <2>. QED
      BY <1>1, <1>3 DEF Shape
  <1>5. ASSUME NEW j \in 1..Len(e), NEW a \in 1..Len(e[j]) PROVE Len(e[j][a]) \in {0, q}
    <2>. HIDE DEF k
    <2>1. CASE j = k
      BY <1>3, <2>1
    <2>2. CASE j # k
      BY <1>3, <2>2 DEF Shape
    <2>. QED
      BY <2>1, <2>2
  <1>6. ASSUME NEW j \in Nat, NEW a \in Nat, j # i PROVE AreaAt(e, j, a) = AreaAt(d, j, a)
    <2>1. CASE j < Len(d)
      <3>1. e[j + 1] = d[j + 1]
        <4>. DEFINE l == j + 1
        <4>1. l \in 1..Len(d) /\ l # k
          BY <1>1, <1>6, <2>1
        <4>. HIDE DEF l, k
        <4>2. e[l] = d[l]
          BY <1>3, <4>1
        <4>. QED
          BY <4>2 DEF l
      <3>. QED
        BY <1>3, <3>1 DEF AreaAt
    <2>2. CASE ~(j < Len(d))
      BY <1>3, <2>2 DEF AreaAt
    <2>. QED
      BY <2>1, <2>2
  <1>. QED
    BY <1>3, <1>4, <1>5, <1>6 DEF Shape

\* An array of n pointers to nothing.
LEMMA EmptyArray ==
    ASSUME NEW n \in Nat
    PROVE  LET x == [k \in 1..n |-> <<>>] IN
           x \in Seq(Area) /\ Len(x) = n /\ \A k \in 1..n : x[k] = <<>> /\ Len(x[k]) = 0
  <1>1. <<>> \in Area /\ Len(<<>>) = 0
    BY DEF Area
  <1>. DEFINE A == Area
              x == [k \in 1..n |-> <<>>]
  <1>. HIDE DEF A
  <1>2. x \in [1..n -> A]
    BY <1>1 DEF A
  <1>3. x \in Seq(A) /\ Len(x) = n
    BY <1>2
  <1>. QED
    BY <1>1, <1>3 DEF A

\* The new array points to nothing yet.
LEMMA WithSetShape ==
    ASSUME NEW q \in Nat \ {0}, NEW s \in Nat \ {0}, NEW d, Shape(d, q, s),
           NEW i \in Nat, i < Len(d)
    PROVE  LET e == withSet(d, i, s) IN
           /\ Shape(e, q, s) /\ Len(e) = Len(d) /\ Len(e[i + 1]) = s /\ SameAreas(d, e)
  <1>. DEFINE e == withSet(d, i, s)
              x == [k \in 1..s |-> <<>>]
  <1>0. Len(d) \in Nat /\ i + 1 \in 1..Len(d) /\ Len(d[i + 1]) \in {0, s}
        /\ (d[i + 1] = <<>> <=> Len(d[i + 1]) = 0)
    BY ShapeTypes
  <1>1. CASE d[i + 1] # <<>>
    <2>1. e = d
      BY <1>1 DEF withSet
    <2>. QED
      BY <1>0, <1>1, <2>1 DEF SameAreas
  <1>2. CASE d[i + 1] = <<>>
    <2>1. ItemSet(d, e, i, x)
      BY <1>2 DEF withSet, ItemSet
    <2>2. x \in Seq(Area) /\ Len(x) = s /\ \A k \in 1..s : x[k] = <<>> /\ Len(x[k]) = 0
      BY EmptyArray
    <2>. HIDE DEF x, e
    <2>3. /\ Shape(e, q, s) /\ Len(e) = Len(d) /\ e[i + 1] = x
          /\ \A j, a \in Nat : j # i => AreaAt(e, j, a) = AreaAt(d, j, a)
      BY <2>1, <2>2, ItemReplaced
    <2>4. ASSUME NEW a \in Nat PROVE AreaAt(e, i, a) = AreaAt(d, i, a)
      <3>1. AreaAt(d, i, a) = <<>>
        BY <1>0, <1>2 DEF AreaAt
      <3>2. AreaAt(e, i, a) = <<>>
        BY <2>2, <2>3 DEF AreaAt
      <3>. QED
        BY <3>1, <3>2
    <2>5. SameAreas(d, e)
      BY <2>3, <2>4 DEF SameAreas
    <2>. QED
      BY <2>2, <2>3, <2>5 DEF e
  <1>. QED
    BY <1>1, <1>2

\* Area a of item i is y, the others are as in d.
AreaSet(d, e, i, a, y) == e = [d EXCEPT ![i + 1][a + 1] = y]

\* A new area of q bytes keeps the shape and all the other areas.
LEMMA AreaReplaced ==
    ASSUME NEW q \in Nat \ {0}, NEW s \in Nat \ {0}, NEW d, Shape(d, q, s),
           NEW i \in Nat, i < Len(d), NEW a \in Nat, a < Len(d[i + 1]),
           NEW y \in Area, Len(y) = q, NEW e, AreaSet(d, e, i, a, y)
    PROVE  /\ Shape(e, q, s) /\ Len(e) = Len(d) /\ Len(e[i + 1]) = Len(d[i + 1])
           /\ AreaAt(e, i, a) = y /\ SameButOne(d, e, i, a)
  <1>. DEFINE c == d[i + 1]
              x == [c EXCEPT ![a + 1] = y]
              A == Area
  <1>0. /\ Len(d) \in Nat /\ i + 1 \in 1..Len(d) /\ c \in Seq(A) /\ Len(c) \in {0, s}
        /\ Len(c) \in Nat /\ a + 1 \in 1..Len(c) /\ \A b \in 1..Len(c) : Len(c[b]) \in {0, q}
    BY ShapeTypes, SMTT(30)
  <1>1. ItemSet(d, e, i, x)
    BY DEF ItemSet, AreaSet
  <1>. HIDE DEF c
  <1>2. x \in Seq(A) /\ Len(x) = Len(c) /\ x[a + 1] = y /\ \A b \in 1..Len(c) : b # a + 1 => x[b] = c[b]
    <2>. HIDE DEF x, A
    <2>. DEFINE k == a + 1
    <2>1. k \in 1..Len(c) /\ y \in A /\ x = [c EXCEPT ![k] = y]
      BY <1>0 DEF A, x
    <2>. HIDE DEF k
    <2>2. x \in Seq(A) /\ Len(x) = Len(c) /\ x[k] = y /\ \A b \in 1..Len(c) : b # k => x[b] = c[b]
      BY <1>0, <2>1, Replaced
    <2>. QED
      BY <2>2 DEF k
  <1>. HIDE DEF x
  <1>3. x \in Seq(Area) /\ Len(x) \in {0, s} /\ \A b \in 1..Len(x) : Len(x[b]) \in {0, q}
    BY <1>0, <1>2
  <1>4. /\ Shape(e, q, s) /\ Len(e) = Len(d) /\ e[i + 1] = x
        /\ \A j, b \in Nat : j # i => AreaAt(e, j, b) = AreaAt(d, j, b)
    BY <1>1, <1>3, ItemReplaced
  <1>5. AreaAt(e, i, a) = y
    BY <1>0, <1>2, <1>4 DEF AreaAt
  <1>6. ASSUME NEW b \in Nat, b # a PROVE AreaAt(e, i, b) = AreaAt(d, i, b)
    <2>1. CASE b < Len(c)
      <3>1. x[b + 1] = c[b + 1]
        <4>. DEFINE k == b + 1
        <4>1. k \in 1..Len(c) /\ k # a + 1
          BY <1>0, <1>6, <2>1
        <4>. HIDE DEF k
        <4>2. x[k] = c[k]
          BY <1>2, <4>1
        <4>. QED
          BY <4>2 DEF k
      <3>. QED
        BY <1>0, <1>2, <1>4, <2>1, <3>1 DEF AreaAt, c
    <2>2. CASE ~(b < Len(c))
      BY <1>0, <1>2, <1>4, <2>2 DEF AreaAt, c
    <2>. QED
      BY <2>1, <2>2
  <1>7. SameButOne(d, e, i, a)
    BY <1>4, <1>6 DEF SameButOne
  <1>. QED
    BY <1>2, <1>4, <1>5, <1>7 DEF c

\* An area of n bytes.
LEMMA AreaOf ==
    ASSUME NEW n \in Nat, NEW y, y = [k \in 1..n |-> y[k]], \A k \in 1..n : y[k] \in Stored
    PROVE  y \in Area /\ Len(y) = n
  <1>1. y \in [1..n -> Stored]
    OBVIOUS
  <1>. QED
    BY <1>1 DEF Area

\* An area that the list has.
LEMMA Inside ==
    ASSUME NEW q \in Nat \ {0}, NEW s \in Nat \ {0}, NEW d, Shape(d, q, s),
           NEW i \in Nat, i < Len(d), NEW a \in Nat, a < Len(d[i + 1])
    PROVE  /\ AreaAt(d, i, a) = d[i + 1][a + 1]
           /\ d[i + 1][a + 1] \in Area /\ Len(d[i + 1][a + 1]) \in {0, q}
  <1>. DEFINE k == i + 1
              l == a + 1
  <1>1. Len(d) \in Nat /\ k \in 1..Len(d)
    BY ShapeTypes
  <1>2. AreaAt(d, i, a) = d[k][l] /\ l \in Nat \ {0} /\ l <= Len(d[k])
    <2>1. Len(d[k]) \in {0, s}
      <3>. HIDE DEF k
      <3>. QED
        BY <1>1, ShapeTypes
    <2>. QED
      BY <2>1 DEF AreaAt
  <1>. HIDE DEF k, l
  <1>3. Len(d[k]) \in {0, s} /\ \A c \in 1..Len(d[k]) : d[k][c] \in Area /\ Len(d[k][c]) \in {0, q}
    BY <1>1, ShapeTypes
  <1>4. d[k][l] \in Area /\ Len(d[k][l]) \in {0, q}
    BY <1>2, <1>3
  <1>. QED
    BY <1>2, <1>4 DEF k, l

\* kmalloc leaves what was there.
LEMMA WithAreaShape ==
    ASSUME NEW q \in Nat \ {0}, NEW s \in Nat \ {0}, NEW d, Shape(d, q, s),
           NEW i \in Nat, i < Len(d), NEW a \in Nat, a < Len(d[i + 1])
    PROVE  LET f == withArea(d, i, a, q) IN
           /\ Shape(f, q, s) /\ Len(f) = Len(d) /\ Len(f[i + 1]) = Len(d[i + 1])
           /\ Len(AreaAt(f, i, a)) = q /\ SameButOne(d, f, i, a)
           /\ AreaAt(d, i, a) # <<>> => AreaAt(f, i, a) = AreaAt(d, i, a)
           /\ AreaAt(d, i, a) = <<>> => \A k \in 1..q : AreaAt(f, i, a)[k] = Junk
  <1>. DEFINE f == withArea(d, i, a, q)
              y == [k \in 1..q |-> Junk]
  <1>0. /\ AreaAt(d, i, a) = d[i + 1][a + 1]
        /\ d[i + 1][a + 1] \in Area /\ Len(d[i + 1][a + 1]) \in {0, q}
    BY Inside
  <1>1. CASE d[i + 1][a + 1] # <<>>
    <2>1. f = d
      BY <1>1 DEF withArea
    <2>2. Len(AreaAt(d, i, a)) = q
      BY <1>0, <1>1 DEF Area
    <2>. HIDE DEF f
    <2>3. SameButOne(d, d, i, a)
      BY DEF SameButOne
    <2>. QED
      BY <1>0, <1>1, <2>1, <2>2, <2>3, Zenon DEF f
  <1>2. CASE d[i + 1][a + 1] = <<>>
    <2>1. AreaSet(d, f, i, a, y)
      BY <1>2 DEF withArea, AreaSet
    <2>2. y \in Area /\ Len(y) = q /\ \A k \in 1..q : y[k] = Junk
      BY AreaOf DEF Stored
    <2>. HIDE DEF f, y
    <2>3. /\ Shape(f, q, s) /\ Len(f) = Len(d) /\ Len(f[i + 1]) = Len(d[i + 1])
          /\ AreaAt(f, i, a) = y /\ SameButOne(d, f, i, a)
      BY <2>1, <2>2, AreaReplaced
    <2>. QED
      BY <1>0, <1>2, <2>2, <2>3, Zenon DEF f
  <1>. QED
    BY <1>1, <1>2

\* f is d with area a of item i allocated.
Allocated(d, f, i, a, q, s) == f = withArea(withSet(follow(d, i + 1), i, s), i, a, q)

\* What scull_write finds when it starts to copy: the area is there, and if it was not
\* there before it holds junk.
LEMMA PreparedShape ==
    ASSUME NEW q \in Nat \ {0}, NEW s \in Nat \ {0}, NEW d, Shape(d, q, s),
           NEW i \in Nat, NEW a \in Nat, a < s, NEW f, Allocated(d, f, i, a, q, s)
    PROVE  /\ Shape(f, q, s) /\ i < Len(f) /\ a < Len(f[i + 1])
           /\ Len(AreaAt(f, i, a)) = q /\ SameButOne(d, f, i, a)
           /\ AreaAt(d, i, a) # <<>> => AreaAt(f, i, a) = AreaAt(d, i, a)
           /\ AreaAt(d, i, a) = <<>> => \A k \in 1..q : AreaAt(f, i, a)[k] = Junk
  <1>. DEFINE b == follow(d, i + 1)
              c == withSet(b, i, s)
  <1>0. f = withArea(c, i, a, q)
    BY DEF Allocated
  <1>1. Shape(b, q, s) /\ SameAreas(d, b) /\ Len(b) = max(Len(d), i + 1) /\ Len(d) \in Nat
    <2>. DEFINE n == i + 1
    <2>1. n \in Nat /\ b = follow(d, n)
      OBVIOUS
    <2>. HIDE DEF n, b
    <2>2. Shape(b, q, s) /\ SameAreas(d, b) /\ Len(b) = max(Len(d), n) /\ Len(d) \in Nat
      BY <2>1, FollowShape, ShapeTypes
    <2>. QED
      BY <2>2 DEF n
  <1>2. i < Len(b)
    BY <1>1 DEF max
  <1>. HIDE DEF b
  <1>3. Shape(c, q, s) /\ Len(c) = Len(b) /\ Len(c[i + 1]) = s /\ SameAreas(b, c)
    BY <1>1, <1>2, WithSetShape
  <1>. HIDE DEF c
  <1>4. i < Len(c) /\ a < Len(c[i + 1])
    BY <1>2, <1>3
  <1>5. /\ Shape(f, q, s) /\ Len(f) = Len(c) /\ Len(f[i + 1]) = Len(c[i + 1])
        /\ Len(AreaAt(f, i, a)) = q /\ SameButOne(c, f, i, a)
        /\ AreaAt(c, i, a) # <<>> => AreaAt(f, i, a) = AreaAt(c, i, a)
        /\ AreaAt(c, i, a) = <<>> => \A k \in 1..q : AreaAt(f, i, a)[k] = Junk
    BY <1>0, <1>3, <1>4, WithAreaShape
  <1>6. AreaAt(c, i, a) = AreaAt(d, i, a) /\ SameButOne(d, f, i, a)
    BY <1>1, <1>3, <1>5 DEF SameAreas, SameButOne
  <1>7. i < Len(f) /\ a < Len(f[i + 1])
    BY <1>4, <1>5
  <1>. QED
    BY <1>5, <1>6, <1>7

\* e is d with the bytes b at offset o of area a of item i.
BytesSet(d, e, i, a, o, b) == e = withBytes(d, i, a, o, b)

\* The list e has the n bytes b from offset o of its area, and else the bytes of d.
Copied(d, e, i, a, q, o, n, b) ==
    \A k \in 1..q : AreaAt(e, i, a)[k] = IF k - o \in 1..n THEN b[k - o] ELSE AreaAt(d, i, a)[k]

\* The copy stores the user's bytes where they belong and nowhere else.
LEMMA WithBytesShape ==
    ASSUME NEW q \in Nat \ {0}, NEW s \in Nat \ {0}, NEW d, Shape(d, q, s),
           NEW i \in Nat, i < Len(d), NEW a \in Nat, a < Len(d[i + 1]),
           Len(AreaAt(d, i, a)) = q, NEW o \in Nat, NEW n \in Nat, NEW b \in [1..n -> Bytes],
           NEW e, BytesSet(d, e, i, a, o, b)
    PROVE  /\ Shape(e, q, s) /\ SameButOne(d, e, i, a) /\ Len(AreaAt(e, i, a)) = q
           /\ Copied(d, e, i, a, q, o, n, b)
  <1>. DEFINE z == AreaAt(d, i, a)
              y == [k \in 1..q |-> IF k - o \in 1..n THEN b[k - o] ELSE z[k]]
  <1>0. z = d[i + 1][a + 1] /\ z \in Area /\ Len(z) = q
    BY Inside
  <1>1. \A k \in 1..q : z[k] \in Stored
    <2>. HIDE DEF z
    <2>. QED
      BY <1>0, SMTT(30) DEF Area
  <1>2. AreaSet(d, e, i, a, y)
    <2>1. DOMAIN b = 1..n /\ Len(d[i + 1][a + 1]) = q
      BY <1>0
    <2>. QED
      BY <1>0, <2>1 DEF BytesSet, withBytes, AreaSet
  <1>. HIDE DEF z
  <1>3. \A k \in 1..q : y[k] = IF k - o \in 1..n THEN b[k - o] ELSE z[k]
    OBVIOUS
  <1>4. \A k \in 1..q : y[k] \in Stored
    BY <1>1, <1>3 DEF Stored
  <1>5. y \in Area /\ Len(y) = q
    <2>1. y = [k \in 1..q |-> y[k]]
      OBVIOUS
    <2>. HIDE DEF y
    <2>. QED
      BY <1>4, <2>1, AreaOf
  <1>. HIDE DEF y
  <1>6. /\ Shape(e, q, s) /\ Len(e) = Len(d) /\ Len(e[i + 1]) = Len(d[i + 1])
        /\ AreaAt(e, i, a) = y /\ SameButOne(d, e, i, a)
    BY <1>2, <1>5, AreaReplaced
  <1>. QED
    BY <1>3, <1>5, <1>6 DEF z, Copied

-----------------------------------------------------------------------------
(* The invariant of a device whose users reshape it only in quiet.         *)

\* A call that has the mutex and is about to touch the list.
BodyPC == {"r_body", "w_body"}

\* Types; a call has a result only when it is about to return.
MemTypes ==
    /\ scull_quantum \in Nat \ {0} /\ scull_qset \in Nat \ {0}
    /\ quantum \in Nat \ {0} /\ qset \in Nat \ {0} /\ size \in Nat
    /\ mutex \in Procs \cup {None} /\ pc \in [Procs -> PC]
    /\ lquantum \in [Procs -> Nat \ {0}] /\ lqset \in [Procs -> Nat \ {0}]
    /\ pos \in [Procs -> Nat]
    /\ DOMAIN xfer = Procs /\ \A p \in Procs : pc[p] # "ret" => xfer[p] = None

\* Whoever is inside the critical section holds dev->mutex.
MutexHeld == \A p \in Procs : pc[p] \in HoldPC => mutex = p

\* Between its stores scull_trim has already emptied the device.
Trimmed == \A p \in Procs : pc[p] \in {"o_quantum", "o_qset"} => data = <<>> /\ size = 0

\* No call is under way while an open is about to change the shape,
Reserved == Reshapes /\ (\E p \in Procs : pc[p] \in OpenPC) => \A p \in Procs : pc[p] \notin RwPC

\* so that what the calls copied without the mutex is still true when they have it.
LocalsCurrent ==
    \A p \in Procs :
      /\ pc[p] \in RwPC => lquantum[p] = quantum
      /\ pc[p] \in {"r_lock", "w_lock"} \cup BodyPC => lqset[p] = qset

\* The inductive invariant.
MemInv ==
    /\ MemTypes /\ MutexHeld /\ Trimmed /\ Reserved /\ LocalsCurrent
    /\ Shape(data, quantum, qset)

\* No list has every shape.
LEMMA EmptyShape ==
    ASSUME NEW q, NEW s
    PROVE  Shape(<<>>, q, s)
  <1>. DEFINE A == Seq(Area)
  <1>. HIDE DEF A
  <1>1. <<>> \in Seq(A) /\ Len(<<>>) = 0
    OBVIOUS
  <1>. QED
    BY <1>1 DEF A, Shape

\* The invariant in the words of the run's property.
LEMMA ShapeProperty ==
    ASSUME MemInv
    PROVE  SetsHaveShape
  <1>1. quantum \in Nat \ {0} /\ qset \in Nat \ {0} /\ Shape(data, quantum, qset)
    BY DEF MemInv, MemTypes
  <1>2. DOMAIN data = 1..Len(data)
    BY <1>1, Elements DEF Shape
  <1>3. ASSUME NEW i \in DOMAIN data, data[i] # <<>>
        PROVE  Len(data[i]) = qset /\ \A s \in DOMAIN data[i] : Len(data[i][s]) \in {0, quantum}
    <2>1. /\ data[i] \in Seq(Area) /\ Len(data[i]) = qset
          /\ \A a \in 1..Len(data[i]) : Len(data[i][a]) \in {0, quantum}
      BY <1>1, <1>2, <1>3, ShapeTypes
    <2>2. DOMAIN data[i] = 1..Len(data[i])
      BY <2>1, Elements
    <2>. QED
      BY <2>1, <2>2
  <1>. QED
    BY <1>3 DEF SetsHaveShape

\* The place that a call with the mutex computes.
LEMMA Body ==
    ASSUME MemInv, NEW p \in Procs, pc[p] \in BodyPC
    PROVE  /\ lquantum[p] = quantum /\ lqset[p] = qset
           /\ quantum \in Nat \ {0} /\ qset \in Nat \ {0} /\ pos[p] \in Nat
           /\ item(p) = ItemOf(pos[p], quantum, qset) /\ item(p) \in Nat
           /\ s_pos(p) = SetOf(pos[p], quantum, qset) /\ s_pos(p) \in Nat /\ s_pos(p) < qset
           /\ q_pos(p) = OffOf(pos[p], quantum, qset) /\ q_pos(p) \in Nat /\ q_pos(p) < quantum
  <1>1. /\ lquantum[p] = quantum /\ lqset[p] = qset
        /\ quantum \in Nat \ {0} /\ qset \in Nat \ {0} /\ pos[p] \in Nat
    BY DEF MemInv, MemTypes, LocalsCurrent, BodyPC, RwPC
  <1>2. /\ item(p) = ItemOf(pos[p], quantum, qset) /\ s_pos(p) = SetOf(pos[p], quantum, qset)
        /\ q_pos(p) = OffOf(pos[p], quantum, qset)
    BY <1>1, Zenon DEF item, itemsize, s_pos, q_pos, rest, ItemOf, SetOf, OffOf
  <1>. DEFINE x == pos[p]
  <1>3. x \in Nat
    BY <1>1
  <1>. HIDE DEF x
  <1>4. /\ ItemOf(x, quantum, qset) \in Nat /\ SetOf(x, quantum, qset) \in Nat
        /\ OffOf(x, quantum, qset) \in Nat
        /\ SetOf(x, quantum, qset) < qset /\ OffOf(x, quantum, qset) < quantum
    BY <1>1, <1>3, Address
  <1>. QED
    BY <1>1, <1>2, <1>4 DEF x

\* The list that it finds there.
LEMMA Found ==
    ASSUME MemInv, NEW p \in Procs, pc[p] \in BodyPC
    PROVE  /\ Shape(found(p), quantum, qset) /\ SameAreas(data, found(p))
           /\ item(p) < Len(found(p))
           /\ found(p)[item(p) + 1] # <<>> => Len(found(p)[item(p) + 1]) = qset
           /\ area(found(p), item(p), s_pos(p)) = AreaAt(data, item(p), s_pos(p))
           /\ AreaAt(data, item(p), s_pos(p)) # <<>> =>
                /\ AreaAt(data, item(p), s_pos(p)) \in Area
                /\ Len(AreaAt(data, item(p), s_pos(p))) = quantum
  <1>. DEFINE i == item(p)
              a == s_pos(p)
              f == found(p)
              n == i + 1
  <1>0. /\ quantum \in Nat \ {0} /\ qset \in Nat \ {0} /\ i \in Nat /\ a \in Nat /\ a < qset
        /\ Shape(data, quantum, qset)
    BY Body DEF MemInv
  <1>. HIDE DEF i, a
  <1>1. n \in Nat /\ n = i + 1 /\ f = follow(data, n)
    BY <1>0 DEF found, i
  <1>. HIDE DEF n, f
  <1>2. Shape(f, quantum, qset) /\ Len(f) = max(Len(data), n) /\ SameAreas(data, f)
    <2>1. Shape(f, quantum, qset) /\ SameAreas(data, f)
      BY <1>0, <1>1, FollowShape
    <2>2. Len(data) \in Nat
      BY <1>0, ShapeTypes
    <2>. QED
      BY <1>1, <2>1, <2>2, FollowLen
  <1>3. Len(data) \in Nat /\ Len(f) \in Nat
    BY <1>0, <1>2, ShapeTypes
  <1>4. i < Len(f) /\ n \in 1..Len(f)
    BY <1>0, <1>1, <1>2, <1>3 DEF max
  <1>5. Len(f[n]) \in {0, qset} /\ (f[n] = <<>> <=> Len(f[n]) = 0)
    BY <1>0, <1>2, <1>4, ShapeTypes
  <1>6. AreaAt(f, i, a) = AreaAt(data, i, a)
    BY <1>0, <1>2 DEF SameAreas
  <1>7. area(f, i, a) = AreaAt(f, i, a)
    BY <1>0, <1>1, <1>4, <1>5 DEF area, AreaAt
  <1>8. AreaAt(f, i, a) # <<>> => AreaAt(f, i, a) \in Area /\ Len(AreaAt(f, i, a)) = quantum
    <2>. SUFFICES ASSUME AreaAt(f, i, a) # <<>>
                  PROVE  AreaAt(f, i, a) \in Area /\ Len(AreaAt(f, i, a)) = quantum
      OBVIOUS
    <2>. DEFINE k == a + 1
    <2>1. AreaAt(f, i, a) = f[n][k] /\ k \in 1..Len(f[n])
      BY <1>0, <1>1, <1>5 DEF AreaAt
    <2>. HIDE DEF k
    <2>2. f[n][k] \in Area /\ Len(f[n][k]) \in {0, quantum}
      BY <1>0, <1>2, <1>4, <2>1, ShapeTypes
    <2>3. f[n][k] # <<>> => Len(f[n][k]) # 0
      BY <2>2, Elements DEF Area
    <2>. QED
      BY <2>1, <2>2, <2>3
  <1>. QED
    BY <1>0, <1>1, <1>2, <1>4, <1>5, <1>6, <1>7, <1>8 DEF i, a, f

\* It is inside the memory that is allocated.
LEMMA BodyFits ==
    ASSUME MemInv, NEW p \in Procs, pc[p] \in BodyPC
    PROVE  Fits(p)
  <1>1. ArrayFits(p)
    BY Body, Found DEF ArrayFits
  <1>2. AreaFits(p)
    <2>1. quantum \in Nat \ {0} /\ lquantum[p] = quantum
      BY Body
    <2>. DEFINE y == AreaAt(data, item(p), s_pos(p))
    <2>2. area(found(p), item(p), s_pos(p)) = y /\ (y # <<>> => Len(y) = quantum)
      BY Found
    <2>. HIDE DEF y
    <2>. QED
      BY <2>1, <2>2 DEF AreaFits
  <1>. QED
    BY <1>1, <1>2 DEF Fits

-----------------------------------------------------------------------------
(* What the bodies of scull_read and scull_write do to the list.           *)

\* The steps that at most allocate,
KeepsAreas(p) ==
    ReadEof(p) \/ ReadNoMemory(p) \/ ReadHole(p) \/ ReadCopy(p) \/ ReadNothing(p) \/ WriteNoMemory(p)

\* Such a step keeps the shape and every area.
LEMMA KeptAreas ==
    ASSUME MemInv, NEW p \in Procs, KeepsAreas(p)
    PROVE  Shape(data', quantum, qset) /\ SameAreas(data, data')
  <1>0. pc[p] \in BodyPC
    BY Zenon DEF KeepsAreas, BodyPC, ReadEof, ReadNoMemory, ReadHole, ReadCopy, ReadNothing, WriteNoMemory
  <1>1. quantum \in Nat \ {0} /\ qset \in Nat \ {0} /\ Shape(data, quantum, qset) /\ Len(data) \in Nat
    BY <1>0, Body, ShapeTypes DEF MemInv
  <1>2. CASE data' = data
    BY <1>1, <1>2 DEF SameAreas
  <1>3. CASE \E n \in Len(data)..item(p) : data' = follow(data, n)
    <2>. PICK n \in Len(data)..item(p) : data' = follow(data, n)
      BY <1>3
    <2>1. n \in Nat
      BY <1>0, <1>1, Body
    <2>. QED
      BY <1>1, <2>1, FollowShape
  <1>4. CASE data' = found(p)
    BY <1>0, <1>4, Found
  <1>5. CASE data' = withSet(found(p), item(p), lqset[p])
    <2>. DEFINE f == found(p)
                i == item(p)
    <2>1. Shape(f, quantum, qset) /\ SameAreas(data, f) /\ i < Len(f) /\ i \in Nat
      BY <1>0, Found, Body
    <2>2. data' = withSet(f, i, qset)
      BY <1>0, <1>5, Body
    <2>. HIDE DEF f, i
    <2>3. Shape(data', quantum, qset) /\ SameAreas(f, data')
      BY <1>1, <2>1, <2>2, WithSetShape
    <2>. QED
      BY <2>1, <2>3 DEF SameAreas
  <1>. QED
    BY <1>2, <1>3, <1>4, <1>5, Zenon
    DEF KeepsAreas, ReadEof, ReadNoMemory, ReadHole, ReadCopy, ReadNothing, WriteNoMemory

\* and those that store bytes: the n bytes b are in their place, and the area that holds
\* them has junk where it is new.
BytesAt(p, n, b) ==
    /\ Shape(data', quantum, qset) /\ SameButOne(data, data', item(p), s_pos(p))
    /\ Len(AreaAt(data', item(p), s_pos(p))) = quantum
    /\ \A k \in 1..quantum :
         AreaAt(data', item(p), s_pos(p))[k] =
           IF k - q_pos(p) \in 1..n THEN b[k - q_pos(p)]
           ELSE IF AreaAt(data, item(p), s_pos(p)) # <<>> THEN AreaAt(data, item(p), s_pos(p))[k]
                ELSE Junk

\* So do the copies of scull_write, which allocate what they need first.
LEMMA StoredBytes ==
    ASSUME MemInv, NEW p \in Procs, pc[p] = "w_body", NEW n \in Nat, NEW b \in [1..n -> Bytes],
           BytesSet(prepared(p), data', item(p), s_pos(p), q_pos(p), b)
    PROVE  BytesAt(p, n, b)
  <1>. DEFINE i == item(p)
              a == s_pos(p)
              o == q_pos(p)
              f == prepared(p)
              z == AreaAt(data, i, a)
              y == AreaAt(f, i, a)
              x == AreaAt(data', i, a)
  <1>0. pc[p] \in BodyPC
    BY DEF BodyPC
  <1>1. /\ quantum \in Nat \ {0} /\ qset \in Nat \ {0} /\ Shape(data, quantum, qset)
        /\ i \in Nat /\ a \in Nat /\ a < qset /\ o \in Nat
    BY <1>0, Body DEF MemInv
  <1>2. Allocated(data, f, i, a, quantum, qset)
    BY <1>0, Body DEF prepared, Allocated
  <1>3. BytesSet(f, data', i, a, o, b)
    OBVIOUS
  <1>. HIDE DEF i, a, o, f
  <1>4. /\ Shape(f, quantum, qset) /\ i < Len(f) /\ a < Len(f[i + 1])
        /\ Len(y) = quantum /\ SameButOne(data, f, i, a)
        /\ z # <<>> => y = z
        /\ z = <<>> => \A k \in 1..quantum : y[k] = Junk
    BY <1>1, <1>2, PreparedShape
  <1>5. /\ Shape(data', quantum, qset) /\ SameButOne(f, data', i, a) /\ Len(x) = quantum
        /\ Copied(f, data', i, a, quantum, o, n, b)
    BY <1>1, <1>3, <1>4, WithBytesShape
  <1>c. \A k \in 1..quantum : x[k] = IF k - o \in 1..n THEN b[k - o] ELSE y[k]
    BY <1>5 DEF Copied
  <1>. HIDE DEF x, y, z
  <1>6. SameButOne(data, data', i, a)
    BY <1>4, <1>5 DEF SameButOne
  <1>7. \A k \in 1..quantum :
          x[k] = IF k - o \in 1..n THEN b[k - o] ELSE IF z # <<>> THEN z[k] ELSE Junk
    BY <1>4, <1>c
  <1>. QED
    BY <1>5, <1>6, <1>7, Zenon DEF BytesAt, x, z, i, a, o

\* A write of 0 bytes allocates as much.
LEMMA StoredNothing ==
    ASSUME MemInv, NEW p \in Procs, pc[p] = "w_body", data' = prepared(p)
    PROVE  BytesAt(p, 0, <<>>)
  <1>. DEFINE i == item(p)
              a == s_pos(p)
              z == AreaAt(data, i, a)
              y == AreaAt(data', i, a)
  <1>0. pc[p] \in BodyPC
    BY DEF BodyPC
  <1>1. /\ quantum \in Nat \ {0} /\ qset \in Nat \ {0} /\ Shape(data, quantum, qset)
        /\ i \in Nat /\ a \in Nat /\ a < qset /\ q_pos(p) \in Nat
    BY <1>0, Body DEF MemInv
  <1>2. Allocated(data, data', i, a, quantum, qset)
    BY <1>0, Body DEF prepared, Allocated
  <1>. HIDE DEF i, a
  <1>3. /\ Shape(data', quantum, qset) /\ Len(y) = quantum /\ SameButOne(data, data', i, a)
        /\ z # <<>> => y = z
        /\ z = <<>> => \A k \in 1..quantum : y[k] = Junk
    BY <1>1, <1>2, PreparedShape
  <1>. HIDE DEF y, z
  <1>4. \A k \in 1..quantum :
          y[k] = IF k - q_pos(p) \in 1..0 THEN <<>>[k - q_pos(p)] ELSE IF z # <<>> THEN z[k] ELSE Junk
    <2>1. \A k \in 1..quantum : k - q_pos(p) \notin 1..0
      BY <1>1
    <2>. QED
      BY <1>3, <2>1
  <1>. QED
    BY <1>3, <1>4, Zenon DEF BytesAt, y, z, i, a

-----------------------------------------------------------------------------
(* The invariant is inductive.                                             *)

\* A piece of an area.
LEMMA Piece ==
    ASSUME NEW y \in Area, NEW o \in Nat, NEW n \in Nat, o + n <= Len(y)
    PROVE  LET b == SubSeq(y, o + 1, o + n) IN
           /\ Len(b) = n /\ b = [k \in 1..n |-> y[o + k]]
  <1>1. y \in Seq(Stored) /\ Len(y) \in Nat
    BY DEF Area
  <1>. QED
    BY <1>1

\* What ReadCopy delivers: up to the end of the quantum, and never beyond the size.
LEMMA ReadCopied ==
    ASSUME MemInv, NEW p \in Procs, ReadCopy(p)
    PROVE  \E n \in 1..MaxCount :
             /\ n <= quantum - q_pos(p) /\ pos[p] + n <= size
             /\ AreaAt(data, item(p), s_pos(p)) # <<>>
             /\ LET b == [k \in 1..n |-> AreaAt(data, item(p), s_pos(p))[q_pos(p) + k]] IN
                Finish(p, b) /\ Len(b) = n
  <1>. DEFINE y == AreaAt(data, item(p), s_pos(p))
              o == q_pos(p)
  <1>0. pc[p] \in BodyPC /\ pos[p] < size
    BY DEF ReadCopy, BodyPC
  <1>1. /\ quantum \in Nat \ {0} /\ lquantum[p] = quantum /\ pos[p] \in Nat /\ size \in Nat
        /\ o \in Nat /\ o < quantum
    BY <1>0, Body DEF MemInv, MemTypes
  <1>2. area(found(p), item(p), s_pos(p)) = y /\ y # <<>> /\ y \in Area /\ Len(y) = quantum
    BY <1>0, Found DEF ReadCopy
  <1>3. PICK c \in 1..MaxCount :
          Finish(p, SubSeq(y, o + 1, o + min(min(c, size - pos[p]), lquantum[p] - o)))
    BY <1>2, Zenon DEF ReadCopy
  <1>. DEFINE n == min(min(c, size - pos[p]), lquantum[p] - o)
              b == SubSeq(y, o + 1, o + n)
  <1>. HIDE DEF y, o
  <1>4. n \in Nat /\ n >= 1 /\ n <= c /\ n <= quantum - o /\ pos[p] + n <= size
    BY <1>0, <1>1 DEF min
  <1>5. n \in 1..MaxCount
    BY <1>4, ParamAssumption
  <1>. HIDE DEF n
  <1>6. Len(b) = n /\ b = [k \in 1..n |-> y[o + k]]
    BY <1>1, <1>2, <1>4, Piece
  <1>7. Finish(p, b)
    BY <1>3 DEF n
  <1>. HIDE DEF b
  <1>. QED
    BY <1>2, <1>4, <1>5, <1>6, <1>7 DEF y, o

\* The bodies of read and write.
BodyStep(p) == KeepsAreas(p) \/ WriteCopy(p) \/ WriteNothing(p) \/ WriteFault(p)

\* A call that returns what it has moved unlocks the mutex and drops its locals.
LEMMA Finished ==
    ASSUME MemTypes, NEW p \in Procs, NEW b, Len(b) \in Nat, Finish(p, b)
    PROVE  /\ pc' = [pc EXCEPT ![p] = "ret"] /\ mutex' = None
           /\ UNCHANGED <<scull_quantum, scull_qset, quantum, qset>> /\ DropLocals(p)
           /\ pos' \in [Procs -> Nat] /\ DOMAIN xfer' = Procs
           /\ \A q \in Procs : q # p => xfer'[q] = xfer[q]
  BY DEF MemTypes, Finish, Goto, params

\* So does every step of a body; what it leaves alone.
LEMMA BodyEnds ==
    ASSUME MemInv, NEW p \in Procs, BodyStep(p)
    PROVE  /\ pc[p] \in BodyPC
           /\ pc' = [pc EXCEPT ![p] = "ret"] \/ (pc' = [pc EXCEPT ![p] = "idle"] /\ xfer' = xfer)
           /\ mutex' = None /\ UNCHANGED <<scull_quantum, scull_qset, quantum, qset>>
           /\ DropLocals(p) /\ size' \in Nat
           /\ pos' \in [Procs -> Nat] /\ DOMAIN xfer' = Procs
           /\ \A q \in Procs : q # p => xfer'[q] = xfer[q]
  <1>t. MemTypes
    BY DEF MemInv
  <1>0. pc[p] \in BodyPC
    BY Zenon DEF BodyStep, KeepsAreas, BodyPC, ReadEof, ReadNoMemory, ReadHole, ReadCopy, ReadNothing,
                 WriteNoMemory, WriteCopy, WriteNothing, WriteFault
  <1>1. CASE (ReadEof(p) \/ ReadNoMemory(p) \/ ReadHole(p))
    <2>1. Finish(p, <<>>) /\ size' = size
      BY <1>1 DEF ReadEof, ReadNoMemory, ReadHole
    <2>2. Len(<<>>) \in Nat
      OBVIOUS
    <2>. QED
      BY <1>t, <1>0, <2>1, <2>2, Finished DEF MemTypes
  <1>2. CASE ReadCopy(p)
    <2>. DEFINE B(n) == [k \in 1..n |-> AreaAt(data, item(p), s_pos(p))[q_pos(p) + k]]
    <2>0. \E n \in 1..MaxCount : Finish(p, B(n)) /\ Len(B(n)) = n
      BY <1>2, ReadCopied, Zenon
    <2>. HIDE DEF B
    <2>1. PICK b : Finish(p, b) /\ Len(b) \in Nat
      BY <2>0
    <2>2. size' = size
      BY <1>2 DEF ReadCopy
    <2>. QED
      BY <1>t, <1>0, <2>1, <2>2, Finished DEF MemTypes
  <1>3. CASE (ReadNothing(p) \/ WriteNoMemory(p) \/ WriteFault(p))
    <2>1. Leave(p) /\ size' = size
      BY <1>3 DEF ReadNothing, WriteNoMemory, WriteFault
    <2>. QED
      BY <1>t, <1>0, <2>1 DEF Leave, Goto, MemTypes, params
  <1>4. CASE WriteCopy(p)
    <2>0. quantum \in Nat \ {0} /\ lquantum[p] = quantum /\ q_pos(p) \in Nat /\ q_pos(p) < quantum
      BY <1>0, Body
    <2>1. PICK c \in 1..min(MaxCount, MaxPos - pos[p]) :
            \E b \in [1..min(c, lquantum[p] - q_pos(p)) -> Bytes] :
              size' = max(size, pos[p] + Len(b)) /\ Finish(p, b)
      BY <1>4, Zenon DEF WriteCopy
    <2>. DEFINE m == min(c, lquantum[p] - q_pos(p))
    <2>2. m \in Nat
      BY <2>0 DEF min
    <2>3. PICK b \in [1..m -> Bytes] : size' = max(size, pos[p] + Len(b)) /\ Finish(p, b)
      BY <2>1
    <2>. HIDE DEF m
    <2>4. Len(b) = m
      BY <2>2, <2>3
    <2>5. size' \in Nat
      BY <1>t, <2>2, <2>3, <2>4 DEF MemTypes, max
    <2>. QED
      BY <1>t, <1>0, <2>2, <2>3, <2>4, <2>5, Finished
  <1>5. CASE WriteNothing(p)
    <2>1. Leave(p) /\ size' = max(size, pos[p])
      BY <1>5 DEF WriteNothing
    <2>2. size' \in Nat
      BY <1>t, <2>1 DEF MemTypes, max
    <2>. QED
      BY <1>t, <1>0, <2>1, <2>2 DEF Leave, Goto, MemTypes, params
  <1>. QED
    BY <1>1, <1>2, <1>3, <1>4, <1>5 DEF BodyStep, KeepsAreas

\* The steps that leave the device alone.
FileStep(p) ==
    \/ OpenStart(p) \/ Release(p) \/ Return(p) \/ Llseek(p)
    \/ Lock(p, "o_lock", "o_trim") \/ Lock(p, "r_lock", "r_body") \/ Lock(p, "w_lock", "w_body")
    \/ LockInterrupted(p, "o_lock", "closed") \/ LockInterrupted(p, "r_lock", "idle")
    \/ LockInterrupted(p, "w_lock", "idle")
    \/ ReadStart(p) \/ WriteStart(p)
    \/ CopyQset(p, "r_qset", "r_lock") \/ CopyQset(p, "w_qset", "w_lock")

\* The steps of a process are of three kinds.
LEMMA MemSteps ==
    ASSUME NEW p \in Procs, Open(p) \/ Release(p) \/ Read(p) \/ Write(p) \/ Return(p) \/ Llseek(p)
    PROVE  FileStep(p) \/ Trim(p) \/ TrimQuantum(p) \/ TrimQset(p) \/ BodyStep(p)
  BY Zenon DEF Open, Read, Write, FileStep, BodyStep, KeepsAreas

\* Steps that leave the device alone: the locals stay current because nobody may copy
\* them, or come to reshape the device, at the wrong moment.
LEMMA FileStepInv ==
    ASSUME MemInv, NEW p \in Procs, FileStep(p), QuietReshape
    PROVE  MemInv'
  <1>. USE DEF MemInv
  <1>0. UNCHANGED <<scull_quantum, scull_qset, quantum, qset, size, data>>
    BY Zenon DEF FileStep, OpenStart, Release, Return, Llseek, Lock, LockInterrupted, ReadStart, WriteStart,
           CopyQuantum, CopyQset, params, dev
  <1>d. Shape(data', quantum', qset')
    BY <1>0
  <1>1. CASE OpenStart(p)
    <2>1. MemTypes'
      BY <1>0, <1>1 DEF MemTypes, OpenStart, Goto, PC, OpenPC, locals
    <2>2. MutexHeld' /\ Trimmed' /\ LocalsCurrent'
      BY <1>0, <1>1 DEF MemTypes, MutexHeld, Trimmed, LocalsCurrent, OpenStart, Goto, HoldPC, BodyPC, RwPC,
                        locals
    <2>3. Reserved'
      <3>. SUFFICES ASSUME Reshapes', NEW q \in Procs, pc'[q] \in OpenPC, NEW r \in Procs, pc'[r] \in RwPC
                    PROVE  FALSE
        BY DEF Reserved
      <3>1. Reshapes
        BY <1>0 DEF Reshapes
      <3>2. r # p /\ pc[r] \in RwPC
        BY <1>1 DEF MemTypes, OpenStart, Goto, RwPC
      <3>3. CASE q # p
        BY <1>1, <3>1, <3>2, <3>3 DEF MemTypes, OpenStart, Goto, Reserved
      <3>4. CASE q = p
        <4>1. pc[p] = "closed" /\ pc'[p] = "o_lock"
          BY <1>1, <3>4 DEF MemTypes, OpenStart, Goto, OpenPC
        <4>2. pc[r] \in {"closed", "idle"} \cup OpenPC
          BY <3>1, <4>1 DEF QuietReshape
        <4>. QED
          BY <3>2, <4>2 DEF OpenPC, RwPC
      <3>. QED
        BY <3>3, <3>4
    <2>. QED
      BY <1>d, <2>1, <2>2, <2>3
  <1>2. CASE Release(p) \/ Return(p) \/ Llseek(p)
    <2>1. MemTypes'
      <3>1. CASE Release(p)
        BY <1>0, <3>1 DEF MemTypes, Release, Goto, PC, locals
      <3>2. CASE Return(p)
        BY <1>0, <3>2 DEF MemTypes, Return, Goto, PC, locals
      <3>3. CASE Llseek(p)
        <4>1. pos' \in [Procs -> Nat]
          <5>1. PICK n \in 0..MaxPos : pos' = [pos EXCEPT ![p] = n]
            BY <3>3 DEF Llseek
          <5>. QED
            BY <5>1, ParamAssumption DEF MemTypes
        <4>. QED
          BY <1>0, <3>3, <4>1 DEF MemTypes, Llseek, locals
      <3>. QED
        BY <1>2, <3>1, <3>2, <3>3
    <2>2. \A q \in Procs : pc'[q] = pc[q] \/ pc'[q] \in {"closed", "idle"}
      BY <1>2 DEF MemTypes, Release, Return, Llseek, Goto
    <2>3. UNCHANGED <<mutex, lquantum, lqset>>
      BY <1>2 DEF Release, Return, Llseek, locals
    <2>4. MutexHeld' /\ Trimmed' /\ LocalsCurrent' /\ Reserved'
      BY <1>0, <2>2, <2>3 DEF MutexHeld, Trimmed, LocalsCurrent, Reserved, Reshapes, HoldPC, OpenPC, RwPC, BodyPC
    <2>. QED
      BY <1>d, <2>1, <2>4
  <1>3. CASE Lock(p, "o_lock", "o_trim") \/ Lock(p, "r_lock", "r_body") \/ Lock(p, "w_lock", "w_body")
    <2>1. MemTypes'
      BY <1>0, <1>3 DEF MemTypes, Lock, Goto, PC, OpenPC, RwPC, locals
    <2>2. /\ \A q \in Procs \ {p} : pc'[q] = pc[q]
          /\ <<pc[p], pc'[p]>> \in {<<"o_lock", "o_trim">>, <<"r_lock", "r_body">>, <<"w_lock", "w_body">>}
      BY <1>3 DEF MemTypes, Lock, Goto
    <2>3. mutex = None /\ mutex' = p /\ UNCHANGED <<lquantum, lqset>>
      BY <1>3 DEF Lock, locals
    <2>4. MutexHeld'
      BY <2>2, <2>3, ParamAssumption DEF MutexHeld
    <2>5. Trimmed' /\ LocalsCurrent' /\ Reserved'
      BY <1>0, <2>2, <2>3 DEF Trimmed, LocalsCurrent, Reserved, Reshapes, OpenPC, RwPC, BodyPC
    <2>. QED
      BY <1>d, <2>1, <2>4, <2>5
  <1>4. CASE \/ LockInterrupted(p, "o_lock", "closed") \/ LockInterrupted(p, "r_lock", "idle")
             \/ LockInterrupted(p, "w_lock", "idle")
    <2>1. MemTypes'
      BY <1>0, <1>4, ParamAssumption DEF MemTypes, LockInterrupted, DropLocals, Goto, PC
    <2>2. /\ \A q \in Procs \ {p} : pc'[q] = pc[q] /\ lquantum'[q] = lquantum[q] /\ lqset'[q] = lqset[q]
          /\ pc'[p] \in {"closed", "idle"} /\ mutex' = mutex
      BY <1>4 DEF MemTypes, LockInterrupted, DropLocals, Goto
    <2>3. MutexHeld' /\ Trimmed' /\ LocalsCurrent' /\ Reserved'
      BY <1>0, <2>2 DEF MutexHeld, Trimmed, LocalsCurrent, Reserved, Reshapes, HoldPC, OpenPC, RwPC, BodyPC
    <2>. QED
      BY <1>d, <2>1, <2>3
  <1>5. CASE ReadStart(p) \/ WriteStart(p)
    <2>1. MemTypes'
      BY <1>0, <1>5 DEF MemTypes, ReadStart, WriteStart, CopyQuantum, Goto, PC, RwPC
    <2>2. /\ \A q \in Procs \ {p} : pc'[q] = pc[q] /\ lquantum'[q] = lquantum[q]
          /\ pc[p] = "idle" /\ pc'[p] \in {"r_qset", "w_qset"} /\ lquantum'[p] = quantum
          /\ mutex' = mutex /\ lqset' = lqset
      BY <1>5 DEF MemTypes, ReadStart, WriteStart, CopyQuantum, Goto
    <2>3. MutexHeld' /\ Trimmed' /\ LocalsCurrent'
      BY <1>0, <2>2 DEF MutexHeld, Trimmed, LocalsCurrent, HoldPC, RwPC, BodyPC
    <2>4. Reserved'
      <3>. SUFFICES ASSUME Reshapes', NEW q \in Procs, pc'[q] \in OpenPC
                    PROVE  FALSE
        BY DEF Reserved
      <3>1. Reshapes /\ q # p /\ pc[q] \in OpenPC
        BY <1>0, <2>2 DEF Reshapes, OpenPC
      <3>2. pc'[p] \in RwPC
        BY <2>2 DEF RwPC
      <3>. QED
        BY <2>2, <3>1, <3>2 DEF QuietReshape
    <2>. QED
      BY <1>d, <2>1, <2>3, <2>4
  <1>6. CASE CopyQset(p, "r_qset", "r_lock") \/ CopyQset(p, "w_qset", "w_lock")
    <2>1. MemTypes'
      BY <1>0, <1>6 DEF MemTypes, CopyQset, Goto, PC, RwPC
    <2>2. /\ \A q \in Procs \ {p} : pc'[q] = pc[q] /\ lqset'[q] = lqset[q]
          /\ pc[p] \in {"r_qset", "w_qset"} /\ pc'[p] \in {"r_lock", "w_lock"} /\ lqset'[p] = qset
          /\ mutex' = mutex /\ lquantum' = lquantum
      BY <1>6 DEF MemTypes, CopyQset, Goto
    <2>3. MutexHeld' /\ Trimmed' /\ LocalsCurrent' /\ Reserved'
      BY <1>0, <2>2 DEF MutexHeld, Trimmed, LocalsCurrent, Reserved, Reshapes, HoldPC, OpenPC, RwPC, BodyPC
    <2>. QED
      BY <1>d, <2>1, <2>3
  <1>. QED
    BY <1>1, <1>2, <1>3, <1>4, <1>5, <1>6, Zenon DEF FileStep

\* scull_trim: nobody else has the mutex, and nobody is in a call if the shape changes.
LEMMA TrimInv ==
    ASSUME MemInv, NEW p \in Procs, Trim(p) \/ TrimQuantum(p) \/ TrimQset(p)
    PROVE  MemInv'
  <1>. USE DEF MemInv
  <1>0. /\ UNCHANGED <<scull_quantum, scull_qset, lquantum, lqset, pos, xfer>>
        /\ \A q \in Procs \ {p} : pc'[q] = pc[q] /\ pc[q] \notin HoldPC
        /\ pc[p] \in {"o_trim", "o_quantum", "o_qset"} /\ mutex = p
    <2>1. pc[p] \in {"o_trim", "o_quantum", "o_qset"}
      BY DEF Trim, TrimQuantum, TrimQset
    <2>2. mutex = p
      BY <2>1 DEF MutexHeld, HoldPC
    <2>3. \A q \in Procs \ {p} : pc[q] \notin HoldPC
      BY <2>2 DEF MutexHeld
    <2>4. \A q \in Procs \ {p} : pc'[q] = pc[q]
      BY DEF Trim, TrimQuantum, TrimQset, Goto, MemTypes
    <2>. QED
      BY <2>1, <2>2, <2>3, <2>4 DEF Trim, TrimQuantum, TrimQset, params, locals
  <1>1. data' = <<>> /\ size' = 0
    BY <1>0 DEF Trim, TrimQuantum, TrimQset, Trimmed
  <1>2. Shape(data', quantum', qset')
    BY <1>1, EmptyShape
  <1>3. MemTypes'
    BY <1>0, <1>1 DEF MemTypes, Trim, TrimQuantum, TrimQset, Goto, PC, OpenPC
  <1>4. Trimmed'
    BY <1>1 DEF Trimmed
  <1>5. MutexHeld'
    BY <1>0 DEF MutexHeld, MemTypes, Trim, TrimQuantum, TrimQset, Goto, HoldPC
  <1>6. quantum' \in {quantum, scull_quantum} /\ qset' \in {qset, scull_qset}
    BY DEF Trim, TrimQuantum, TrimQset
  <1>7. (Reshapes' => Reshapes) /\ (~Reshapes => quantum' = quantum /\ qset' = qset)
    BY <1>0, <1>6 DEF Reshapes
  <1>8. Reshapes => \A q \in Procs : pc[q] \notin RwPC
    BY <1>0 DEF Reserved, OpenPC
  <1>9. pc'[p] \notin RwPC
    BY <1>0 DEF MemTypes, Trim, TrimQuantum, TrimQset, Goto, RwPC
  <1>10. Reserved'
    BY <1>0, <1>7, <1>8, <1>9 DEF Reserved
  <1>11. LocalsCurrent'
    <2>1. CASE Reshapes
      BY <1>0, <1>8, <1>9, <2>1 DEF LocalsCurrent, RwPC, BodyPC
    <2>2. CASE ~Reshapes
      BY <1>0, <1>7, <1>9, <2>2 DEF LocalsCurrent, RwPC, BodyPC
    <2>. QED
      BY <2>1, <2>2
  <1>. QED
    BY <1>2, <1>3, <1>4, <1>5, <1>10, <1>11

\* The list after a step of a body has the shape it had.
LEMMA BodyShape ==
    ASSUME MemInv, NEW p \in Procs, BodyStep(p)
    PROVE  Shape(data', quantum, qset)
  <1>1. CASE KeepsAreas(p)
    BY <1>1, KeptAreas
  <1>2. CASE WriteCopy(p) \/ WriteFault(p)
    <2>0. pc[p] = "w_body"
      BY <1>2 DEF WriteCopy, WriteFault
    <2>1. quantum \in Nat \ {0} /\ lquantum[p] = quantum /\ q_pos(p) \in Nat /\ q_pos(p) < quantum
      BY <2>0, Body DEF BodyPC
    <2>2. MaxCount \in Nat \ {0}
      BY ParamAssumption
    <2>3. \A c \in 1..min(MaxCount, MaxPos - pos[p]) : min(c, lquantum[p] - q_pos(p)) \in Nat
      BY <2>1 DEF min
    <2>4. \E n \in Nat : \E b \in [1..n -> Bytes] :
             BytesSet(prepared(p), data', item(p), s_pos(p), q_pos(p), b)
      <3>1. CASE WriteCopy(p)
        BY <2>3, <3>1, Zenon DEF WriteCopy, BytesSet
      <3>2. CASE WriteFault(p)
        <4>1. \A n \in 0..min(MaxCount, lquantum[p] - q_pos(p)) - 1 : n \in Nat
          BY <2>1, <2>2 DEF min
        <4>. QED
          BY <3>2, <4>1, Zenon DEF WriteFault, BytesSet
      <3>. QED
        BY <1>2, <3>1, <3>2
    <2>. QED
      BY <2>0, <2>4, StoredBytes DEF BytesAt
  <1>3. CASE WriteNothing(p)
    BY <1>3, StoredNothing DEF WriteNothing, BytesAt
  <1>. QED
    BY <1>1, <1>2, <1>3 DEF BodyStep

\* The bodies keep the invariant, and end the call.
LEMMA BodyInv ==
    ASSUME MemInv, NEW p \in Procs, BodyStep(p)
    PROVE  MemInv'
  <1>. USE DEF MemInv
  <1>0. /\ pc[p] \in BodyPC
        /\ mutex' = None /\ UNCHANGED <<scull_quantum, scull_qset, quantum, qset>>
        /\ size' \in Nat /\ pos' \in [Procs -> Nat] /\ DOMAIN xfer' = Procs
        /\ \A q \in Procs : q # p => xfer'[q] = xfer[q]
    BY BodyEnds
  <1>1. /\ pc' \in [Procs -> PC] /\ \A q \in Procs \ {p} : pc'[q] = pc[q]
        /\ pc'[p] \in {"ret", "idle"} /\ (pc'[p] = "idle" => xfer' = xfer)
    BY BodyEnds DEF MemTypes, PC
  <1>2. /\ lquantum' \in [Procs -> Nat \ {0}] /\ lqset' \in [Procs -> Nat \ {0}]
        /\ \A q \in Procs \ {p} : lquantum'[q] = lquantum[q] /\ lqset'[q] = lqset[q]
    BY BodyEnds, ParamAssumption DEF MemTypes, DropLocals
  <1>3. \A q \in Procs \ {p} : pc[q] \notin HoldPC
    BY <1>0 DEF MutexHeld, BodyPC, HoldPC
  <1>4. MemTypes'
    <2>1. \A q \in Procs : pc'[q] # "ret" => xfer'[q] = None
      BY <1>0, <1>1 DEF MemTypes, BodyPC
    <2>. QED
      BY <1>0, <1>1, <1>2, <2>1 DEF MemTypes
  <1>5. MutexHeld' /\ Trimmed'
    BY <1>1, <1>3 DEF MutexHeld, Trimmed, HoldPC
  <1>6. Reserved' /\ LocalsCurrent'
    BY <1>0, <1>1, <1>2 DEF Reserved, Reshapes, LocalsCurrent, OpenPC, RwPC, BodyPC
  <1>7. Shape(data', quantum', qset')
    BY <1>0, BodyShape
  <1>. QED
    BY <1>4, <1>5, <1>6, <1>7

\* The first state has the invariant,
LEMMA MemInitInv == Init => MemInv
  <1>. SUFFICES ASSUME Init PROVE MemInv
    OBVIOUS
  <1>1. MemTypes
    BY ParamAssumption DEF Init, MemTypes, PC
  <1>2. MutexHeld /\ Trimmed /\ Reserved /\ LocalsCurrent
    BY DEF Init, MutexHeld, Trimmed, Reserved, LocalsCurrent, HoldPC, OpenPC, RwPC, BodyPC
  <1>3. Shape(data, quantum, qset)
    BY EmptyShape DEF Init
  <1>. QED
    BY <1>1, <1>2, <1>3 DEF MemInv

\* and every step keeps it.
LEMMA MemNextInv == MemInv /\ [Next /\ QuietReshape]_vars => MemInv'
  <1>. SUFFICES ASSUME MemInv, [Next /\ QuietReshape]_vars PROVE MemInv'
    OBVIOUS
  <1>1. CASE UNCHANGED vars
    <2>1. UNCHANGED <<scull_quantum, scull_qset, quantum, qset, size, data, mutex, pc, lquantum, lqset,
                      pos, xfer>>
      BY <1>1 DEF vars, params, dev, locals
    <2>. QED
      BY <2>1 DEF MemInv, MemTypes, MutexHeld, Trimmed, Reserved, Reshapes, LocalsCurrent
  <1>2. ASSUME QuietReshape, NEW p \in Procs,
               Open(p) \/ Release(p) \/ Read(p) \/ Write(p) \/ Return(p) \/ Llseek(p)
        PROVE  MemInv'
    BY <1>2, MemSteps, FileStepInv, TrimInv, BodyInv
  <1>3. CASE Ioctl /\ QuietReshape
    <2>1. UNCHANGED <<quantum, qset, size, data, mutex, pc, lquantum, lqset, pos, xfer>>
      BY <1>3 DEF Ioctl, dev, locals
    <2>2. MemTypes'
      BY <1>3, <2>1, ParamAssumption DEF Ioctl, MemInv, MemTypes
    <2>3. Reserved'
      <3>1. CASE params' = params
        BY <2>1, <3>1 DEF MemInv, Reserved, Reshapes, params
      <3>2. CASE params' # params
        BY <1>3, <2>1, <3>2 DEF QuietReshape, Reserved
      <3>. QED
        BY <3>1, <3>2
    <2>. QED
      BY <2>1, <2>2, <2>3 DEF MemInv, MutexHeld, Trimmed, LocalsCurrent
  <1>. QED
    BY <1>1, <1>2, <1>3 DEF Next

\* As long as its users reshape a device only in quiet, every array of the list has
\* dev->qset pointers and every area dev->quantum bytes: what scull_trim frees is what
\* was allocated.
THEOREM MemShape == QuietSpec => []SetsHaveShape
  <1>1. MemInv => SetsHaveShape
    BY ShapeProperty
  <1>. QED
    BY <1>1, MemInitInv, MemNextInv, PTL DEF QuietSpec

\* A read or a write that has the mutex computes, with what it copied before, a place
\* inside the memory that is allocated, for any quantum, qset and position.
THEOREM MemAccess == QuietSpec => []AccessInQuantum
  <1>1. MemInv => AccessInQuantum
    BY BodyFits DEF AccessInQuantum, BodyPC
  <1>. QED
    BY <1>1, MemInitInv, MemNextInv, PTL DEF QuietSpec

-----------------------------------------------------------------------------
(* The device implements ScullFile.                                        *)

\* Byte i of the list d.
ByteAt(d, i, q, s) ==
    IF AreaAt(d, ItemOf(i, q, s), SetOf(i, q, s)) # <<>>
    THEN AreaAt(d, ItemOf(i, q, s), SetOf(i, q, s))[OffOf(i, q, s) + 1]
    ELSE Junk

\* The abstraction function of ScullMem looks it up the way scull_read does.
LEMMA ByteIs ==
    ASSUME MemInv, NEW i \in Nat
    PROVE  byteAt(i) = ByteAt(data, i, quantum, qset)
  <1>. DEFINE it == ItemOf(i, quantum, qset)
              a == SetOf(i, quantum, qset)
              o == OffOf(i, quantum, qset)
  <1>1. quantum \in Nat \ {0} /\ qset \in Nat \ {0}
    BY DEF MemInv, MemTypes
  <1>2. i % quantum = o
    BY <1>1, Address
  <1>3. byteAt(i) = IF it < Len(data) /\ a < Len(data[it + 1]) /\ data[it + 1][a + 1] # <<>>
                    THEN data[it + 1][a + 1][o + 1] ELSE Junk
    BY <1>2, Zenon DEF byteAt, ItemOf, SetOf
  <1>. HIDE DEF it, a, o
  <1>4. CASE it < Len(data) /\ a < Len(data[it + 1])
    BY <1>3, <1>4 DEF ByteAt, AreaAt, it, a, o
  <1>5. CASE ~(it < Len(data) /\ a < Len(data[it + 1]))
    BY <1>3, <1>5 DEF ByteAt, AreaAt, it, a, o
  <1>. QED
    BY <1>4, <1>5

\* Where the areas are the same the bytes are.
LEMMA SameBytes ==
    ASSUME NEW d, NEW e, SameAreas(d, e), NEW q \in Nat \ {0}, NEW s \in Nat \ {0}, NEW i \in Nat
    PROVE  ByteAt(e, i, q, s) = ByteAt(d, i, q, s)
  <1>1. ItemOf(i, q, s) \in Nat /\ SetOf(i, q, s) \in Nat
    BY Address
  <1>2. AreaAt(e, ItemOf(i, q, s), SetOf(i, q, s)) = AreaAt(d, ItemOf(i, q, s), SetOf(i, q, s))
    BY <1>1 DEF SameAreas
  <1>. QED
    BY <1>2 DEF ByteAt

\* A write that fits into its quantum changes its own bytes and no other.
LEMMA WrittenBytes ==
    ASSUME MemInv, NEW p \in Procs, pc[p] \in BodyPC, NEW n \in Nat, NEW b, BytesAt(p, n, b),
           n <= quantum - q_pos(p), NEW i \in Nat
    PROVE  ByteAt(data', i, quantum, qset) =
             IF i - pos[p] + 1 \in 1..n THEN b[i - pos[p] + 1] ELSE ByteAt(data, i, quantum, qset)
  <1>. DEFINE x == pos[p]
              it == ItemOf(i, quantum, qset)
              a == SetOf(i, quantum, qset)
              k == OffOf(i, quantum, qset) + 1
              o == OffOf(x, quantum, qset)
              y == AreaAt(data, it, a)
              z == AreaAt(data', it, a)
  <1>0. /\ quantum \in Nat \ {0} /\ qset \in Nat \ {0} /\ x \in Nat
        /\ item(p) = ItemOf(x, quantum, qset) /\ s_pos(p) = SetOf(x, quantum, qset)
        /\ q_pos(p) = o /\ o \in Nat /\ o < quantum
    BY Body
  <1>. HIDE DEF x
  <1>1. it \in Nat /\ a \in Nat /\ k \in 1..quantum
    <2>1. /\ ItemOf(i, quantum, qset) \in Nat /\ SetOf(i, quantum, qset) \in Nat
          /\ OffOf(i, quantum, qset) \in Nat /\ OffOf(i, quantum, qset) < quantum
      BY <1>0, Address
    <2>. QED
      BY <1>0, <2>1
  <1>2. /\ ByteAt(data, i, quantum, qset) = IF y # <<>> THEN y[k] ELSE Junk
        /\ ByteAt(data', i, quantum, qset) = IF z # <<>> THEN z[k] ELSE Junk
    BY DEF ByteAt
  <1>3. CASE it = item(p) /\ a = s_pos(p)
    <2>1. i - x = k - 1 - o
      <3>1. i - x = OffOf(i, quantum, qset) - o
        BY <1>0, <1>3, AreaDistance
      <3>2. OffOf(i, quantum, qset) \in Nat
        BY <1>0, Address
      <3>. QED
        BY <1>0, <3>1, <3>2
    <2>2. i - x + 1 = k - o
      <3>. HIDE DEF k, o
      <3>. QED
        BY <1>0, <1>1, <2>1
    <2>3. /\ Len(z) = quantum
          /\ \A l \in 1..quantum :
               z[l] = IF l - o \in 1..n THEN b[l - o] ELSE IF y # <<>> THEN y[l] ELSE Junk
      BY <1>0, <1>3 DEF BytesAt
    <2>4. z # <<>>
      BY <1>0, <2>3
    <2>. HIDE DEF k, o, y, z
    <2>. QED
      BY <1>1, <1>2, <2>2, <2>3, <2>4 DEF x
  <1>4. CASE ~(it = item(p) /\ a = s_pos(p))
    <2>1. y = z
      BY <1>1, <1>0, <1>4 DEF BytesAt, SameButOne
    <2>2. ASSUME i - x + 1 \in 1..n PROVE FALSE
      <3>. DEFINE d == i - x
      <3>1. d \in Int /\ 0 <= d /\ d < n /\ i = x + d
        BY <1>0, <2>2
      <3>. HIDE DEF d
      <3>2. 0 <= o + d /\ o + d < quantum
        <4>. HIDE DEF o
        <4>. QED
          BY <1>0, <3>1
      <3>3. ItemOf(x + d, quantum, qset) = item(p) /\ SetOf(x + d, quantum, qset) = s_pos(p)
        BY <1>0, <3>1, <3>2, SameArea
      <3>. QED
        BY <1>4, <3>1, <3>3
    <2>. QED
      BY <1>2, <2>1, <2>2 DEF x
  <1>. QED
    BY <1>3, <1>4

\* What a read finds at its position is what the file has there.
LEMMA ReadBytes ==
    ASSUME MemInv, NEW p \in Procs, pc[p] \in BodyPC, NEW k \in Nat, q_pos(p) + k < quantum
    PROVE  ByteAt(data, pos[p] + k, quantum, qset) =
             IF AreaAt(data, item(p), s_pos(p)) # <<>>
             THEN AreaAt(data, item(p), s_pos(p))[q_pos(p) + k + 1] ELSE Junk
  <1>. DEFINE x == pos[p]
              o == OffOf(x, quantum, qset)
  <1>0. /\ quantum \in Nat \ {0} /\ qset \in Nat \ {0} /\ x \in Nat
        /\ item(p) = ItemOf(x, quantum, qset) /\ s_pos(p) = SetOf(x, quantum, qset)
        /\ q_pos(p) = o /\ o \in Nat /\ o < quantum
    BY Body
  <1>. HIDE DEF x
  <1>1. /\ ItemOf(x + k, quantum, qset) = item(p) /\ SetOf(x + k, quantum, qset) = s_pos(p)
        /\ OffOf(x + k, quantum, qset) = q_pos(p) + k
    <2>1. k \in Int /\ 0 <= o + k /\ o + k < quantum
      BY <1>0
    <2>. QED
      BY <1>0, <2>1, SameArea
  <1>. QED
    BY <1>1 DEF ByteAt, x

\* What the refinement puts in the place of file and of opening.
theFile == [i \in 1..size |-> byteAt(i - 1)]
opening == {p \in Procs : pc[p] \in OpenPC}

\* The bytes of the file.
FileFacts ==
    /\ size \in Nat /\ Len(theFile) = size /\ DOMAIN theFile = 1..size
    /\ theFile = [i \in 1..size |-> theFile[i]]
    /\ \A i \in 1..size : theFile[i] = ByteAt(data, i - 1, quantum, qset)

\* The invariant gives the bytes of the file, before a step
LEMMA FileBytes == MemInv => FileFacts
  <1>. SUFFICES ASSUME MemInv PROVE FileFacts
    OBVIOUS
  <1>1. size \in Nat
    BY DEF MemInv, MemTypes
  <1>2. \A i \in 1..size : byteAt(i - 1) = ByteAt(data, i - 1, quantum, qset)
    <2>. TAKE i \in 1..size
    <2>. DEFINE j == i - 1
    <2>1. j \in Nat
      BY <1>1
    <2>. HIDE DEF j
    <2>2. byteAt(j) = ByteAt(data, j, quantum, qset)
      BY <2>1, ByteIs
    <2>. QED
      BY <2>2 DEF j
  <1>3. Len(theFile) = size /\ DOMAIN theFile = 1..size /\ theFile = [i \in 1..size |-> theFile[i]]
    BY <1>1 DEF theFile
  <1>4. \A i \in 1..size : theFile[i] = byteAt(i - 1)
    BY DEF theFile
  <1>. QED
    BY <1>1, <1>2, <1>3, <1>4 DEF FileFacts

\* and after it.
LEMMA FileBytesNext == MemInv' => FileFacts'
  BY FileBytes, PTL

\* As long as no byte changes the file does not.
LEMMA FileKept ==
    ASSUME MemInv, MemInv', size' = size, quantum' = quantum, qset' = qset, SameAreas(data, data')
    PROVE  theFile' = theFile
  <1>1. quantum \in Nat \ {0} /\ qset \in Nat \ {0} /\ size \in Nat
    BY DEF MemInv, MemTypes
  <1>2. /\ theFile = [i \in 1..size |-> theFile[i]]
        /\ \A i \in 1..size : theFile[i] = ByteAt(data, i - 1, quantum, qset)
    BY FileBytes DEF FileFacts
  <1>3. /\ theFile' = [i \in 1..size |-> theFile'[i]]
        /\ \A i \in 1..size : theFile'[i] = ByteAt(data', i - 1, quantum, qset)
    BY FileBytesNext DEF FileFacts
  <1>4. ASSUME NEW i \in 1..size PROVE theFile'[i] = theFile[i]
    <2>. DEFINE j == i - 1
    <2>1. j \in Nat
      BY <1>1
    <2>. HIDE DEF j
    <2>2. ByteAt(data', j, quantum, qset) = ByteAt(data, j, quantum, qset)
      BY <1>1, <2>1, SameBytes
    <2>. QED
      BY <1>2, <1>3, <2>2 DEF j
  <1>. QED
    BY <1>2, <1>3, <1>4

\* The steps of ScullFile, of this file.
AbsPut(p, n, s) ==
    /\ xfer[p] = None /\ n \in 1..MaxCount /\ s \in [1..n -> Bytes]
    /\ File!Overwrites(theFile, s, pos[p], theFile')
    /\ xfer' = [xfer EXCEPT ![p] = s] /\ pos' = [pos EXCEPT ![p] = @ + n]
    /\ opening' = opening

AbsPutNothing(p) ==
    /\ File!Overwrites(theFile, <<>>, pos[p], theFile')
    /\ pos' = pos /\ opening' = opening /\ xfer' = xfer

AbsPutFault(p, n, s) ==
    /\ n \in 0..MaxCount /\ s \in [1..n -> Bytes]
    /\ Len(theFile') = Len(theFile)
    /\ \A i \in 1..Len(theFile) :
         theFile'[i] = IF i \in pos[p] + 1..pos[p] + n THEN s[i - pos[p]] ELSE theFile[i]
    /\ pos' = pos /\ opening' = opening /\ xfer' = xfer

AbsGet(p, n) ==
    /\ xfer[p] = None /\ n \in 0..MaxCount
    /\ pos[p] + n <= Len(theFile) \/ n = 0
    /\ n = 0 => pos[p] >= Len(theFile) \/ theFile[pos[p] + 1] = Junk
    /\ xfer' = [xfer EXCEPT ![p] = SubSeq(theFile, pos[p] + 1, pos[p] + n)]
    /\ pos' = [pos EXCEPT ![p] = @ + n]
    /\ theFile' = theFile /\ opening' = opening

AbsReturn(p) ==
    /\ xfer' = [xfer EXCEPT ![p] = None]
    /\ theFile' = theFile /\ opening' = opening /\ pos' = pos

AbsSeek(p) ==
    /\ pos'[p] \in Nat /\ pos' = [pos EXCEPT ![p] = pos'[p]]
    /\ theFile' = theFile /\ opening' = opening /\ xfer' = xfer

AbsOpen(p) ==
    /\ opening' \in {opening \cup {p}, opening \ {p}} /\ pos' = pos
    /\ theFile' = theFile /\ xfer' = xfer

AbsTruncate ==
    /\ opening # {} /\ theFile' = <<>>
    /\ pos' = pos /\ opening' = opening /\ xfer' = xfer

AbsNone == theFile' = theFile /\ pos' = pos /\ opening' = opening /\ xfer' = xfer

AbsStep(p) ==
    \/ \E n : \E s : AbsPut(p, n, s) \/ AbsPutFault(p, n, s)
    \/ \E n : AbsGet(p, n)
    \/ AbsPutNothing(p) \/ AbsReturn(p) \/ AbsSeek(p) \/ AbsOpen(p) \/ AbsTruncate

\* Each of them is a step of the file.
LEMMA AbsNext ==
    ASSUME AbsNone \/ \E p \in Procs : AbsStep(p)
    PROVE  [File!FileNext]_(File!fileVars)
  <1>1. CASE AbsNone
    BY <1>1 DEF AbsNone, File!fileVars, theFile, opening
  <1>2. ASSUME NEW p \in Procs, AbsStep(p) PROVE File!FileNext
    <2>1. CASE \E n : \E s : AbsPut(p, n, s)
      BY <2>1, Zenon DEF AbsPut, File!FileNext, File!Put, theFile, opening
    <2>2. CASE \E n : \E s : AbsPutFault(p, n, s)
      BY <2>2, Zenon DEF AbsPutFault, File!FileNext, File!PutFault, theFile, opening
    <2>3. CASE \E n : AbsGet(p, n)
      BY <2>3, Zenon DEF AbsGet, File!FileNext, File!Get, theFile, opening
    <2>4. CASE AbsReturn(p)
      BY <2>4, Zenon DEF AbsReturn, File!FileNext, File!Return, theFile, opening
    <2>5. CASE AbsSeek(p)
      BY <2>5, Zenon DEF AbsSeek, File!FileNext, File!Seek, theFile, opening
    <2>6. CASE AbsOpen(p)
      <3>1. opening' \in {opening \cup {p}, opening \ {p}} /\ pos' \in {pos, [pos EXCEPT ![p] = 0]}
        BY <2>6 DEF AbsOpen
      <3>2. UNCHANGED <<theFile, xfer>>
        BY <2>6 DEF AbsOpen
      <3>3. File!Open(p)
        BY <3>1, <3>2 DEF File!Open, theFile, opening
      <3>. QED
        BY <3>3, Zenon DEF File!FileNext
    <2>7. CASE AbsTruncate
      BY <2>7, Zenon DEF AbsTruncate, File!FileNext, File!Truncate, theFile, opening
    <2>8. CASE AbsPutNothing(p)
      BY <2>8, Zenon DEF AbsPutNothing, File!FileNext, File!PutNothing, theFile, opening
    <2>. QED
      BY <1>2, <2>1, <2>2, <2>3, <2>4, <2>5, <2>6, <2>7, <2>8, Zenon DEF AbsStep
  <1>. QED
    BY <1>1, <1>2

\* opening follows pc.
LEMMA OpeningIs ==
    ASSUME MemTypes, NEW p \in Procs, NEW l, pc' = [pc EXCEPT ![p] = l]
    PROVE  opening' = IF l \in OpenPC THEN opening \cup {p} ELSE opening \ {p}
  BY DEF MemTypes, opening

\* The steps that leave the device alone.
LEMMA FileStepRefines ==
    ASSUME MemInv, MemInv', NEW p \in Procs, FileStep(p)
    PROVE  AbsNone \/ AbsStep(p)
  <1>t. MemTypes /\ MemTypes'
    BY DEF MemInv
  <1>0. UNCHANGED <<quantum, qset, size, data>>
    BY Zenon DEF FileStep, OpenStart, Release, Return, Llseek, Lock, LockInterrupted, ReadStart, WriteStart,
           CopyQuantum, CopyQset, dev
  <1>1. theFile' = theFile
    BY <1>0, FileKept DEF SameAreas
  <1>2. CASE Return(p)
    <2>1. opening' = opening
      BY <1>t, <1>2, OpeningIs DEF Return, Goto, opening, OpenPC
    <2>2. AbsReturn(p)
      BY <1>1, <1>2, <2>1 DEF Return, AbsReturn
    <2>. QED
      BY <2>2 DEF AbsStep
  <1>3. CASE Release(p) \/ Llseek(p)
    <2>1. opening' = opening
      <3>1. CASE Release(p)
        BY <1>t, <3>1, OpeningIs DEF Release, Goto, opening, OpenPC
      <3>2. CASE Llseek(p)
        BY <3>2 DEF Llseek, opening
      <3>. QED
        BY <1>3, <3>1, <3>2
    <2>2. pos'[p] \in Nat
      BY <1>t DEF MemTypes
    <2>3. pos' = [pos EXCEPT ![p] = pos'[p]] /\ xfer' = xfer
      BY <1>t, <1>3 DEF MemTypes, Release, Llseek
    <2>4. AbsSeek(p)
      BY <1>1, <2>1, <2>2, <2>3 DEF AbsSeek
    <2>. QED
      BY <2>4 DEF AbsStep
  <1>4. CASE ~(Return(p) \/ Release(p) \/ Llseek(p))
    <2>1. pos' = pos /\ xfer' = xfer
      BY <1>4, Zenon DEF FileStep, OpenStart, Lock, LockInterrupted, ReadStart, WriteStart, CopyQuantum, CopyQset
    <2>2. PICK l : pc' = [pc EXCEPT ![p] = l]
      BY <1>4, Zenon DEF FileStep, OpenStart, Lock, LockInterrupted, ReadStart, WriteStart, CopyQuantum,
                         CopyQset, Goto
    <2>3. opening' = IF l \in OpenPC THEN opening \cup {p} ELSE opening \ {p}
      BY <1>t, <2>2, OpeningIs
    <2>4. AbsOpen(p)
      BY <1>1, <2>1, <2>3 DEF AbsOpen
    <2>. QED
      BY <2>4 DEF AbsStep
  <1>. QED
    BY <1>2, <1>3, <1>4

\* scull_trim
LEMMA TrimRefines ==
    ASSUME MemInv, MemInv', NEW p \in Procs, Trim(p) \/ TrimQuantum(p) \/ TrimQset(p)
    PROVE  AbsStep(p)
  <1>t. MemTypes
    BY DEF MemInv
  <1>1. pos' = pos /\ xfer' = xfer
    BY DEF Trim, TrimQuantum, TrimQset
  <1>2. size' = 0
    BY DEF MemInv, Trimmed, Trim, TrimQuantum, TrimQset
  <1>3. theFile' = <<>>
    BY <1>2 DEF theFile
  <1>4. CASE Trim(p)
    <2>1. opening' = opening /\ p \in opening
      BY <1>t, <1>4, OpeningIs DEF Trim, Goto, opening, OpenPC
    <2>2. AbsTruncate
      BY <1>1, <1>3, <2>1 DEF AbsTruncate
    <2>. QED
      BY <2>2 DEF AbsStep
  <1>5. CASE TrimQuantum(p) \/ TrimQset(p)
    <2>1. size = 0
      BY <1>5 DEF MemInv, Trimmed, TrimQuantum, TrimQset
    <2>2. theFile = <<>>
      BY <2>1 DEF theFile
    <2>3. PICK l : pc' = [pc EXCEPT ![p] = l]
      BY <1>5, Zenon DEF TrimQuantum, TrimQset, Goto
    <2>4. opening' = IF l \in OpenPC THEN opening \cup {p} ELSE opening \ {p}
      BY <1>t, <2>3, OpeningIs
    <2>5. AbsOpen(p)
      BY <1>1, <1>3, <2>2, <2>4 DEF AbsOpen
    <2>. QED
      BY <2>5 DEF AbsStep
  <1>. QED
    BY <1>4, <1>5

\* What the bodies have in common.
LEMMA BodyOpening ==
    ASSUME MemInv, NEW p \in Procs, BodyStep(p)
    PROVE  /\ opening' = opening /\ quantum' = quantum /\ qset' = qset
           /\ pc[p] \in BodyPC /\ xfer[p] = None /\ pos[p] \in Nat
  <1>1. PICK l \in {"ret", "idle"} : pc' = [pc EXCEPT ![p] = l]
    BY BodyEnds
  <1>2. pc[p] \in BodyPC /\ quantum' = quantum /\ qset' = qset
    BY BodyEnds
  <1>3. opening' = opening
    BY <1>1, <1>2, OpeningIs DEF MemInv, opening, OpenPC, BodyPC
  <1>. QED
    BY <1>2, <1>3 DEF MemInv, MemTypes, BodyPC

\* A read delivers what the file has at its position, or nothing at the end of the file
\* and where nobody has written.
LEMMA EmptyReadRefines ==
    ASSUME MemInv, MemInv', NEW p \in Procs, ReadEof(p) \/ ReadNoMemory(p) \/ ReadHole(p)
    PROVE  AbsGet(p, 0)
  <1>. DEFINE x == pos[p]
  <1>0. BodyStep(p) /\ KeepsAreas(p)
    BY DEF BodyStep, KeepsAreas
  <1>1. /\ opening' = opening /\ quantum' = quantum /\ qset' = qset
        /\ pc[p] \in BodyPC /\ xfer[p] = None /\ x \in Nat
    BY <1>0, BodyOpening
  <1>2. size' = size /\ Finish(p, <<>>)
    BY DEF ReadEof, ReadNoMemory, ReadHole
  <1>3. theFile' = theFile
    BY <1>0, <1>1, <1>2, KeptAreas, FileKept
  <1>4. size \in Nat /\ Len(theFile) = size
    BY FileBytes DEF FileFacts
  <1>5. x < size => theFile[x + 1] = Junk
    <2>. SUFFICES ASSUME x < size PROVE theFile[x + 1] = Junk
      OBVIOUS
    <2>1. theFile[x + 1] = ByteAt(data, x, quantum, qset)
      <3>. DEFINE j == x + 1
      <3>1. j \in 1..size /\ j - 1 = x
        BY <1>1, <1>4
      <3>. HIDE DEF j, x
      <3>2. theFile[j] = ByteAt(data, j - 1, quantum, qset)
        BY <3>1, FileBytes DEF FileFacts
      <3>. QED
        BY <3>1, <3>2 DEF j
    <2>2. AreaAt(data, item(p), s_pos(p)) = <<>>
      <3>1. CASE ReadNoMemory(p)
        <4>1. item(p) \in Nat
          BY <1>1, Body
        <4>2. quantum \in Nat \ {0} /\ qset \in Nat \ {0} /\ Shape(data, quantum, qset)
          BY DEF MemInv, MemTypes
        <4>3. Len(data) \in Nat
          BY <4>2, ShapeTypes
        <4>4. ~(item(p) < Len(data))
          BY <3>1, <4>1, <4>3 DEF ReadNoMemory
        <4>. QED
          BY <4>4 DEF AreaAt
      <3>2. CASE ReadHole(p)
        BY <1>1, <3>2, Found DEF ReadHole
      <3>3. CASE ReadEof(p)
        BY <1>1, <1>4, <3>3 DEF ReadEof
      <3>. QED
        BY <3>1, <3>2, <3>3
    <2>3. ByteAt(data, x, quantum, qset) = Junk
      <3>1. /\ item(p) = ItemOf(x, quantum, qset) /\ s_pos(p) = SetOf(x, quantum, qset)
        BY <1>1, Body
      <3>. QED
        BY <2>2, <3>1 DEF ByteAt
    <2>. QED
      BY <2>1, <2>3
  <1>6. SubSeq(theFile, x + 1, x + 0) = <<>>
    BY <1>1, SubSeqEmpty
  <1>7. xfer' = [xfer EXCEPT ![p] = SubSeq(theFile, x + 1, x + 0)]
    BY <1>2, <1>6, Zenon DEF Finish
  <1>8. pos' = [pos EXCEPT ![p] = @ + 0]
    <2>1. Len(<<>>) = 0
      OBVIOUS
    <2>. QED
      BY <1>2, <2>1, Zenon DEF Finish
  <1>9. 0 \in 0..MaxCount
    BY ParamAssumption
  <1>10. x >= Len(theFile) \/ theFile[x + 1] = Junk
    BY <1>1, <1>4, <1>5
  <1>. QED
    BY <1>1, <1>3, <1>7, <1>8, <1>9, <1>10 DEF AbsGet

\* Where there is an area a read delivers the bytes that the file has there.
LEMMA ReadCopyRefines ==
    ASSUME MemInv, MemInv', NEW p \in Procs, ReadCopy(p)
    PROVE  \E n : AbsGet(p, n)
  <1>. DEFINE x == pos[p]
              y == AreaAt(data, item(p), s_pos(p))
              o == q_pos(p)
  <1>0. BodyStep(p) /\ KeepsAreas(p) /\ size' = size
    BY DEF BodyStep, KeepsAreas, ReadCopy
  <1>1. /\ opening' = opening /\ quantum' = quantum /\ qset' = qset
        /\ pc[p] \in BodyPC /\ xfer[p] = None /\ x \in Nat
    BY <1>0, BodyOpening
  <1>2. theFile' = theFile
    BY <1>0, <1>1, KeptAreas, FileKept
  <1>3. PICK n \in 1..MaxCount :
          /\ n <= quantum - o /\ x + n <= size /\ y # <<>>
          /\ LET b == [k \in 1..n |-> y[o + k]] IN Finish(p, b) /\ Len(b) = n
    BY ReadCopied, Zenon
  <1>4. size \in Nat /\ Len(theFile) = size /\ theFile = [i \in 1..size |-> theFile[i]]
    BY FileBytes DEF FileFacts
  <1>5. n \in Nat /\ n >= 1 /\ n \in 0..MaxCount /\ quantum \in Nat /\ o \in Nat
    BY <1>1, Body, ParamAssumption
  <1>6. ASSUME NEW k \in 1..n PROVE theFile[x + k] = y[o + k]
    <2>. DEFINE j == k - 1
                i == x + k
    <2>1. j \in Nat /\ o + j < quantum /\ i \in 1..size /\ i - 1 = x + j /\ o + j + 1 = o + k
      <3>. HIDE DEF x, o
      <3>. QED
        BY <1>1, <1>3, <1>4, <1>5, SMTT(30)
    <2>. HIDE DEF j, i
    <2>2. ByteAt(data, x + j, quantum, qset) = y[o + j + 1]
      BY <1>1, <1>3, <2>1, ReadBytes
    <2>3. theFile[i] = ByteAt(data, i - 1, quantum, qset)
      BY <2>1, FileBytes DEF FileFacts
    <2>4. theFile[i] = y[o + k]
      BY <2>1, <2>2, <2>3
    <2>. QED
      BY <2>4 DEF i
  <1>. DEFINE b == [k \in 1..n |-> y[o + k]]
              c == SubSeq(theFile, x + 1, x + n)
  <1>. HIDE DEF x, y, o
  <1>7. c = [k \in 1..n |-> theFile[x + k]]
    <2>1. theFile \in Seq({theFile[i] : i \in 1..size})
      <3>. DEFINE S == {theFile[i] : i \in 1..size}
      <3>1. \A i \in 1..size : theFile[i] \in S
        OBVIOUS
      <3>2. DOMAIN theFile = 1..size
        BY FileBytes DEF FileFacts
      <3>. HIDE DEF S
      <3>3. theFile \in Seq(S)
        BY <1>4, <3>1, <3>2, SeqOf
      <3>. QED
        BY <3>3 DEF S
    <2>. DEFINE f == theFile
                S == {theFile[i] : i \in 1..size}
    <2>2. f \in Seq(S) /\ Len(f) = size
      BY <1>4, <2>1
    <2>. HIDE DEF f, S
    <2>3. SubSeq(f, x + 1, x + n) = [k \in 1..n |-> f[x + k]]
      BY <1>1, <1>3, <1>4, <1>5, <2>2, SMTT(30)
    <2>. QED
      BY <2>3 DEF f
  <1>8. c = b
    BY <1>6, <1>7
  <1>9. Finish(p, b) /\ Len(b) = n
    BY <1>3
  <1>. HIDE DEF b, c
  <1>10. xfer' = [xfer EXCEPT ![p] = c] /\ pos' = [pos EXCEPT ![p] = @ + n]
    BY <1>8, <1>9, Zenon DEF Finish
  <1>11. n # 0 /\ x + n <= Len(theFile)
    BY <1>3, <1>4, <1>5
  <1>12. AbsGet(p, n)
    BY <1>1, <1>2, <1>5, <1>10, <1>11 DEF AbsGet, c, x
  <1>. QED
    BY <1>12

\* A call that fails before it has stored a byte, or reads 0 bytes, changes nothing.
LEMMA FailRefines ==
    ASSUME MemInv, MemInv', NEW p \in Procs, ReadNothing(p) \/ WriteNoMemory(p)
    PROVE  AbsNone
  <1>1. BodyStep(p) /\ KeepsAreas(p)
    BY DEF BodyStep, KeepsAreas
  <1>2. size' = size /\ pos' = pos /\ xfer' = xfer
    BY DEF ReadNothing, WriteNoMemory, Leave
  <1>3. opening' = opening /\ quantum' = quantum /\ qset' = qset
    BY <1>1, BodyOpening
  <1>. QED
    BY <1>1, <1>2, <1>3, KeptAreas, FileKept DEF AbsNone

\* The file after a write of the n bytes b: those are at its position, the others are
\* what they were.
LEMMA FileWritten ==
    ASSUME MemInv, MemInv', NEW p \in Procs, pc[p] = "w_body", quantum' = quantum, qset' = qset,
           NEW n \in Nat, n <= quantum - q_pos(p), NEW b, BytesAt(p, n, b)
    PROVE  /\ \A i \in 1..size' :
                theFile'[i] = IF i \in pos[p] + 1..pos[p] + n THEN b[i - pos[p]]
                              ELSE ByteAt(data, i - 1, quantum, qset)
           /\ \A i \in 1..size : theFile[i] = ByteAt(data, i - 1, quantum, qset)
           /\ size \in Nat /\ size' \in Nat /\ Len(theFile) = size /\ Len(theFile') = size'
  <1>. DEFINE x == pos[p]
  <1>1. pc[p] \in BodyPC /\ x \in Nat
    BY Body DEF BodyPC
  <1>3. /\ size \in Nat /\ Len(theFile) = size
        /\ \A i \in 1..size : theFile[i] = ByteAt(data, i - 1, quantum, qset)
    BY FileBytes DEF FileFacts
  <1>4. /\ size' \in Nat /\ Len(theFile') = size'
        /\ \A i \in 1..size' : theFile'[i] = ByteAt(data', i - 1, quantum, qset)
    BY FileBytesNext DEF FileFacts
  <1>5. ASSUME NEW i \in 1..size'
        PROVE  theFile'[i] = IF i \in x + 1..x + n THEN b[i - x] ELSE ByteAt(data, i - 1, quantum, qset)
    <2>. DEFINE j == i - 1
    <2>1. j \in Nat
      BY <1>4
    <2>. HIDE DEF j
    <2>2. ByteAt(data', j, quantum, qset) =
            IF j - x + 1 \in 1..n THEN b[j - x + 1] ELSE ByteAt(data, j, quantum, qset)
      BY <1>1, <2>1, WrittenBytes
    <2>. HIDE DEF x
    <2>3. j - x + 1 = i - x /\ (i - x \in 1..n <=> i \in x + 1..x + n)
      BY <1>1, <1>4 DEF j
    <2>4. theFile'[i] = ByteAt(data', j, quantum, qset)
      BY <1>4 DEF j
    <2>5. theFile'[i] = IF i \in x + 1..x + n THEN b[i - x] ELSE ByteAt(data, j, quantum, qset)
      BY <2>2, <2>3, <2>4
    <2>. QED
      BY <2>5 DEF j
  <1>. QED
    BY <1>3, <1>4, <1>5

\* A write stores its bytes in the file, which grows as far as they reach.
LEMMA WriteCopyRefines ==
    ASSUME MemInv, MemInv', NEW p \in Procs, WriteCopy(p)
    PROVE  \E n : \E b : AbsPut(p, n, b)
  <1>. DEFINE x == pos[p]
  <1>0. pc[p] = "w_body" /\ BodyStep(p)
    BY DEF WriteCopy, BodyStep
  <1>1. /\ opening' = opening /\ quantum' = quantum /\ qset' = qset /\ pc[p] \in BodyPC
        /\ xfer[p] = None /\ x \in Nat
    BY <1>0, BodyOpening
  <1>2. /\ quantum \in Nat \ {0} /\ lquantum[p] = quantum /\ q_pos(p) \in Nat /\ q_pos(p) < quantum
        /\ MaxCount \in Nat \ {0} /\ MaxPos \in Nat
    BY <1>1, Body, ParamAssumption
  <1>3. PICK c \in 1..min(MaxCount, MaxPos - x) :
          \E b \in [1..min(c, lquantum[p] - q_pos(p)) -> Bytes] :
            /\ BytesSet(prepared(p), data', item(p), s_pos(p), q_pos(p), b)
            /\ size' = max(size, x + Len(b)) /\ Finish(p, b)
    BY Zenon DEF WriteCopy, BytesSet
  <1>. DEFINE n == min(c, lquantum[p] - q_pos(p))
  <1>4. n \in 1..MaxCount /\ n <= quantum - q_pos(p) /\ n \in Nat
    BY <1>1, <1>2, <1>3 DEF min
  <1>5. PICK b \in [1..n -> Bytes] :
          /\ BytesSet(prepared(p), data', item(p), s_pos(p), q_pos(p), b)
          /\ size' = max(size, x + Len(b)) /\ Finish(p, b)
    BY <1>3
  <1>. HIDE DEF n
  <1>6. Len(b) = n
    BY <1>4, <1>5
  <1>7. /\ \A i \in 1..size' :
             theFile'[i] = IF i \in x + 1..x + n THEN b[i - x] ELSE ByteAt(data, i - 1, quantum, qset)
        /\ \A i \in 1..size : theFile[i] = ByteAt(data, i - 1, quantum, qset)
        /\ size \in Nat /\ size' \in Nat /\ Len(theFile) = size /\ Len(theFile') = size'
    <2>1. BytesAt(p, n, b)
      BY <1>0, <1>4, <1>5, StoredBytes
    <2>. QED
      BY <1>0, <1>1, <1>4, <2>1, FileWritten
  <1>. HIDE DEF x
  <1>8. Len(theFile') = IF Len(theFile) >= x + Len(b) THEN Len(theFile) ELSE x + Len(b)
    BY <1>1, <1>4, <1>5, <1>6, <1>7 DEF max
  <1>9. \A i \in 1..Len(theFile') :
          IF i \in x + 1..x + Len(b) THEN theFile'[i] = b[i - x]
          ELSE i <= Len(theFile) => theFile'[i] = theFile[i]
    BY <1>6, <1>7
  <1>10. File!Overwrites(theFile, b, x, theFile')
    BY <1>8, <1>9, Zenon DEF File!Overwrites
  <1>11. xfer' = [xfer EXCEPT ![p] = b] /\ pos' = [pos EXCEPT ![p] = @ + n]
    BY <1>5, <1>6, Zenon DEF Finish
  <1>12. AbsPut(p, n, b)
    BY <1>1, <1>4, <1>5, <1>10, <1>11, Zenon DEF AbsPut, x
  <1>. QED
    BY <1>12

\* A write that faults leaves some of its bytes in the file, whose length stays.
LEMMA WriteFaultRefines ==
    ASSUME MemInv, MemInv', NEW p \in Procs, WriteFault(p)
    PROVE  \E n : \E b : AbsPutFault(p, n, b)
  <1>. DEFINE x == pos[p]
  <1>0. pc[p] = "w_body" /\ BodyStep(p) /\ Leave(p) /\ size' = size
    BY DEF WriteFault, BodyStep
  <1>1. opening' = opening /\ quantum' = quantum /\ qset' = qset /\ pc[p] \in BodyPC /\ x \in Nat
    BY <1>0, BodyOpening
  <1>2. size' = size /\ pos' = pos /\ xfer' = xfer
    BY <1>0 DEF Leave
  <1>3. /\ quantum \in Nat \ {0} /\ lquantum[p] = quantum /\ q_pos(p) \in Nat /\ q_pos(p) < quantum
        /\ MaxCount \in Nat \ {0}
    BY <1>1, Body, ParamAssumption
  <1>4. PICK n \in 0..min(MaxCount, lquantum[p] - q_pos(p)) - 1 : \E b \in [1..n -> Bytes] :
          BytesSet(prepared(p), data', item(p), s_pos(p), q_pos(p), b)
    BY Zenon DEF WriteFault, BytesSet
  <1>5. n \in 0..MaxCount /\ n <= quantum - q_pos(p) /\ n \in Nat
    BY <1>3, <1>4 DEF min
  <1>6. PICK b \in [1..n -> Bytes] : BytesSet(prepared(p), data', item(p), s_pos(p), q_pos(p), b)
    BY <1>4
  <1>7. /\ \A i \in 1..size' :
             theFile'[i] = IF i \in x + 1..x + n THEN b[i - x] ELSE ByteAt(data, i - 1, quantum, qset)
        /\ \A i \in 1..size : theFile[i] = ByteAt(data, i - 1, quantum, qset)
        /\ size \in Nat /\ size' \in Nat /\ Len(theFile) = size /\ Len(theFile') = size'
    <2>1. BytesAt(p, n, b)
      BY <1>0, <1>5, <1>6, StoredBytes
    <2>. QED
      BY <1>0, <1>1, <1>5, <2>1, FileWritten
  <1>8. \A i \in 1..Len(theFile) :
          theFile'[i] = IF i \in x + 1..x + n THEN b[i - x] ELSE theFile[i]
    BY <1>2, <1>7
  <1>9. AbsPutFault(p, n, b)
    BY <1>1, <1>2, <1>5, <1>6, <1>7, <1>8 DEF AbsPutFault
  <1>. QED
    BY <1>9

\* A write of 0 bytes only lengthens a file that ends before its position.
LEMMA WriteNothingRefines ==
    ASSUME MemInv, MemInv', NEW p \in Procs, WriteNothing(p)
    PROVE  AbsPutNothing(p)
  <1>. DEFINE x == pos[p]
  <1>0. pc[p] = "w_body" /\ BodyStep(p) /\ Leave(p) /\ size' = max(size, x) /\ data' = prepared(p)
    BY DEF WriteNothing, BodyStep
  <1>1. opening' = opening /\ quantum' = quantum /\ qset' = qset /\ pc[p] \in BodyPC /\ x \in Nat
    BY <1>0, BodyOpening
  <1>2. pos' = pos /\ xfer' = xfer
    BY <1>0 DEF Leave
  <1>3. quantum \in Nat \ {0} /\ q_pos(p) \in Nat /\ q_pos(p) < quantum
    BY <1>1, Body
  <1>4. /\ \A i \in 1..size' :
             theFile'[i] = IF i \in x + 1..x + 0 THEN <<>>[i - x] ELSE ByteAt(data, i - 1, quantum, qset)
        /\ \A i \in 1..size : theFile[i] = ByteAt(data, i - 1, quantum, qset)
        /\ size \in Nat /\ size' \in Nat /\ Len(theFile) = size /\ Len(theFile') = size'
    <2>1. BytesAt(p, 0, <<>>)
      BY <1>0, StoredNothing
    <2>2. 0 \in Nat /\ 0 <= quantum - q_pos(p)
      BY <1>3
    <2>. QED
      BY <1>0, <1>1, <2>1, <2>2, FileWritten
  <1>. HIDE DEF x
  <1>5. Len(<<>>) = 0 /\ x + 0 = x /\ x + 1..x = {}
    BY <1>1
  <1>6. Len(theFile') = IF Len(theFile) >= x + Len(<<>>) THEN Len(theFile) ELSE x + Len(<<>>)
    BY <1>0, <1>1, <1>4, <1>5 DEF max
  <1>7. \A i \in 1..Len(theFile') :
          IF i \in x + 1..x + Len(<<>>) THEN theFile'[i] = <<>>[i - x]
          ELSE i <= Len(theFile) => theFile'[i] = theFile[i]
    BY <1>4, <1>5
  <1>8. File!Overwrites(theFile, <<>>, x, theFile')
    BY <1>6, <1>7, Zenon DEF File!Overwrites
  <1>. QED
    BY <1>1, <1>2, <1>8, Zenon DEF AbsPutNothing, x

\* Every step of the device is a step of the file, or none.
LEMMA MemRefines ==
    ASSUME MemInv, MemInv', [Next /\ QuietReshape]_vars
    PROVE  [File!FileNext]_(File!fileVars)
  <1>1. CASE UNCHANGED vars
    BY <1>1, FileKept, AbsNext DEF vars, dev, SameAreas, AbsNone, opening
  <1>2. CASE Ioctl
    BY <1>2, FileKept, AbsNext DEF Ioctl, dev, SameAreas, AbsNone, opening
  <1>3. ASSUME NEW p \in Procs,
               Open(p) \/ Release(p) \/ Read(p) \/ Write(p) \/ Return(p) \/ Llseek(p)
        PROVE  [File!FileNext]_(File!fileVars)
    <2>1. CASE FileStep(p)
      BY <2>1, FileStepRefines, AbsNext
    <2>2. CASE Trim(p) \/ TrimQuantum(p) \/ TrimQset(p)
      BY <2>2, TrimRefines, AbsNext
    <2>3. CASE ReadEof(p) \/ ReadNoMemory(p) \/ ReadHole(p)
      <3>1. AbsStep(p)
        BY <2>3, EmptyReadRefines, Zenon DEF AbsStep
      <3>. QED
        BY <3>1, AbsNext
    <2>4. CASE ReadCopy(p)
      <3>1. AbsStep(p)
        BY <2>4, ReadCopyRefines, Zenon DEF AbsStep
      <3>. QED
        BY <3>1, AbsNext
    <2>5. CASE ReadNothing(p) \/ WriteNoMemory(p)
      BY <2>5, FailRefines, AbsNext
    <2>6. CASE WriteCopy(p)
      <3>1. AbsStep(p)
        BY <2>6, WriteCopyRefines, Zenon DEF AbsStep
      <3>. QED
        BY <3>1, AbsNext
    <2>7. CASE WriteFault(p)
      <3>1. AbsStep(p)
        BY <2>7, WriteFaultRefines, Zenon DEF AbsStep
      <3>. QED
        BY <3>1, AbsNext
    <2>8. CASE WriteNothing(p)
      <3>1. AbsStep(p)
        BY <2>8, WriteNothingRefines, Zenon DEF AbsStep
      <3>. QED
        BY <3>1, AbsNext
    <2>. QED
      BY <1>3, <2>1, <2>2, <2>3, <2>4, <2>5, <2>6, <2>7, <2>8, MemSteps DEF BodyStep, KeepsAreas
  <1>. QED
    BY <1>1, <1>2, <1>3 DEF Next

\* An empty device is an empty file.
LEMMA MemInitRefines == Init => File!FileInit
  <1>. SUFFICES ASSUME Init PROVE File!FileInit
    OBVIOUS
  <1>1. [i \in 1..size |-> byteAt(i - 1)] = <<>>
    <2>1. size = 0
      BY DEF Init
    <2>2. theFile = <<>>
      BY <2>1 DEF theFile
    <2>. QED
      BY <2>2 DEF theFile
  <1>2. {p \in Procs : pc[p] \in OpenPC} = {}
    BY DEF Init, OpenPC
  <1>. QED
    BY <1>1, <1>2 DEF Init, File!FileInit

\* The quantum sets are one array of bytes, for any quantum and qset: every step of a
\* device whose users reshape it only in quiet is a step of ScullFile seen through the
\* abstraction function byteAt, or changes nothing of the file.
THEOREM MemFile == QuietSpec => FileRefined
  <1>1. QuietSpec => []MemInv
    BY MemInitInv, MemNextInv, PTL DEF QuietSpec
  <1>. QED
    BY <1>1, MemInitRefines, MemRefines, PTL DEF QuietSpec, FileRefined, File!FileSpec
====
