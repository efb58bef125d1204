--------------------------- MODULE Ae7LayoutProofs ---------------------------
(***************************************************************************)
(* The layout of a movie file, for every movie, sprite, set of keys and    *)
(* alignment whose file is shorter than 10 ^ 11 bytes: the header loop     *)
(* settles within its rounds, what is completed the parser accepts, and a  *)
(* file is completed whenever the catalogue has the room that LineGuess    *)
(* and the rounds of its loop give it.                                     *)
(***************************************************************************)
EXTENDS Ae7Layout, FiniteSetTheorems, WellFoundedInduction, TLAPS

\* A set of numbers with a member has a least one.
LEMMA LeastNat ==
  ASSUME NEW T \in SUBSET Nat, T # {}
  PROVE  \E m \in T : \A k \in T : m <= k
<1> DEFINE R == OpToRel(<, Nat)
<1>1. IsWellFoundedOn(R, Nat)
  BY NatLessThanWellFounded
<1>2. \A x, y \in Nat : x < y => <<x, y>> \in R
  BY Zenon DEF OpToRel
<1> HIDE DEF R
<1>3. PICK m \in T : \A y \in T : <<y, m>> \notin R
  BY <1>1, WFMin
<1>4. \A k \in T : k \in Nat /\ m \in Nat /\ ~ (k < m)
  BY <1>2, <1>3
<1>5. QED
  BY <1>3, <1>4

-----------------------------------------------------------------------------

(* Numerals.                                                               *)

\* The numbers that Digits is defined for, 10 ^ 11.
Limit == 10 ^ 11

\* The numbers that are printed.
Printed == 0 .. Limit - 1

\* The powers that bound the numerals of a length, as a table.
LEMMA PowersOfTen ==
  \E p \in [0 .. 11 -> Nat] :
    /\ \A d \in 0 .. 11 : 10 ^ d = p[d]
    /\ p[0] = 1
    /\ \A d \in 1 .. 11 : p[d] = 10 * p[d - 1]
    /\ \A d, e \in 0 .. 11 : d <= e => p[d] <= p[e]
<1> DEFINE p == [d \in 0 .. 11 |-> 10 ^ d]
<1>1. /\ 10 ^ 0 = 1 /\ 10 ^ 1 = 10 /\ 10 ^ 2 = 100 /\ 10 ^ 3 = 1000
      /\ 10 ^ 4 = 10000 /\ 10 ^ 5 = 100000 /\ 10 ^ 6 = 1000000
      /\ 10 ^ 7 = 10000000 /\ 10 ^ 8 = 100000000
  BY SMT
<1>2. 10 ^ 9 = 1000000000 /\ 10 ^ 10 = 10000000000 /\ 10 ^ 11 = 100000000000
  BY SMT
<1>3. /\ p[0] = 10 ^ 0 /\ p[1] = 10 ^ 1 /\ p[2] = 10 ^ 2 /\ p[3] = 10 ^ 3
      /\ p[4] = 10 ^ 4 /\ p[5] = 10 ^ 5 /\ p[6] = 10 ^ 6 /\ p[7] = 10 ^ 7
      /\ p[8] = 10 ^ 8 /\ p[9] = 10 ^ 9 /\ p[10] = 10 ^ 10 /\ p[11] = 10 ^ 11
  BY SMT
<1>4. \A d \in 0 .. 11 : 10 ^ d = p[d]
  OBVIOUS
<1>5. DOMAIN p = 0 .. 11 /\ p = [d \in 0 .. 11 |-> p[d]]
  OBVIOUS
<1> HIDE DEF p
<1>6. /\ p[0] = 1 /\ p[1] = 10 /\ p[2] = 100 /\ p[3] = 1000
      /\ p[4] = 10000 /\ p[5] = 100000 /\ p[6] = 1000000
      /\ p[7] = 10000000 /\ p[8] = 100000000
      /\ p[9] = 1000000000 /\ p[10] = 10000000000 /\ p[11] = 100000000000
  BY <1>1, <1>2, <1>3, SMT
<1>7. \A d \in 0 .. 11 : p[d] \in Nat
  BY <1>6, SMT
<1>8. \A d \in 1 .. 11 : p[d] = 10 * p[d - 1]
  BY <1>6, SMT
<1>9. \A d, e \in 0 .. 11 : d <= e => p[d] <= p[e]
  BY <1>6, SMT
<1>10. p \in [0 .. 11 -> Nat]
  BY <1>5, <1>7
<1>11. p[0] = 1
  BY <1>6, SMT
<1>12. QED
  BY <1>4, <1>8, <1>9, <1>10, <1>11

\* What the length of a numeral says of the number.
LEMMA DigitsBound ==
  ASSUME Base = 10, NEW n \in Printed, NEW p \in [0 .. 11 -> Nat],
         \A d \in 0 .. 11 : 10 ^ d = p[d],
         \A d, e \in 0 .. 11 : d <= e => p[d] <= p[e]
  PROVE  /\ Digits(n) \in 1 .. 11
         /\ n < p[Digits(n)]
         /\ Digits(n) = 1 \/ n >= p[Digits(n) - 1]
<1> DEFINE Has(d) == n < 10 ^ d /\ (d = 1 \/ n >= 10 ^ (d - 1))
<1>1. n \in Nat /\ n < p[11]
  BY DEF Printed, Limit
<1>2. \E d \in 1 .. 12 : Has(d)
  <2> DEFINE Above == {d \in 1 .. 11 : n < p[d]}
  <2>1. 11 \in Above
    BY <1>1
  <2>2. PICK d \in Above : \A e \in Above : d <= e
    BY <2>1, LeastNat
  <2>3. d = 1 \/ n >= p[d - 1]
    BY <1>1, <2>2
  <2>4. d \in 0 .. 11 /\ d - 1 \in 0 .. 11 /\ d \in 1 .. 12
    BY <2>2
  <2>5. 10 ^ d = p[d] /\ 10 ^ (d - 1) = p[d - 1]
    BY <2>4
  <2>6. n < 10 ^ d /\ (d = 1 \/ n >= 10 ^ (d - 1)) /\ d \in 1 .. 12
    BY <2>2, <2>3, <2>4, <2>5
  <2>7. QED
    BY <2>6
<1>3. Digits(n) = CHOOSE d \in 1 .. 12 : Has(d)
  BY DEF Digits
<1> HIDE DEF Has
<1>4. Digits(n) \in 1 .. 12 /\ Has(Digits(n))
  BY <1>2, <1>3
<1> DEFINE d == Digits(n)
<1>5. d \in 1 .. 12 /\ n < 10 ^ d /\ (d = 1 \/ n >= 10 ^ (d - 1))
  BY <1>4 DEF Has
<1> HIDE DEF d
<1>6. d # 12
  <2> SUFFICES ASSUME d = 12 PROVE FALSE
    OBVIOUS
  <2>1. d - 1 = 11 /\ d - 1 \in 0 .. 11 /\ d # 1
    OBVIOUS
  <2>2. 10 ^ (d - 1) = p[d - 1]
    BY <2>1
  <2>3. 10 ^ (d - 1) = p[11]
    BY <2>1, <2>2, Zenon
  <2>4. n >= 10 ^ (d - 1)
    BY <1>5, <2>1
  <2>5. QED
    BY <1>1, <2>3, <2>4
<1>7. d \in 1 .. 11 /\ d - 1 \in 0 .. 11 /\ d \in 0 .. 11
  BY <1>5, <1>6
<1>8. 10 ^ d = p[d] /\ 10 ^ (d - 1) = p[d - 1]
  BY <1>7
<1>9. d \in 1 .. 11 /\ n < p[d] /\ (d = 1 \/ n >= p[d - 1])
  BY <1>5, <1>7, <1>8
<1>10. QED
  BY <1>9 DEF d

\* A greater number has no shorter numeral, and one that is greater by less
\* than 90 at most one digit more.
LEMMA DigitsGrow ==
  ASSUME Base = 10, NEW m \in Printed, NEW n \in Printed, m <= n
  PROVE  /\ Digits(m) \in 1 .. 11 /\ Digits(n) \in 1 .. 11
         /\ Digits(m) <= Digits(n)
         /\ n <= m + 89 => Digits(n) <= Digits(m) + 1
<1> DEFINE d == Digits(m)
           e == Digits(n)
<1>1. PICK p \in [0 .. 11 -> Nat] :
        /\ \A c \in 0 .. 11 : 10 ^ c = p[c]
        /\ p[0] = 1
        /\ \A c \in 1 .. 11 : p[c] = 10 * p[c - 1]
        /\ \A b, c \in 0 .. 11 : b <= c => p[b] <= p[c]
  BY PowersOfTen
<1>2. /\ d \in 1 .. 11 /\ m < p[d] /\ (d = 1 \/ m >= p[d - 1])
      /\ e \in 1 .. 11 /\ n < p[e] /\ (e = 1 \/ n >= p[e - 1])
  BY <1>1, DigitsBound
<1> HIDE DEF d, e
<1>3. m \in Nat /\ n \in Nat
  BY DEF Printed, Limit
<1>4. d <= e
  <2> SUFFICES ASSUME e < d PROVE FALSE
    BY <1>2
  <2>1. d - 1 \in 0 .. 11 /\ e \in 0 .. 11 /\ e <= d - 1
    BY <1>2
  <2>2. p[e] <= p[d - 1] /\ p[e] \in Nat /\ p[d - 1] \in Nat
    BY <1>1, <2>1
  <2>3. QED
    BY <1>2, <1>3, <2>2
<1>5. ASSUME n <= m + 89
      PROVE  e <= d + 1
  <2> SUFFICES ASSUME d + 1 < e PROVE FALSE
    BY <1>2
  <2>1. /\ d \in 1 .. 11 /\ d + 1 \in 1 .. 11 /\ (d + 1) - 1 = d
        /\ d + 1 \in 0 .. 11 /\ e - 1 \in 0 .. 11 /\ d + 1 <= e - 1
        /\ 1 \in 0 .. 11 /\ d \in 0 .. 11 /\ 1 <= d /\ 1 \in 1 .. 11
    BY <1>2
  <2>2. p[1] = 10
    BY <1>1, <2>1
  <2>3. /\ p[d + 1] = 10 * p[d] /\ p[d + 1] <= p[e - 1] /\ 10 <= p[d]
        /\ p[d] \in Nat /\ p[e - 1] \in Nat
    BY <1>1, <2>1, <2>2
  <2>4. n >= p[e - 1] /\ m < p[d]
    BY <1>2
  <2> QED
    BY <1>3, <1>5, <2>3, <2>4
<1>6. QED
  BY <1>2, <1>4, <1>5 DEF d, e

-----------------------------------------------------------------------------

(* The sum of a sequence: FoldSeq as a function of the sets of places that *)
(* have still to be added.                                                 *)

\* The place that is added next.
PlaceIn(s) == CHOOSE i \in s : TRUE

Sums(it, f) ==
  it = [s \in SUBSET DOMAIN f |->
          IF s = {} THEN 0 ELSE f[PlaceIn(s)] + it[s \ {PlaceIn(s)}]]

\* The same for the sets of at most k places.
SumsUpTo(it, f, k) ==
  \A s \in SUBSET DOMAIN f :
    Cardinality(s) <= k =>
      /\ it[s] \in Nat
      /\ it[s] = IF s = {} THEN 0 ELSE f[PlaceIn(s)] + it[s \ {PlaceIn(s)}]

\* What taking one place out of a set does to its size.
LEMMA OnePlaceLess ==
  ASSUME NEW D, IsFiniteSet(D), NEW s \in SUBSET D
  PROVE  /\ Cardinality(s) \in Nat
         /\ s # {} => /\ PlaceIn(s) \in s
                      /\ s \ {PlaceIn(s)} \in SUBSET D
                      /\ Cardinality(s \ {PlaceIn(s)}) = Cardinality(s) - 1
                      /\ Cardinality(s) > 0
<1>1. IsFiniteSet(s)
  BY FS_Subset
<1>2. s # {} => PlaceIn(s) \in s
  BY DEF PlaceIn
<1>3. Cardinality(s) \in Nat /\ (Cardinality(s) = 0 <=> s = {})
  BY <1>1, FS_CardinalityType, FS_EmptySet
<1>4. ASSUME s # {}
      PROVE  Cardinality(s \ {PlaceIn(s)}) = Cardinality(s) - 1
  BY <1>1, <1>2, <1>4, FS_RemoveElement
<1>5. QED
  BY <1>2, <1>3, <1>4

\* There is such a function.
LEMMA SumsExist ==
  ASSUME NEW f, IsFiniteSet(DOMAIN f), \A i \in DOMAIN f : f[i] \in Nat
  PROVE  \E it : Sums(it, f)
<1> DEFINE D == DOMAIN f
           Has(k) == \E it : SumsUpTo(it, f, k)
           Lacks == {k \in Nat : ~ Has(k)}
<1>1. \A k \in Nat : Has(k)
  <2> SUFFICES ASSUME Lacks # {} PROVE FALSE
    OBVIOUS
  <2>1. PICK m \in Lacks : \A k \in Lacks : m <= k
    BY LeastNat
  <2>2. Has(0)
    <3>1. SumsUpTo([s \in SUBSET D |-> 0], f, 0)
      <4>1. ASSUME NEW s \in SUBSET D, Cardinality(s) <= 0
            PROVE  s = {}
        <5>1. /\ Cardinality(s) \in Nat
              /\ s # {} => Cardinality(s) > 0
          BY OnePlaceLess
        <5>2. QED
          BY <4>1, <5>1
      <4>2. QED
        BY <4>1 DEF SumsUpTo
    <3>2. QED
      BY <3>1
  <2>3. m # 0 /\ m - 1 \in Nat /\ ~ (m <= m - 1)
    BY <2>1, <2>2
  <2>4. PICK g : SumsUpTo(g, f, m - 1)
    BY <2>1, <2>3
  <2> DEFINE h == [s \in SUBSET D |->
                     IF s = {} THEN 0 ELSE f[PlaceIn(s)] + g[s \ {PlaceIn(s)}]]
  <2>5. SumsUpTo(h, f, m)
    <3> SUFFICES ASSUME NEW s \in SUBSET D, Cardinality(s) <= m
                 PROVE  /\ h[s] \in Nat
                        /\ h[s] = IF s = {} THEN 0
                                  ELSE f[PlaceIn(s)] + h[s \ {PlaceIn(s)}]
      BY DEF SumsUpTo
    <3>1. CASE s = {}
      BY <3>1
    <3>2. CASE s # {}
      <4> DEFINE r == s \ {PlaceIn(s)}
      <4>1. /\ r \in SUBSET D /\ Cardinality(r) <= m - 1 /\ PlaceIn(s) \in D
        BY <2>3, <3>2, OnePlaceLess
      <4>2. g[r] \in Nat /\ h[r] = g[r]
        BY <2>4, <4>1 DEF SumsUpTo
      <4>3. h[s] = f[PlaceIn(s)] + g[r]
        BY <3>2
      <4>4. QED
        BY <3>2, <4>1, <4>2, <4>3
    <3>3. QED
      BY <3>1, <3>2
  <2>6. QED
    BY <2>1, <2>5
<1>2. Cardinality(D) \in Nat
  BY FS_CardinalityType
<1>3. PICK g : SumsUpTo(g, f, Cardinality(D))
  BY <1>1, <1>2
<1> DEFINE it == [s \in SUBSET D |-> g[s]]
<1>4. Sums(it, f)
  <2>1. \A s \in SUBSET D : Cardinality(s) <= Cardinality(D)
    BY FS_Subset
  <2>2. ASSUME NEW s \in SUBSET D
        PROVE  g[s] = IF s = {} THEN 0 ELSE f[PlaceIn(s)] + it[s \ {PlaceIn(s)}]
    BY <1>3, <2>1, <2>2 DEF SumsUpTo
  <2> HIDE DEF it
  <2>3. it = [s \in SUBSET D |-> g[s]]
    BY DEF it
  <2>4. QED
    BY <2>2, <2>3 DEF Sums
<1>5. QED
  BY <1>4

\* SumOf is what the whole set of places adds up to.
LEMMA SumIs ==
  ASSUME NEW f, IsFiniteSet(DOMAIN f), \A i \in DOMAIN f : f[i] \in Nat
  PROVE  \E it : Sums(it, f) /\ SumOf(f) = it[DOMAIN f]
<1> DEFINE it == CHOOSE it : Sums(it, f)
<1>1. Sums(it, f)
  BY SumsExist
<1>2. SumOf(f) = it[DOMAIN f]
  BY DEF SumOf, FoldSeq, FoldFunction, FoldFunctionOnSet, MapThenFoldSet, Sums,
         PlaceIn
<1>3. QED
  BY <1>1, <1>2

\* The places of s hold that many numbers, none of them more than its sum.
LEMMA SumBounds ==
  ASSUME NEW f, IsFiniteSet(DOMAIN f), \A i \in DOMAIN f : f[i] \in Nat,
         NEW it, Sums(it, f), NEW s \in SUBSET DOMAIN f
  PROVE  /\ it[s] \in Nat
         /\ \A i \in s : f[i] <= it[s]
<1> DEFINE D == DOMAIN f
           Good(r) == it[r] \in Nat /\ \A i \in r : f[i] <= it[r]
           Bad == {k \in Nat : \E r \in SUBSET D : Cardinality(r) = k /\ ~ Good(r)}
<1>1. SUFFICES ASSUME ~ Good(s) PROVE FALSE
  OBVIOUS
<1>2. Cardinality(s) \in Bad
  BY <1>1, OnePlaceLess
<1>3. PICK m \in Bad : \A k \in Bad : m <= k
  BY <1>2, LeastNat
<1>4. PICK r \in SUBSET D : Cardinality(r) = m /\ ~ Good(r)
  BY <1>3
<1>5. it[r] = IF r = {} THEN 0 ELSE f[PlaceIn(r)] + it[r \ {PlaceIn(r)}]
  BY DEF Sums
<1>6. r # {}
  BY <1>4, <1>5
<1> DEFINE q == r \ {PlaceIn(r)}
<1>7. /\ q \in SUBSET D /\ Cardinality(q) = m - 1 /\ m > 0 /\ PlaceIn(r) \in r
  BY <1>4, <1>6, OnePlaceLess
<1>8. Good(q)
  <2>1. m - 1 \in Nat /\ ~ (m <= m - 1)
    BY <1>3, <1>7
  <2>2. m - 1 \notin Bad
    BY <1>3, <2>1
  <2>3. QED
    BY <1>7, <2>1, <2>2
<1>9. it[r] = f[PlaceIn(r)] + it[q] /\ f[PlaceIn(r)] \in Nat /\ it[q] \in Nat
  BY <1>5, <1>6, <1>7, <1>8
<1>10. \A i \in r : i = PlaceIn(r) \/ i \in q
  OBVIOUS
<1>11. \A i \in q : f[i] <= it[q] /\ f[i] \in Nat
  BY <1>7, <1>8
<1> HIDE DEF q
<1>12. \A i \in r : f[i] <= it[r]
  BY <1>9, <1>10, <1>11
<1>13. QED
  BY <1>4, <1>9, <1>12

\* A sum of terms that are each c or more.
LEMMA SumAtLeast ==
  ASSUME NEW f, IsFiniteSet(DOMAIN f), NEW c \in Nat,
         \A i \in DOMAIN f : f[i] \in Nat /\ f[i] >= c,
         NEW it, Sums(it, f), NEW s \in SUBSET DOMAIN f
  PROVE  it[s] >= c * Cardinality(s)
<1> DEFINE D == DOMAIN f
           Good(r) == it[r] >= c * Cardinality(r)
           Bad == {k \in Nat : \E r \in SUBSET D : Cardinality(r) = k /\ ~ Good(r)}
<1>1. SUFFICES ASSUME ~ Good(s) PROVE FALSE
  OBVIOUS
<1>2. Cardinality(s) \in Bad
  BY <1>1, OnePlaceLess
<1>3. PICK m \in Bad : \A k \in Bad : m <= k
  BY <1>2, LeastNat
<1>4. PICK r \in SUBSET D : Cardinality(r) = m /\ ~ Good(r)
  BY <1>3
<1>5. it[r] = IF r = {} THEN 0 ELSE f[PlaceIn(r)] + it[r \ {PlaceIn(r)}]
  BY DEF Sums
<1>6. r # {}
  <2> SUFFICES ASSUME r = {} PROVE FALSE
    OBVIOUS
  <2>1. Cardinality(r) = 0
    BY FS_EmptySet
  <2>2. QED
    BY <1>4, <1>5, <2>1
<1> DEFINE q == r \ {PlaceIn(r)}
<1>7. /\ q \in SUBSET D /\ Cardinality(q) = m - 1 /\ m > 0 /\ PlaceIn(r) \in r
  BY <1>4, <1>6, OnePlaceLess
<1>8. Good(q)
  <2>1. m - 1 \in Nat /\ ~ (m <= m - 1)
    BY <1>3, <1>7
  <2>2. m - 1 \notin Bad
    BY <1>3, <2>1
  <2>3. QED
    BY <1>7, <2>1, <2>2
<1>9. /\ it[r] = f[PlaceIn(r)] + it[q] /\ f[PlaceIn(r)] \in Nat
      /\ f[PlaceIn(r)] >= c /\ it[q] >= c * (m - 1)
  BY <1>5, <1>6, <1>7, <1>8
<1>10. it[q] \in Nat
  BY <1>7, SumBounds
<1> HIDE DEF q
<1>11. it[r] >= c * m
  <2>1. c * m = c * (m - 1) + c /\ c * (m - 1) \in Nat /\ m \in Nat
    BY <1>3, <1>7
  <2>2. QED
    BY <1>9, <1>10, <2>1
<1>12. QED
  BY <1>4, <1>11

\* Greater terms have a greater sum.
LEMMA SumGrows ==
  ASSUME NEW f, NEW g, DOMAIN f = DOMAIN g, IsFiniteSet(DOMAIN f),
         \A i \in DOMAIN f : f[i] \in Nat /\ g[i] \in Nat /\ f[i] <= g[i],
         NEW it, Sums(it, f), NEW ig, Sums(ig, g), NEW s \in SUBSET DOMAIN f
  PROVE  it[s] <= ig[s]
<1> DEFINE D == DOMAIN f
           Good(r) == it[r] <= ig[r]
           Bad == {k \in Nat : \E r \in SUBSET D : Cardinality(r) = k /\ ~ Good(r)}
<1>1. SUFFICES ASSUME ~ Good(s) PROVE FALSE
  OBVIOUS
<1>2. Cardinality(s) \in Bad
  BY <1>1, OnePlaceLess
<1>3. PICK m \in Bad : \A k \in Bad : m <= k
  BY <1>2, LeastNat
<1>4. PICK r \in SUBSET D : Cardinality(r) = m /\ ~ Good(r)
  BY <1>3
<1>5. /\ it[r] = IF r = {} THEN 0 ELSE f[PlaceIn(r)] + it[r \ {PlaceIn(r)}]
      /\ ig[r] = IF r = {} THEN 0 ELSE g[PlaceIn(r)] + ig[r \ {PlaceIn(r)}]
  BY DEF Sums
<1>6. r # {}
  BY <1>4, <1>5
<1> DEFINE q == r \ {PlaceIn(r)}
<1>7. /\ q \in SUBSET D /\ Cardinality(q) = m - 1 /\ m > 0 /\ PlaceIn(r) \in r
  BY <1>4, <1>6, OnePlaceLess
<1>8. Good(q)
  <2>1. m - 1 \in Nat /\ ~ (m <= m - 1)
    BY <1>3, <1>7
  <2>2. m - 1 \notin Bad
    BY <1>3, <2>1
  <2>3. QED
    BY <1>7, <2>1, <2>2
<1>9. it[q] \in Nat /\ ig[q] \in Nat
  BY <1>7, SumBounds
<1>10. /\ f[PlaceIn(r)] \in Nat /\ g[PlaceIn(r)] \in Nat
       /\ f[PlaceIn(r)] <= g[PlaceIn(r)]
  BY <1>7
<1>11. it[r] <= ig[r]
  BY <1>5, <1>6, <1>8, <1>9, <1>10
<1>12. QED
  BY <1>4, <1>11

\* The sum of a sequence of numbers.
LEMMA SumOfSequence ==
  ASSUME NEW f \in Seq(Nat)
  PROVE  /\ SumOf(f) \in Nat
         /\ \A i \in DOMAIN f : f[i] <= SumOf(f)
<1>1. IsFiniteSet(DOMAIN f)
  BY FS_Interval
<1>2. \A i \in DOMAIN f : f[i] \in Nat
  OBVIOUS
<1>3. PICK it : Sums(it, f) /\ SumOf(f) = it[DOMAIN f]
  BY <1>1, <1>2, SumIs
<1>4. QED
  BY <1>1, <1>2, <1>3, SumBounds

-----------------------------------------------------------------------------

(* The numbers of a file.                                                  *)

Chunks == [video : Nat, sound : Seq(Nat)]

\* The length of a file whose chunks are all of w bytes, with the most that
\* headers, keys, catalogue and alignment can add to it.
FileBound(m, s, k, a, w) ==
  HeaderText + 90 + s + Len(m) * k + Len(m) * LineGuess + Len(m) * (w + a + 1)
    + (CatalogueRounds + 1) * (a + 1)

\* Numerals are decimal, the header has six rounds or more, and the file
\* would be shorter than 10 ^ 11 bytes if all its chunks were as long as the
\* longest.
WriterNumbers ==
  /\ Base = 10 /\ HeaderRounds >= 6
  /\ \A m \in Movies, s \in Sprites, k \in KeySizes, a \in Masks :
       \E w \in Nat : /\ \A i \in DOMAIN m : Bytes(m[i]) < w
                      /\ FileBound(m, s, k, a, w) < Limit

InputOK ==
  /\ sprite \in Sprites /\ keySize \in KeySizes
  /\ movie \in Movies /\ mask \in Masks

Spaced(w) == w + mask + 1

\* The same for the input, with the products named.
Room(w) ==
  /\ w \in Nat /\ sprite \in Nat /\ keySize \in Nat /\ mask \in Nat
  /\ movie \in Seq(Chunks) /\ Len(movie) \in Nat \ {0}
  /\ \A i \in DOMAIN movie : Bytes(movie[i]) \in Nat /\ Bytes(movie[i]) < w
  /\ KeyCount * keySize \in Nat
  /\ Len(movie) * LineGuess \in Nat
  /\ \A i \in 0 .. Len(movie) : i * Spaced(w) \in Nat
  /\ \A i \in 1 .. Len(movie) : i * Spaced(w) = (i - 1) * Spaced(w) + Spaced(w)
  /\ \A i \in 0 .. Len(movie) : i * Spaced(w) <= Len(movie) * Spaced(w)
  /\ CatalogueRounds * (mask + 1) \in Nat
  /\ \A r \in 0 .. CatalogueRounds :
       r * (mask + 1) \in Nat /\ r * (mask + 1) <= CatalogueRounds * (mask + 1)
  /\ \A r \in 0 .. CatalogueRounds :
       (r + 1) * (mask + 1) = r * (mask + 1) + mask + 1
  /\ HeaderText + 90 + sprite + KeyCount * keySize + Len(movie) * LineGuess
       + Len(movie) * Spaced(w) + CatalogueRounds * (mask + 1) + mask + 1 < Limit

\* The linear part of Room.
LEMMA RoomFacts ==
  ASSUME NEW w, Room(w)
  PROVE  /\ w \in Nat /\ sprite \in Nat /\ keySize \in Nat /\ mask \in Nat
         /\ movie \in Seq(Chunks) /\ Len(movie) \in Nat \ {0}
         /\ \A i \in DOMAIN movie : Bytes(movie[i]) \in Nat /\ Bytes(movie[i]) < w
         /\ Len(movie) * LineGuess \in Nat
         /\ \A r \in 0 .. CatalogueRounds : r * (mask + 1) \in Nat
<1>1. /\ w \in Nat /\ sprite \in Nat /\ keySize \in Nat /\ mask \in Nat
      /\ movie \in Seq(Chunks) /\ Len(movie) \in Nat \ {0}
  BY Zenon DEF Room
<1>2. \A i \in DOMAIN movie : Bytes(movie[i]) \in Nat /\ Bytes(movie[i]) < w
  BY Zenon DEF Room
<1>3. Len(movie) * LineGuess \in Nat
  BY Zenon DEF Room
<1>4. \A r \in 0 .. CatalogueRounds : r * (mask + 1) \in Nat
  BY Zenon DEF Room
<1>5. QED
  BY Zenon, <1>1, <1>2, <1>3, <1>4

LEMMA BytesAreNat ==
  ASSUME NEW chunk \in Chunks
  PROVE  Bytes(chunk) \in Nat /\ SumOf(chunk.sound) <= Bytes(chunk)
           /\ chunk.video <= Bytes(chunk) /\ SumOf(chunk.sound) \in Nat
<1>1. chunk.video \in Nat /\ chunk.sound \in Seq(Nat)
  BY DEF Chunks
<1>2. SumOf(chunk.sound) \in Nat
  BY <1>1, SumOfSequence
<1>3. QED
  BY <1>1, <1>2 DEF Bytes

\* A multiple grows with its factor.
LEMMA Multiples ==
  ASSUME NEW n \in Nat, NEW c \in Nat
  PROVE  /\ \A i \in 0 .. n : i * c \in Nat /\ i * c <= n * c
         /\ \A i \in 1 .. n : i * c = (i - 1) * c + c
         /\ (n + 1) * c = n * c + c
<1>1. ASSUME NEW i \in 0 .. n
      PROVE  i * c \in Nat /\ i * c <= n * c
  <2>1. n * c = i * c + (n - i) * c /\ i * c \in Nat /\ (n - i) * c \in Nat
    OBVIOUS
  <2>2. QED
    BY <2>1
<1>2. \A i \in 1 .. n : i * c = (i - 1) * c + c
  OBVIOUS
<1>3. QED
  BY <1>1, <1>2

LEMMA RoomThere ==
  ASSUME WriterNumbers, InputOK
  PROVE  \E w : Room(w)
<1>1. /\ sprite \in Nat /\ keySize \in Nat /\ mask \in Nat /\ HeaderText \in Nat
      /\ movie \in Seq(Chunks) /\ Len(movie) \in Nat \ {0}
      /\ LineGuess \in Nat /\ CatalogueRounds \in Nat
  <2>1. movie \in Seq(Chunks) /\ movie # <<>>
    BY LayoutAssumption DEF InputOK, Chunks
  <2>2. QED
    BY <2>1, LayoutAssumption DEF InputOK
<1>2. PICK w \in Nat : /\ \A i \in DOMAIN movie : Bytes(movie[i]) < w
                       /\ FileBound(movie, sprite, keySize, mask, w) < Limit
  BY DEF WriterNumbers, InputOK
<1> DEFINE n == Len(movie)
<1>3. \A i \in DOMAIN movie : Bytes(movie[i]) \in Nat /\ Bytes(movie[i]) < w
  <2>1. \A i \in DOMAIN movie : movie[i] \in Chunks
    BY <1>1
  <2>2. QED
    BY <1>2, <2>1, BytesAreNat
<1>4. /\ n \in Nat /\ n >= 1 /\ Spaced(w) \in Nat /\ mask + 1 \in Nat
  BY <1>1, <1>2 DEF Spaced
<1>5. /\ KeyCount * keySize \in Nat /\ KeyCount * keySize <= n * keySize
      /\ n * keySize \in Nat
  <2>1. KeyCount \in 0 .. n
    BY <1>4 DEF KeyCount
  <2>2. \A i \in 0 .. n : i * keySize \in Nat /\ i * keySize <= n * keySize
    BY <1>1, <1>4, Multiples
  <2>3. QED
    BY <1>4, <2>1, <2>2
<1>6. n * LineGuess \in Nat
  BY <1>1, <1>4
<1>7. /\ \A i \in 0 .. n : i * Spaced(w) \in Nat /\ i * Spaced(w) <= n * Spaced(w)
      /\ \A i \in 1 .. n : i * Spaced(w) = (i - 1) * Spaced(w) + Spaced(w)
  BY <1>4, Multiples
<1>8. /\ CatalogueRounds * (mask + 1) \in Nat
      /\ \A r \in 0 .. CatalogueRounds :
           r * (mask + 1) \in Nat /\ r * (mask + 1) <= CatalogueRounds * (mask + 1)
      /\ (CatalogueRounds + 1) * (mask + 1)
           = CatalogueRounds * (mask + 1) + (mask + 1)
  <2>1. CatalogueRounds \in 0 .. CatalogueRounds
    BY <1>1
  <2>2. QED
    BY <1>1, <1>4, <2>1, Multiples
<1>9. \A r \in 0 .. CatalogueRounds :
        (r + 1) * (mask + 1) = r * (mask + 1) + mask + 1
  BY <1>1
<1>10. HeaderText + 90 + sprite + KeyCount * keySize + n * LineGuess
         + n * Spaced(w) + CatalogueRounds * (mask + 1) + mask + 1 < Limit
  <2>1. HeaderText + 90 + sprite + n * keySize + n * LineGuess
          + n * Spaced(w) + (CatalogueRounds + 1) * (mask + 1) < Limit
    BY <1>2 DEF FileBound, Spaced
  <2>2. Limit \in Nat
    <3>1. PICK p \in [0 .. 11 -> Nat] : \A d \in 0 .. 11 : 10 ^ d = p[d]
      BY PowersOfTen
    <3>2. QED
      BY <3>1 DEF Limit
  <2>3. n * Spaced(w) \in Nat
    BY <1>4, <1>7
  <2> DEFINE k == KeyCount * keySize
             ks == n * keySize
             g == n * LineGuess
             t == n * Spaced(w)
             c == CatalogueRounds * (mask + 1)
             cs == (CatalogueRounds + 1) * (mask + 1)
  <2>4. /\ k \in Nat /\ ks \in Nat /\ g \in Nat /\ t \in Nat /\ c \in Nat
        /\ k <= ks /\ cs = c + (mask + 1)
    BY <1>5, <1>6, <1>8, <2>3
  <2>5. HeaderText + 90 + sprite + ks + g + t + cs < Limit
    BY <2>1
  <2> HIDE DEF k, ks, g, t, c, cs
  <2>6. HeaderText + 90 + sprite + k + g + t + c + mask + 1 < Limit
    BY <1>1, <2>2, <2>4, <2>5
  <2>7. QED
    BY <2>6 DEF k, g, t, c
<1>11. Room(w)
  BY <1>1, <1>2, <1>3, <1>5, <1>6, <1>7, <1>8, <1>9, <1>10 DEF Room
<1>12. QED
  BY <1>11

-----------------------------------------------------------------------------

(* The length of the header as a function of the length it is given.       *)

LEMMA LimitIsNat == Limit \in Nat
<1>1. PICK p \in [0 .. 11 -> Nat] : \A d \in 0 .. 11 : 10 ^ d = p[d]
  BY PowersOfTen
<1>2. QED
  BY <1>1 DEF Limit

\* A number below another that is printed.
LEMMA PrintedBelow ==
  ASSUME NEW n \in Nat, n < Limit
  PROVE  n \in Printed
BY LimitIsNat DEF Printed

\* The sprite, the longest chunk and the offset of the catalogue are printed.
LEMMA RoomPrints ==
  ASSUME NEW w, Room(w)
  PROVE  /\ w < Limit /\ sprite \in Printed
         /\ \A n \in 0 .. HeaderText + 81 :
              n \in Printed /\ n + sprite \in Printed
                /\ n + sprite + KeyCount * keySize \in Printed
<1> DEFINE t == Len(movie) * Spaced(w)
           k == KeyCount * keySize
           g == Len(movie) * LineGuess
           c == CatalogueRounds * (mask + 1)
<1>1. /\ sprite \in Nat /\ k \in Nat /\ mask \in Nat /\ w \in Nat
      /\ g \in Nat /\ c \in Nat /\ HeaderText \in Nat
      /\ HeaderText + 90 + sprite + k + g + t + c + mask + 1 < Limit
  BY LayoutAssumption DEF Room
<1>2. t \in Nat /\ w <= t
  <2>1. Len(movie) \in 1 .. Len(movie) /\ Len(movie) \in 0 .. Len(movie)
    BY DEF Room
  <2>2. /\ t \in Nat /\ t = (Len(movie) - 1) * Spaced(w) + Spaced(w)
        /\ (Len(movie) - 1) * Spaced(w) \in Nat
    <3>1. Len(movie) - 1 \in 0 .. Len(movie)
      BY <2>1
    <3>2. QED
      BY <2>1, <3>1 DEF Room
  <2>3. QED
    BY <1>1, <2>2 DEF Spaced
<1> HIDE DEF t, k, g, c
<1>3. w < Limit /\ sprite < Limit
  BY <1>1, <1>2, LimitIsNat
<1>4. ASSUME NEW n \in 0 .. HeaderText + 81
      PROVE  /\ n \in Printed /\ n + sprite \in Printed
             /\ n + sprite + k \in Printed
  <2>1. /\ n \in Nat /\ n + sprite \in Nat /\ n + sprite + k \in Nat
        /\ n < Limit /\ n + sprite < Limit /\ n + sprite + k < Limit
    BY <1>1, <1>2, LimitIsNat
  <2>2. QED
    BY <2>1, PrintedBelow
<1>5. QED
  BY <1>1, <1>3, <1>4, PrintedBelow DEF k

\* The even and odd chunk sizes are printed.
LEMMA GuardedPrinted ==
  ASSUME NEW w, Room(w), NEW p
  PROVE  GuardedSize(p) \in Printed
<1> DEFINE sizes == {Bytes(movie[i]) : i \in Parity(p)}
           Most(n) == n \in sizes /\ \A m \in sizes : m <= n
           most == IF sizes = {} THEN 0
                   ELSE CHOOSE n \in sizes : \A m \in sizes : m <= n
<1>1. \A n \in sizes : n \in Nat /\ n < w
  BY DEF Parity, Room
<1>2. w \in Nat /\ w < Limit
  BY RoomPrints DEF Room
<1>3. ASSUME sizes # {}
      PROVE  \E n \in sizes : \A m \in sizes : m <= n
  <2> DEFINE Below == {w - n : n \in sizes}
  <2>1. Below \in SUBSET Nat /\ Below # {}
    BY <1>1, <1>2, <1>3
  <2>2. PICK b \in Below : \A c \in Below : b <= c
    BY <2>1, LeastNat
  <2>3. PICK n \in sizes : b = w - n
    BY <2>2
  <2>4. ASSUME NEW m \in sizes
        PROVE  m <= n
    <3>1. w - m \in Below
      OBVIOUS
    <3>2. w - n <= w - m
      BY <2>2, <2>3, <3>1
    <3>3. m \in Nat /\ n \in Nat /\ w \in Nat
      BY <1>1, <1>2
    <3> HIDE DEF sizes, Below
    <3>4. QED
      BY <3>2, <3>3
  <2>5. QED
    BY <2>4
<1>4. most = 0 \/ most \in sizes
  BY <1>3
<1>5. GuardedSize(p) = IF most = 0 THEN 0 ELSE most + 1
  BY DEF GuardedSize
<1> HIDE DEF most, sizes
<1>6. most \in Nat /\ (most = 0 \/ most < w)
  BY <1>1, <1>4
<1>7. GuardedSize(p) \in Nat /\ GuardedSize(p) <= w
  BY <1>2, <1>5, <1>6
<1>8. QED
  BY <1>2, <1>7, LimitIsNat, PrintedBelow

\* The numerals of a header that is given the length n.
SpriteNumeral(n) == Digits(IF sprite # 0 THEN n ELSE 0)

KeysNumeral(n) == KeysLine(IF KeyCount # 0 THEN n + sprite ELSE -1)

HeaderLength(n) == Render(n).length

LEMMA HeaderLengthIs ==
  ASSUME NEW n
  PROVE  HeaderLength(n)
           = HeaderText + Digits(EvenSize) + Digits(OddSize)
               + Digits(n + sprite + KeyCount * keySize) + SpriteNumeral(n)
               + Digits(sprite) + KeysNumeral(n)
BY DEF HeaderLength, Render, SpriteNumeral, KeysNumeral

\* Headers of two lengths: both lie in the same 64 bytes, and the longer one
\* prints at most three digits more.
LEMMA HeaderGrows ==
  ASSUME WriterNumbers, NEW w, Room(w),
         NEW a \in 0 .. HeaderText + 81, NEW b \in 0 .. HeaderText + 81, a <= b
  PROVE  /\ HeaderLength(a) \in HeaderText + 17 .. HeaderText + 81
         /\ HeaderLength(b) \in HeaderText + 17 .. HeaderText + 81
         /\ HeaderLength(a) <= HeaderLength(b)
         /\ b <= a + 89 => HeaderLength(b) <= HeaderLength(a) + 3
<1> DEFINE e == Digits(EvenSize)
           o == Digits(OddSize)
           s == Digits(sprite)
           ca == Digits(a + sprite + KeyCount * keySize)
           cb == Digits(b + sprite + KeyCount * keySize)
           sa == SpriteNumeral(a)
           sb == SpriteNumeral(b)
           ka == KeysNumeral(a)
           kb == KeysNumeral(b)
<1>1. /\ HeaderText \in Nat /\ Base = 10 /\ a \in Nat /\ b \in Nat
      /\ sprite \in Nat /\ KeyCount * keySize \in Nat
  BY LayoutAssumption DEF WriterNumbers, Room
<1>2. \A n \in Printed : Digits(n) \in 1 .. 11
  <2>1. \A n \in Printed : n <= n
    BY LimitIsNat DEF Printed
  <2>2. QED
    BY <1>1, <2>1, DigitsGrow
<1>3. e \in 1 .. 11 /\ o \in 1 .. 11 /\ s \in 1 .. 11
  BY <1>2, GuardedPrinted, RoomPrints DEF EvenSize, OddSize
<1>4. /\ ca \in 1 .. 11 /\ cb \in 1 .. 11 /\ ca <= cb
      /\ b <= a + 89 => cb <= ca + 1
  <2> DEFINE k == KeyCount * keySize
  <2>1. a + sprite + k \in Printed /\ b + sprite + k \in Printed
    BY RoomPrints
  <2>2. /\ a + sprite + k <= b + sprite + k
        /\ b <= a + 89 => b + sprite + k <= a + sprite + k + 89
    <3>1. k \in Nat
      BY <1>1
    <3> HIDE DEF k
    <3>2. QED
      BY <1>1, <3>1
  <2>3. QED
    BY <1>1, <2>1, <2>2, DigitsGrow
<1>5. /\ sa \in 1 .. 11 /\ sb \in 1 .. 11 /\ sa <= sb
      /\ b <= a + 89 => sb <= sa + 1
  <2>1. CASE sprite # 0
    <3>1. a \in Printed /\ b \in Printed
      BY RoomPrints
    <3>2. QED
      BY <1>1, <2>1, <3>1, DigitsGrow DEF SpriteNumeral
  <2>2. CASE sprite = 0
    <3>1. 0 \in Printed
      BY <2>2, RoomPrints
    <3>2. Digits(0) \in 1 .. 11
      BY <1>2, <3>1
    <3>3. sa = Digits(0) /\ sb = Digits(0)
      BY <2>2 DEF SpriteNumeral
    <3>4. QED
      BY <3>2, <3>3
  <2>3. QED
    BY <2>1, <2>2
<1>6. /\ ka \in 12 .. 26 /\ kb \in 12 .. 26 /\ ka <= kb
      /\ b <= a + 89 => kb <= ka + 1
  <2>1. CASE KeyCount # 0
    <3>1. /\ a + sprite \in Printed /\ b + sprite \in Printed
          /\ a + sprite <= b + sprite
          /\ b <= a + 89 => b + sprite <= a + sprite + 89
      BY <1>1, RoomPrints
    <3>2. /\ ka = Digits(a + sprite) + 15 /\ kb = Digits(b + sprite) + 15
      BY <1>1, <2>1 DEF KeysNumeral, KeysLine
    <3>3. /\ Digits(a + sprite) \in 1 .. 11 /\ Digits(b + sprite) \in 1 .. 11
          /\ Digits(a + sprite) <= Digits(b + sprite)
          /\ b <= a + 89 => Digits(b + sprite) <= Digits(a + sprite) + 1
      BY <1>1, <3>1, DigitsGrow
    <3> HIDE DEF ka, kb
    <3>4. QED
      BY <3>2, <3>3
  <2>2. CASE KeyCount = 0
    <3>1. ka = 12 /\ kb = 12
      BY <2>2 DEF KeysNumeral, KeysLine
    <3>2. QED
      BY <3>1
  <2>3. QED
    BY <2>1, <2>2
<1>7. /\ HeaderLength(a) = HeaderText + e + o + ca + sa + s + ka
      /\ HeaderLength(b) = HeaderText + e + o + cb + sb + s + kb
  BY HeaderLengthIs
<1> HIDE DEF e, o, s, ca, cb, sa, sb, ka, kb
<1>8. QED
  BY <1>1, <1>3, <1>4, <1>5, <1>6, <1>7

-----------------------------------------------------------------------------

(* The header loop.                                                        *)

\* What no step changes.
LEMMA InputKept ==
  ASSUME UNCHANGED inputVars
  PROVE  /\ InputOK' = InputOK /\ KeyCount' = KeyCount
         /\ \A w : Room(w)' = Room(w)
         /\ \A n : Render(n)' = Render(n) /\ HeaderLength(n)' = HeaderLength(n)
<1>1. /\ sprite' = sprite /\ keySize' = keySize /\ movie' = movie /\ mask' = mask
  BY DEF inputVars
<1>2. InputOK' = InputOK /\ KeyCount' = KeyCount
  BY <1>1 DEF InputOK, KeyCount
<1>3. \A w : Room(w)' = Room(w)
  BY <1>1 DEF Room, Spaced, KeyCount
<1>4. EvenSize' = EvenSize /\ OddSize' = OddSize
  BY <1>1 DEF EvenSize, OddSize, GuardedSize, Parity
<1>5. ASSUME NEW n
      PROVE  Render(n)' = Render(n) /\ HeaderLength(n)' = HeaderLength(n)
  BY <1>1, <1>2, <1>4 DEF Render, HeaderLength
<1>6. QED
  BY <1>2, <1>3, <1>5

\* From its second round on the loop only lengthens the header, and by three
\* bytes at most.
HeaderRound ==
  \E n \in 0 .. HeaderText + 81 : \E first, settled :
    /\ headerLen = n /\ first = HeaderLength(0) /\ settled = HeaderLength(first)
    /\ round \in 0 .. 5
    /\ round = 0 => n = 0
    /\ round # 0 => n >= HeaderText + 17 /\ n <= HeaderLength(n)
    /\ round = 1 => n = first
    /\ round >= 2 => n >= settled + round - 2 /\ n <= settled + 3

\* The header is the one that is rendered with its own length.
HeaderFixed ==
  \E n \in HeaderText + 17 .. HeaderText + 81 :
    header = Render(n) /\ header.length = n

HeaderInv ==
  /\ InputOK
  /\ pc = "header" => HeaderRound
  /\ pc # "header" => HeaderFixed

LEMMA HeaderInit == Init => HeaderInv
<1> SUFFICES ASSUME Init PROVE HeaderInv
  OBVIOUS
<1>1. InputOK /\ pc = "header" /\ round = 0 /\ headerLen = 0
  BY DEF Init, InputOK
<1>2. HeaderText \in Nat
  BY LayoutAssumption
<1>3. HeaderRound
  BY <1>1, <1>2 DEF HeaderRound
<1>4. QED
  BY <1>1, <1>3 DEF HeaderInv

\* One round of the loop, of a header that is given the length n.
LEMMA HeaderRoundStep ==
  ASSUME WriterNumbers, HeaderRound, NEW w, Room(w)
  PROVE  LET n == HeaderLength(headerLen)
         IN  /\ n \in HeaderText + 17 .. HeaderText + 81
             /\ n # headerLen =>
                  /\ n <= HeaderLength(n)
                  /\ round < 5
                  /\ round = 0 => n = HeaderLength(0)
                  /\ round # 0 =>
                       /\ n >= HeaderLength(HeaderLength(0)) + round - 1
                       /\ n <= HeaderLength(HeaderLength(0)) + 3
<1> DEFINE F(m) == HeaderLength(m)
           h == headerLen
           n == F(h)
           first == F(0)
           settled == F(first)
<1>0. /\ round \in 0 .. 5 /\ h \in 0 .. HeaderText + 81
      /\ round = 0 => h = 0
      /\ round # 0 => h >= HeaderText + 17 /\ h <= n
      /\ round = 1 => h = first
      /\ round >= 2 => h >= settled + round - 2 /\ h <= settled + 3
  BY DEF HeaderRound
<1>1. HeaderText \in Nat /\ 0 \in 0 .. HeaderText + 81
  BY LayoutAssumption
<1>2. n \in HeaderText + 17 .. HeaderText + 81
  <2>1. h <= h
    BY <1>0, <1>1
  <2>2. QED
    BY <1>0, <1>1, <2>1, HeaderGrows
<1>3. /\ first \in HeaderText + 17 .. HeaderText + 81 /\ first <= n
      /\ first \in 0 .. HeaderText + 81 /\ n \in 0 .. HeaderText + 81
  <2>1. 0 <= h
    BY <1>0, <1>1
  <2>2. first \in HeaderText + 17 .. HeaderText + 81 /\ first <= n
    BY <1>0, <1>1, <2>1, HeaderGrows
  <2> HIDE DEF first, n
  <2>3. QED
    BY <1>0, <1>1, <1>2, <2>2
<1>4. settled \in HeaderText + 17 .. HeaderText + 81 /\ first <= settled
  <2>1. 0 <= first
    BY <1>0, <1>1, <1>3
  <2>2. QED
    BY <1>0, <1>1, <1>3, <2>1, HeaderGrows
<1>5. SUFFICES ASSUME n # h
               PROVE  /\ n <= F(n)
                      /\ round < 5
                      /\ round = 0 => n = first
                      /\ round # 0 => n >= settled + round - 1 /\ n <= settled + 3
  BY <1>2
<1>6. CASE round = 0
  <2>1. h = 0 /\ n = first
    BY <1>0, <1>6
  <2>2. n <= F(n)
    BY <1>4, <2>1
  <2>3. QED
    BY <1>6, <2>1, <2>2
<1>7. CASE round # 0
  <2>1. h >= HeaderText + 17 /\ h <= n
    BY <1>0, <1>7
  <2>2. n <= F(n)
    BY <1>0, <1>1, <1>3, <2>1, HeaderGrows
  <2>3. first <= h
    <3>1. CASE round = 1
      BY <1>0, <1>3, <3>1
    <3>2. CASE round # 1
      <4>1. h >= settled + round - 2 /\ round >= 2
        BY <1>0, <1>1, <1>7, <3>2
      <4> HIDE DEF h, settled, first
      <4>2. QED
        BY <1>0, <1>1, <1>3, <1>4, <4>1
    <3>3. QED
      BY <3>1, <3>2
  <2>4. n <= settled + 3 /\ settled <= n
    <3>1. h <= first + 89
      <4> HIDE DEF h, first
      <4>1. QED
        BY <1>0, <1>1, <1>3
    <3>2. QED
      BY <1>0, <1>1, <1>3, <2>3, <3>1, HeaderGrows
  <2>5. n >= settled + round - 1
    <3>1. CASE round = 1
      <4> HIDE DEF n, settled, h
      <4>1. QED
        BY <1>2, <1>4, <2>4, <3>1
    <3>2. CASE round # 1
      <4>1. h >= settled + round - 2
        BY <1>0, <1>1, <1>7, <3>2
      <4> HIDE DEF n, settled, h
      <4>2. QED
        BY <1>0, <1>1, <1>2, <1>4, <1>5, <2>1, <4>1
    <3>3. QED
      BY <3>1, <3>2
  <2> HIDE DEF n, settled, h, first, F
  <2>6. round < 5
    BY <1>0, <1>1, <1>2, <1>4, <2>4, <2>5
  <2>7. QED
    BY <1>7, <2>2, <2>4, <2>5, <2>6
<1>8. QED
  BY <1>6, <1>7

LEMMA HeaderStep ==
  ASSUME WriterNumbers, HeaderInv, [Next]_vars
  PROVE  HeaderInv'
<1>1. HeaderText \in Nat /\ HeaderRounds >= 6 /\ HeaderRounds \in Nat
  BY LayoutAssumption DEF WriterNumbers
<1>2. PICK w : Room(w)
  BY RoomThere DEF HeaderInv
<1>3. CASE RenderHeader
  <2>0. PICK n : n = HeaderLength(headerLen)
    OBVIOUS
  <2>1. /\ UNCHANGED inputVars /\ pc = "header" /\ header' = Render(headerLen)
        /\ HeaderRound
    BY <1>3 DEF RenderHeader, HeaderInv
  <2>2. InputOK'
    BY <2>1, InputKept DEF HeaderInv
  <2>3. /\ header'.length = n /\ header' = Render(headerLen)
    BY <2>0, <2>1 DEF HeaderLength
  <2>4. n \in HeaderText + 17 .. HeaderText + 81
    BY <1>2, <2>0, <2>1, HeaderRoundStep
  <2>5. CASE n = headerLen
    <3>1. pc' = "catalogue"
      BY <1>3, <2>3, <2>5 DEF RenderHeader, EnterCatalogue
    <3>2. HeaderFixed'
      <4>1. header' = Render(n) /\ header'.length = n /\ Render(n)' = Render(n)
        BY <2>1, <2>3, <2>5, InputKept
      <4>2. QED
        BY <2>4, <4>1 DEF HeaderFixed
    <3>3. QED
      BY <2>2, <3>1, <3>2 DEF HeaderInv
  <2>6. CASE n # headerLen
    <3>1. /\ n <= HeaderLength(n) /\ round < 5 /\ round \in 0 .. 5
          /\ round = 0 => n = HeaderLength(0)
          /\ round # 0 => /\ n >= HeaderLength(HeaderLength(0)) + round - 1
                          /\ n <= HeaderLength(HeaderLength(0)) + 3
      BY <1>2, <2>0, <2>1, <2>6, HeaderRoundStep DEF HeaderRound
    <3>2. round + 1 # HeaderLimit
      BY <1>1, <3>1 DEF HeaderLimit
    <3>3. pc' = "header" /\ headerLen' = n /\ round' = round + 1
      BY <1>3, <2>1, <2>3, <2>6, <3>2 DEF RenderHeader
    <3>4. HeaderRound'
      <4>1. PICK first, settled :
              /\ first = HeaderLength(0) /\ settled = HeaderLength(first)
              /\ round = 0 => n = first
              /\ round # 0 => n >= settled + round - 1 /\ n <= settled + 3
              /\ settled \in Nat
        <5>1. /\ HeaderLength(0) \in 0 .. HeaderText + 81
              /\ HeaderLength(HeaderLength(0)) \in Nat
          <6>1. 0 \in 0 .. HeaderText + 81 /\ 0 <= 0
            BY <1>1
          <6>2. HeaderLength(0) \in HeaderText + 17 .. HeaderText + 81
            BY <1>2, <6>1, HeaderGrows
          <6>3. /\ HeaderLength(0) \in 0 .. HeaderText + 81
                /\ HeaderLength(0) <= HeaderLength(0)
            BY <1>1, <6>2
          <6>4. HeaderLength(HeaderLength(0)) \in HeaderText + 17 .. HeaderText + 81
            BY <1>2, <6>3, HeaderGrows
          <6>5. QED
            BY <1>1, <6>3, <6>4
        <5>2. QED
          BY <3>1, <5>1
      <4>2. /\ HeaderLength(n)' = HeaderLength(n)
            /\ HeaderLength(0)' = HeaderLength(0)
            /\ HeaderLength(first)' = HeaderLength(first)
        BY <2>1, InputKept
      <4>3. QED
        BY <1>1, <2>4, <3>1, <3>3, <4>1, <4>2 DEF HeaderRound
    <3>5. QED
      BY <2>2, <3>3, <3>4 DEF HeaderInv
  <2>7. QED
    BY <2>5, <2>6
<1>4. CASE UNCHANGED <<inputVars, headerLen, header, round, pc>>
  <2>1. /\ \A m : Render(m)' = Render(m) /\ HeaderLength(m)' = HeaderLength(m)
        /\ InputOK' = InputOK
    BY <1>4, InputKept
  <2>2. QED
    BY <1>4, <2>1 DEF HeaderInv, HeaderRound, HeaderFixed
<1>5. CASE BuildCatalogue \/ AppendChunk \/ Finish \/ Parse
  <2>1. /\ UNCHANGED inputVars /\ pc # "header" /\ pc' # "header"
        /\ UNCHANGED header
    BY <1>5 DEF BuildCatalogue, AppendChunk, Finish, Parse
  <2>2. /\ \A m : Render(m)' = Render(m)
        /\ InputOK' = InputOK
    BY <2>1, InputKept
  <2>3. QED
    BY <2>1, <2>2 DEF HeaderInv, HeaderFixed
<1>6. QED
  BY <1>3, <1>4, <1>5 DEF Next, vars

\* The offsets printed in a finished header are those of a header of exactly
\* its length, so six rounds are enough and the eight of the writer too.
THEOREM HeadersSettle == WriterNumbers => (Spec => []HeaderSettles)
<1>1. SUFFICES ASSUME WriterNumbers PROVE Spec => []HeaderSettles
  OBVIOUS
<1>2. Init => HeaderInv
  BY HeaderInit
<1>3. HeaderInv /\ [Next]_vars => HeaderInv'
  BY <1>1, HeaderStep
<1>4. HeaderInv => HeaderSettles
  BY DEF HeaderInv, HeaderFixed, HeaderSettles, Render, CatalogueStart
<1>5. QED
  BY <1>2, <1>3, <1>4, PTL DEF Spec

-----------------------------------------------------------------------------

(* The offsets of the chunks and the length of the catalogue.              *)

\* Aligning adds the mask at most.
LEMMA AlignUpBounds ==
  ASSUME mask \in Nat, NEW n \in Nat
  PROVE  AlignUp(n) \in Nat /\ n <= AlignUp(n) /\ AlignUp(n) <= n + mask
<1> DEFINE q == (n + mask) \div (mask + 1)
           r == (n + mask) % (mask + 1)
<1>1. q \in Nat /\ r \in 0 .. mask /\ n + mask = (mask + 1) * q + r
  OBVIOUS
<1>2. AlignUp(n) = q * (mask + 1)
  BY DEF AlignUp
<1> HIDE DEF q, r
<1>3. q * (mask + 1) = (mask + 1) * q /\ q * (mask + 1) \in Nat
  BY <1>1
<1>4. QED
  BY <1>1, <1>2, <1>3

\* The first k offsets.
OffsetsUpTo(g, k) ==
  \A i \in 1 .. Len(movie) :
    i <= k => /\ g[i] \in Nat
              /\ g[i] = IF i = 1 THEN firstData
                        ELSE AlignUp(g[i - 1] + Bytes(movie[i - 1]))

LEMMA OffsetsExist ==
  ASSUME NEW w, Room(w), firstData \in Nat
  PROVE  /\ ChunkOffsets \in [DOMAIN movie -> Nat]
         /\ OffsetsUpTo(ChunkOffsets, Len(movie))
<1> DEFINE Has(k) == \E g : OffsetsUpTo(g, k)
           Lacks == {k \in Nat : ~ Has(k)}
           Rest(g, i) == IF i = 1 THEN firstData
                         ELSE AlignUp(g[i - 1] + Bytes(movie[i - 1]))
<1>1. /\ mask \in Nat /\ Len(movie) \in Nat \ {0} /\ DOMAIN movie = 1 .. Len(movie)
      /\ \A i \in 1 .. Len(movie) : Bytes(movie[i]) \in Nat
  BY DEF Room
<1>2. \A k \in Nat : Has(k)
  <2> SUFFICES ASSUME Lacks # {} PROVE FALSE
    OBVIOUS
  <2>1. PICK m \in Lacks : \A k \in Lacks : m <= k
    BY LeastNat
  <2>2. Has(0)
    BY DEF OffsetsUpTo
  <2>3. m # 0 /\ m \in Nat /\ m - 1 \in Nat /\ ~ (m <= m - 1)
    BY <2>1, <2>2
  <2>4. PICK g : OffsetsUpTo(g, m - 1)
    BY <2>1, <2>3
  <2> DEFINE h == [i \in 1 .. Len(movie) |-> Rest(g, i)]
  <2>5. OffsetsUpTo(h, m)
    <3> SUFFICES ASSUME NEW i \in 1 .. Len(movie), i <= m
                 PROVE  h[i] \in Nat /\ h[i] = Rest(h, i)
      BY DEF OffsetsUpTo
    <3>1. CASE i = 1
      BY <3>1
    <3>2. CASE i # 1
      <4>1. i - 1 \in 1 .. Len(movie) /\ i - 1 <= m - 1
        BY <2>3, <3>2
      <4>2. g[i - 1] \in Nat /\ g[i - 1] = Rest(g, i - 1)
        BY <2>4, <4>1 DEF OffsetsUpTo
      <4>3. h[i - 1] = g[i - 1] /\ h[i] = AlignUp(g[i - 1] + Bytes(movie[i - 1]))
        BY <3>2, <4>1, <4>2
      <4>4. AlignUp(g[i - 1] + Bytes(movie[i - 1])) \in Nat
        <5>1. g[i - 1] + Bytes(movie[i - 1]) \in Nat
          BY <1>1, <4>1, <4>2
        <5>2. QED
          BY <1>1, <5>1, AlignUpBounds
      <4> HIDE DEF h
      <4>5. QED
        BY <3>2, <4>3, <4>4
    <3>3. QED
      BY <3>1, <3>2
  <2>6. QED
    BY <2>1, <2>5
<1>3. PICK g : OffsetsUpTo(g, Len(movie))
  BY <1>1, <1>2
<1> DEFINE f == [i \in DOMAIN movie |-> g[i]]
<1>4. f = [i \in DOMAIN movie |-> Rest(f, i)]
  <2>1. ASSUME NEW i \in DOMAIN movie
        PROVE  g[i] = Rest(f, i)
    <3>1. g[i] = Rest(g, i) /\ i \in 1 .. Len(movie)
      BY <1>1, <1>3 DEF OffsetsUpTo
    <3>2. i # 1 => f[i - 1] = g[i - 1]
      BY <1>1
    <3>3. QED
      BY <3>1, <3>2
  <2>2. f = [i \in DOMAIN movie |-> g[i]]
    OBVIOUS
  <2> HIDE DEF f
  <2>3. QED
    BY <2>1, <2>2
<1>5. ChunkOffsets = [i \in DOMAIN movie |-> Rest(ChunkOffsets, i)]
  BY <1>4 DEF ChunkOffsets
<1>6. \A i \in DOMAIN movie : ChunkOffsets[i] = g[i]
  <2> DEFINE Off == {i \in Nat : i \in DOMAIN movie /\ ChunkOffsets[i] # g[i]}
  <2> SUFFICES ASSUME Off # {} PROVE FALSE
    BY <1>1
  <2>1. PICK m \in Off : \A i \in Off : m <= i
    BY LeastNat
  <2>2. /\ ChunkOffsets[m] = Rest(ChunkOffsets, m) /\ m \in 1 .. Len(movie)
        /\ g[m] = Rest(g, m)
    <3>1. m \in DOMAIN movie /\ m \in 1 .. Len(movie) /\ m <= Len(movie)
      BY <1>1, <2>1
    <3>2. g[m] = Rest(g, m)
      BY <1>3, <3>1 DEF OffsetsUpTo
    <3> HIDE DEF Rest
    <3>3. ChunkOffsets[m] = Rest(ChunkOffsets, m)
      BY <1>5, <3>1
    <3>4. QED
      BY <3>1, <3>2, <3>3
  <2>3. m # 1
    BY <2>1, <2>2
  <2>4. m - 1 \in Nat /\ m - 1 \in 1 .. Len(movie) /\ ~ (m <= m - 1)
    BY <2>2, <2>3
  <2>5. m - 1 \notin Off
    BY <2>1, <2>4
  <2>6. ChunkOffsets[m - 1] = g[m - 1]
    BY <1>1, <2>4, <2>5
  <2>7. QED
    BY <2>1, <2>2, <2>3, <2>6
<1>7. ChunkOffsets \in [DOMAIN movie -> Nat]
  <2>1. \A i \in DOMAIN movie : g[i] \in Nat
    BY <1>1, <1>3 DEF OffsetsUpTo
  <2>2. \A i \in DOMAIN movie : Rest(ChunkOffsets, i) \in Nat
    BY <1>5, <1>6, <2>1
  <2> HIDE DEF Rest
  <2>3. QED
    BY <1>5, <2>2
<1>8. OffsetsUpTo(ChunkOffsets, Len(movie))
  BY <1>1, <1>5, <1>7 DEF OffsetsUpTo
<1>9. QED
  BY <1>7, <1>8

\* Every chunk is due after the one before it, no later than if all were of
\* w bytes.
LEMMA OffsetsSpaced ==
  ASSUME NEW w, Room(w), firstData \in Nat
  PROVE  /\ ChunkOffsets \in [DOMAIN movie -> Nat]
         /\ ChunkOffsets[1] = firstData
         /\ \A i \in 1 .. Len(movie) - 1 :
              ChunkOffsets[i] + Bytes(movie[i]) <= ChunkOffsets[i + 1]
         /\ \A i \in 1 .. Len(movie) :
              ChunkOffsets[i] <= firstData + (i - 1) * Spaced(w)
<1> DEFINE f == ChunkOffsets
<1>1. /\ f \in [DOMAIN movie -> Nat] /\ OffsetsUpTo(f, Len(movie))
      /\ mask \in Nat /\ w \in Nat /\ Len(movie) \in Nat \ {0}
      /\ DOMAIN movie = 1 .. Len(movie)
      /\ \A i \in 1 .. Len(movie) : Bytes(movie[i]) \in Nat /\ Bytes(movie[i]) < w
  <2>1. f \in [DOMAIN movie -> Nat] /\ OffsetsUpTo(f, Len(movie))
    BY OffsetsExist
  <2> HIDE DEF f
  <2>2. QED
    BY <2>1, RoomFacts
<1> HIDE DEF f
<1>2. f[1] = firstData
  BY <1>1 DEF OffsetsUpTo
<1>3. ASSUME NEW i \in 1 .. Len(movie) - 1
      PROVE  f[i] + Bytes(movie[i]) <= f[i + 1] /\ f[i + 1] <= f[i] + Spaced(w)
  <2> DEFINE end == f[i] + Bytes(movie[i])
  <2>1. /\ i \in 1 .. Len(movie) /\ i + 1 \in 1 .. Len(movie) /\ (i + 1) - 1 = i
        /\ i + 1 # 1 /\ i + 1 <= Len(movie)
    BY <1>1
  <2>2. /\ f[i] \in Nat /\ f[i + 1] \in Nat
        /\ Bytes(movie[i]) \in Nat /\ Bytes(movie[i]) < w
    BY <1>1, <2>1
  <2>3. f[i + 1] = AlignUp(end)
    BY <1>1, <2>1 DEF OffsetsUpTo
  <2>4. end \in Nat
    BY <2>2
  <2>5. AlignUp(end) >= end /\ AlignUp(end) <= end + mask
    BY <1>1, <2>4, AlignUpBounds
  <2>6. f[i + 1] >= end /\ f[i + 1] <= end + mask
    BY <2>3, <2>5
  <2>7. QED
    BY <1>1, <2>2, <2>6 DEF Spaced
<1>4. \A i \in 1 .. Len(movie) : f[i] <= firstData + (i - 1) * Spaced(w)
  <2> DEFINE Far == {i \in Nat : /\ i \in 1 .. Len(movie)
                                 /\ ~ (f[i] <= firstData + (i - 1) * Spaced(w))}
  <2> SUFFICES ASSUME Far # {} PROVE FALSE
    OBVIOUS
  <2>1. PICK m \in Far : \A i \in Far : m <= i
    BY LeastNat
  <2>2. m \in 1 .. Len(movie) /\ f[m] \in Nat
    BY <1>1, <2>1
  <2>3. m # 1
    <3>1. (1 - 1) * Spaced(w) = 0
      BY <1>1 DEF Spaced
    <3>2. QED
      BY <1>2, <2>1, <3>1
  <2>4. /\ m - 1 \in 1 .. Len(movie) - 1 /\ m - 1 \in 1 .. Len(movie)
        /\ (m - 1) + 1 = m /\ m - 1 \in Nat /\ ~ (m <= m - 1)
    BY <1>1, <2>2, <2>3
  <2>5. f[m - 1] <= firstData + (m - 2) * Spaced(w) /\ f[m - 1] \in Nat
    <3>1. (m - 1) - 1 = m - 2
      BY <2>2
    <3>2. QED
      BY <1>1, <2>1, <2>4, <3>1
  <2>6. f[m] <= f[m - 1] + Spaced(w)
    BY <1>3, <2>4
  <2>7. (m - 1) * Spaced(w) = (m - 2) * Spaced(w) + Spaced(w)
          /\ Spaced(w) \in Nat /\ (m - 2) * Spaced(w) \in Nat
    <3>1. m - 1 \in 1 .. Len(movie) /\ m - 2 \in 0 .. Len(movie) /\ (m - 1) - 1 = m - 2
      BY <1>1, <2>2, <2>3
    <3>2. Spaced(w) \in Nat
      BY <1>1 DEF Spaced
    <3>3. QED
      BY <3>1, <3>2 DEF Room
  <2>8. f[m] <= firstData + (m - 1) * Spaced(w)
    <3> DEFINE t == (m - 1) * Spaced(w)
               u == (m - 2) * Spaced(w)
    <3>1. /\ f[m - 1] <= firstData + u /\ t = u + Spaced(w)
          /\ u \in Nat /\ Spaced(w) \in Nat
      BY <2>5, <2>7
    <3> HIDE DEF t, u
    <3>2. ASSUME NEW a \in Nat, NEW b \in Nat, NEW c \in Nat,
                 b <= firstData + u, a <= b + c, t = u + c
          PROVE  a <= firstData + t
      BY <3>1, <3>2
    <3>3. f[m] <= firstData + t
      BY <2>2, <2>5, <2>6, <3>1, <3>2
    <3>4. QED
      BY <3>3 DEF t
  <2>9. QED
    BY <2>1, <2>8
<1>5. QED
  BY <1>1, <1>2, <1>3, <1>4 DEF f

\* A line of the catalogue is six bytes or more, the shortest that the parser
\* counts on, and longest for the greatest offset.
LEMMA LineLength ==
  ASSUME Base = 10, NEW chunk \in Chunks, Bytes(chunk) < Limit, NEW n \in Printed
  PROVE  /\ CatalogueLine(n, chunk) \in Nat
         /\ CatalogueLine(n, chunk) >= 6
         /\ CatalogueLine(Limit - 1, chunk) \in Nat
         /\ CatalogueLine(n, chunk) <= CatalogueLine(Limit - 1, chunk)
<1> DEFINE fields == IF chunk.sound = <<>> THEN <<2>>
                     ELSE [t \in DOMAIN chunk.sound |-> 1 + Digits(chunk.sound[t])]
           most == Limit - 1
<1>1. /\ chunk.video \in Nat /\ chunk.sound \in Seq(Nat)
      /\ SumOf(chunk.sound) \in Nat /\ SumOf(chunk.sound) <= Bytes(chunk)
      /\ chunk.video <= Bytes(chunk) /\ Bytes(chunk) \in Nat
  BY BytesAreNat DEF Chunks
<1>2. most \in Printed /\ n <= most
  BY LimitIsNat DEF Printed
<1>3. \A k \in Nat : k <= Bytes(chunk) => Digits(k) \in 1 .. 11
  <2> SUFFICES ASSUME NEW k \in Nat, k <= Bytes(chunk) PROVE Digits(k) \in 1 .. 11
    OBVIOUS
  <2>1. k < Limit /\ k <= k
    BY <1>1, LimitIsNat
  <2>2. k \in Printed
    BY <2>1, PrintedBelow
  <2>3. QED
    BY <2>1, <2>2, DigitsGrow
<1>4. \A t \in DOMAIN chunk.sound : Digits(chunk.sound[t]) \in 1 .. 11
  <2> SUFFICES ASSUME NEW t \in DOMAIN chunk.sound
               PROVE  Digits(chunk.sound[t]) \in 1 .. 11
    OBVIOUS
  <2>1. chunk.sound[t] \in Nat /\ chunk.sound[t] <= SumOf(chunk.sound)
    BY <1>1, SumOfSequence
  <2>2. chunk.sound[t] <= Bytes(chunk)
    BY <1>1, <2>1
  <2>3. QED
    BY <1>3, <2>1, <2>2
<1>5. /\ fields \in Seq(Nat) /\ 1 \in DOMAIN fields /\ fields[1] >= 2
  <2>1. CASE chunk.sound = <<>>
    BY <2>1
  <2>2. CASE chunk.sound # <<>>
    <3> DEFINE g == [t \in DOMAIN chunk.sound |-> 1 + Digits(chunk.sound[t])]
    <3>1. DOMAIN chunk.sound = 1 .. Len(chunk.sound) /\ Len(chunk.sound) \in Nat
            /\ 1 \in DOMAIN chunk.sound
      BY <1>1, <2>2
    <3>2. \A t \in DOMAIN chunk.sound : 1 + Digits(chunk.sound[t]) \in Nat
      BY <1>4
    <3>3. g \in [1 .. Len(chunk.sound) -> Nat]
      BY <3>1, <3>2
    <3>4. g \in Seq(Nat) /\ g[1] = 1 + Digits(chunk.sound[1]) /\ 1 \in DOMAIN g
      BY <3>1, <3>3
    <3>5. fields = g
      BY <2>2
    <3>6. Digits(chunk.sound[1]) \in 1 .. 11
      BY <1>4, <3>1
    <3> HIDE DEF fields, g
    <3>7. QED
      BY <3>4, <3>5, <3>6
  <2>3. QED
    BY <2>1, <2>2
<1> HIDE DEF fields
<1>6. SumOf(fields) \in Nat /\ SumOf(fields) >= 2
  <2>1. SumOf(fields) \in Nat /\ fields[1] <= SumOf(fields) /\ fields[1] \in Nat
    BY <1>5, SumOfSequence
  <2>2. QED
    BY <1>5, <2>1
<1>7. /\ CatalogueLine(n, chunk)
           = Digits(n) + 1 + Digits(chunk.video) + SumOf(fields) + 1
      /\ CatalogueLine(most, chunk)
           = Digits(most) + 1 + Digits(chunk.video) + SumOf(fields) + 1
  BY DEF CatalogueLine, fields
<1>8. /\ Digits(n) \in 1 .. 11 /\ Digits(most) \in 1 .. 11
      /\ Digits(n) <= Digits(most)
  BY <1>2, DigitsGrow
<1>9. Digits(chunk.video) \in 1 .. 11
  BY <1>1, <1>3
<1>10. /\ CatalogueLine(n, chunk) \in Nat /\ CatalogueLine(n, chunk) >= 6
       /\ CatalogueLine(most, chunk) \in Nat
       /\ CatalogueLine(n, chunk) <= CatalogueLine(most, chunk)
  BY <1>6, <1>7, <1>8, <1>9
<1>11. QED
  BY <1>10 DEF most

\* The length of the catalogue, and the most it can be.
CatalogueLength(at) ==
  SumOf([i \in DOMAIN movie |-> CatalogueLine(at[i], movie[i])])

LongestCatalogue(m) ==
  SumOf([i \in DOMAIN m |-> CatalogueLine(Limit - 1, m[i])])

LEMMA CatalogueBounds ==
  ASSUME Base = 10, NEW w, Room(w), NEW at,
         \A i \in DOMAIN movie : at[i] \in Printed
  PROVE  /\ CatalogueLength(at) \in Nat
         /\ CatalogueLength(at) >= 6 * Len(movie)
         /\ CatalogueLength(at) <= LongestCatalogue(movie)
         /\ LongestCatalogue(movie) \in Nat
<1> DEFINE f == [i \in DOMAIN movie |-> CatalogueLine(at[i], movie[i])]
           g == [i \in DOMAIN movie |-> CatalogueLine(Limit - 1, movie[i])]
<1>1. /\ Len(movie) \in Nat /\ DOMAIN movie = 1 .. Len(movie)
      /\ \A i \in DOMAIN movie : movie[i] \in Chunks
  BY DEF Room
<1>2. \A i \in DOMAIN movie : Bytes(movie[i]) < Limit
  <2>1. \A i \in DOMAIN movie : Bytes(movie[i]) \in Nat /\ Bytes(movie[i]) < w
    BY DEF Room
  <2>2. w \in Nat /\ w < Limit
    BY RoomPrints DEF Room
  <2>3. QED
    BY <2>1, <2>2, LimitIsNat
<1>3. ASSUME NEW i \in DOMAIN movie
      PROVE  f[i] \in Nat /\ f[i] >= 6 /\ g[i] \in Nat /\ f[i] <= g[i]
  BY <1>1, <1>2, LineLength
<1>4. IsFiniteSet(DOMAIN movie) /\ Cardinality(DOMAIN movie) = Len(movie)
  <2>1. IsFiniteSet(1 .. Len(movie)) /\ Cardinality(1 .. Len(movie)) = Len(movie)
    <3>1. /\ 1 <= Len(movie) + 1 /\ 1 \in Int /\ Len(movie) \in Int
          /\ (Len(movie) - 1) + 1 = Len(movie) /\ (1 > Len(movie) <=> Len(movie) = 0)
      BY <1>1
    <3>2. QED
      BY <3>1, FS_Interval
  <2>2. QED
    BY <1>1, <2>1
<1>5. DOMAIN f = DOMAIN movie /\ DOMAIN g = DOMAIN movie
  OBVIOUS
<1>6. CatalogueLength(at) = SumOf(f) /\ LongestCatalogue(movie) = SumOf(g)
  BY DEF CatalogueLength, LongestCatalogue
<1> HIDE DEF f, g
<1>7. PICK itf : Sums(itf, f) /\ SumOf(f) = itf[DOMAIN movie]
  BY <1>3, <1>4, <1>5, SumIs
<1>8. PICK itg : Sums(itg, g) /\ SumOf(g) = itg[DOMAIN movie]
  BY <1>3, <1>4, <1>5, SumIs
<1>9. itf[DOMAIN movie] \in Nat /\ itg[DOMAIN movie] \in Nat
  BY <1>3, <1>4, <1>5, <1>7, <1>8, SumBounds
<1>10. itf[DOMAIN movie] >= 6 * Cardinality(DOMAIN movie)
  BY <1>3, <1>4, <1>5, <1>7, SumAtLeast
<1>11. itf[DOMAIN movie] <= itg[DOMAIN movie]
  BY <1>3, <1>4, <1>5, <1>7, <1>8, SumGrows
<1>12. QED
  BY <1>4, <1>6, <1>7, <1>8, <1>9, <1>10, <1>11

-----------------------------------------------------------------------------

(* From the catalogue to the end of the file.                              *)

\* The first chunk is no earlier than here in a round of the loop.
CatalogueFrom(r) == CatalogueStart + Len(movie) * LineGuess + r * (mask + 1)

Converging ==
  /\ round \in 0 .. CatalogueRounds - 1
  /\ firstData \in Nat
  /\ CatalogueFrom(round) <= firstData
  /\ firstData <= CatalogueFrom(round) + mask

\* The chunks written so far and the catalogue lie in the file.
Assembling ==
  /\ offsets \in [DOMAIN movie -> Nat]
  /\ catalogue \in Nat /\ catalogue >= 6 * Len(movie)
  /\ written \in 0 .. Len(movie)
  /\ size \in Nat /\ CatalogueStart + catalogue <= size
  /\ \A i \in 1 .. written : Inside(i)

LayoutInv ==
  /\ HeaderInv
  /\ pc \in {"header", "catalogue"} => written = 0
  /\ pc = "catalogue" => Converging
  /\ pc \in {"assemble", "written"} => Assembling
  /\ pc = "written" => written = Len(movie)
  /\ pc # "rejected"

\* The catalogue starts where the header says.
LEMMA StartIs ==
  ASSUME HeaderFixed, NEW w, Room(w)
  PROVE  /\ header.catalogueOffset = CatalogueStart /\ CatalogueStart \in Nat
         /\ header.length + sprite + KeyCount * keySize = CatalogueStart
         /\ CatalogueStart <= HeaderText + 81 + sprite + KeyCount * keySize
         /\ header.spriteOffset \in 0 .. header.length
         /\ header.keysOffset \in -1 .. header.length + sprite
         /\ header.length \in Nat
<1>1. PICK n \in HeaderText + 17 .. HeaderText + 81 :
        header = Render(n) /\ header.length = n
  BY DEF HeaderFixed
<1>2. HeaderText \in Nat /\ sprite \in Nat /\ KeyCount * keySize \in Nat
  BY LayoutAssumption DEF Room
<1>3. /\ header.catalogueOffset = n + sprite + KeyCount * keySize
      /\ header.spriteOffset = IF sprite # 0 THEN n ELSE 0
      /\ header.keysOffset = IF KeyCount # 0 THEN n + sprite ELSE -1
  BY <1>1 DEF Render
<1>4. CatalogueStart = n + sprite + KeyCount * keySize
  BY <1>1 DEF CatalogueStart
<1> DEFINE k == KeyCount * keySize
<1> HIDE DEF k
<1>5. /\ k \in Nat /\ header.catalogueOffset = n + sprite + k
      /\ CatalogueStart = n + sprite + k
  BY <1>2, <1>3, <1>4 DEF k
<1>6. CatalogueStart \in Nat /\ CatalogueStart <= HeaderText + 81 + sprite + k
  BY <1>1, <1>2, <1>5
<1>7. /\ header.spriteOffset \in 0 .. n /\ header.keysOffset \in -1 .. n + sprite
      /\ n \in Nat
  BY <1>1, <1>2, <1>3
<1>8. QED
  BY <1>1, <1>3, <1>4, <1>6, <1>7 DEF k

\* The offsets of a round are printed.
LEMMA OffsetsPrinted ==
  ASSUME WriterNumbers, HeaderFixed, Converging, NEW w, Room(w)
  PROVE  \A i \in DOMAIN movie : ChunkOffsets[i] \in Printed
<1> SUFFICES ASSUME NEW i \in DOMAIN movie PROVE ChunkOffsets[i] \in Printed
  OBVIOUS
<1> DEFINE k == KeyCount * keySize
           g == Len(movie) * LineGuess
           c == CatalogueRounds * (mask + 1)
           t == Len(movie) * Spaced(w)
           cr == round * (mask + 1)
           ti == (i - 1) * Spaced(w)
<1>1. /\ k \in Nat /\ g \in Nat /\ c \in Nat /\ sprite \in Nat /\ mask \in Nat
      /\ HeaderText + 90 + sprite + k + g + t + c + mask + 1 < Limit
  BY DEF Room
<1>2. cr \in Nat /\ cr <= c
  <2>1. round \in 0 .. CatalogueRounds
    BY LayoutAssumption DEF Converging
  <2>2. QED
    BY <2>1 DEF Room
<1>3. i \in 1 .. Len(movie) /\ ti \in Nat /\ ti <= t /\ t \in Nat
  <2>1. /\ i \in 1 .. Len(movie) /\ i - 1 \in 0 .. Len(movie)
        /\ Len(movie) \in 0 .. Len(movie)
    BY RoomFacts
  <2>2. \A j \in 0 .. Len(movie) :
          j * Spaced(w) \in Nat /\ j * Spaced(w) <= Len(movie) * Spaced(w)
    BY Zenon DEF Room
  <2>3. QED
    BY <2>1, <2>2
<1>4. /\ CatalogueStart \in Nat /\ CatalogueStart <= HeaderText + 81 + sprite + k
      /\ firstData \in Nat /\ firstData <= CatalogueStart + g + cr + mask
  BY StartIs DEF Converging, CatalogueFrom
<1>5. ChunkOffsets[i] \in Nat /\ ChunkOffsets[i] <= firstData + ti
  BY <1>3, <1>4, OffsetsSpaced
<1>6. HeaderText \in Nat /\ Limit \in Nat
  BY LayoutAssumption, LimitIsNat
<1> DEFINE offset == ChunkOffsets[i]
<1>7. offset \in Nat /\ offset <= firstData + ti
  BY <1>5
<1> HIDE DEF k, g, c, t, cr, ti, offset
<1>8. offset < Limit
  BY <1>1, <1>2, <1>3, <1>4, <1>6, <1>7
<1>9. QED
  BY <1>7, <1>8, PrintedBelow DEF offset

LEMMA LayoutRenderStep ==
  ASSUME WriterNumbers, LayoutInv, HeaderInv', RenderHeader
  PROVE  LayoutInv'
<1>1. PICK w : Room(w) /\ Room(w)'
  <2>1. PICK w : Room(w)
    BY RoomThere DEF LayoutInv, HeaderInv
  <2>2. Room(w)'
    BY <2>1, InputKept DEF RenderHeader
  <2>3. QED
    BY <2>1, <2>2
<1>2. /\ pc = "header" /\ written = 0 /\ written' = written
      /\ UNCHANGED inputVars /\ movie' = movie /\ mask' = mask
  BY DEF LayoutInv, RenderHeader, inputVars
<1>3. CASE pc' = "header"
  BY <1>2, <1>3 DEF LayoutInv
<1>4. CASE pc' # "header"
  <2>1. /\ pc' = "catalogue" /\ round' = 0
        /\ firstData' = AlignUp(header'.catalogueOffset + Len(movie) * LineGuess)
    BY <1>2, <1>4 DEF RenderHeader, EnterCatalogue
  <2>2. HeaderFixed'
    BY <2>1 DEF HeaderInv
  <2>3. header'.catalogueOffset = CatalogueStart' /\ CatalogueStart' \in Nat
    <3>1. PICK n \in HeaderText + 17 .. HeaderText + 81 :
            header' = Render(n)' /\ header'.length = n
      BY <2>2 DEF HeaderFixed
    <3>2. header' = Render(n) /\ KeyCount' = KeyCount
      BY <1>2, <3>1, InputKept
    <3>3. header'.catalogueOffset = n + sprite + KeyCount * keySize
      BY <3>2 DEF Render
    <3>4. CatalogueStart' = n + sprite + KeyCount * keySize
      BY <1>2, <3>1, <3>2 DEF CatalogueStart, inputVars
    <3>5. n + sprite + KeyCount * keySize \in Nat
      <4>1. HeaderText \in Nat /\ sprite \in Nat /\ KeyCount * keySize \in Nat
        BY <1>1, LayoutAssumption DEF Room
      <4>2. QED
        BY <4>1
    <3>6. QED
      BY <3>3, <3>4, <3>5
  <2>4. /\ mask \in Nat /\ Len(movie) * LineGuess \in Nat
        /\ CatalogueRounds \in Nat \ {0} /\ 0 * (mask + 1) = 0
    BY <1>1, LayoutAssumption DEF Room
  <2>5. Converging'
    <3> DEFINE g == Len(movie) * LineGuess
               from == CatalogueStart' + g
    <3>1. from \in Nat /\ firstData' = AlignUp(from) /\ g \in Nat
      BY <2>1, <2>3, <2>4
    <3>2. /\ firstData' \in Nat /\ from <= firstData'
          /\ firstData' <= from + mask
      BY <2>4, <3>1, AlignUpBounds
    <3>3. CatalogueFrom(0)' = from
      <4>1. CatalogueFrom(0)' = CatalogueStart' + g + 0 * (mask + 1)
        BY <1>2 DEF CatalogueFrom
      <4> HIDE DEF g
      <4>2. QED
        BY <2>3, <2>4, <3>1, <4>1
    <3>4. CatalogueFrom(round)' = CatalogueFrom(0)'
      BY <2>1 DEF CatalogueFrom
    <3> HIDE DEF from
    <3>5. QED
      BY <1>2, <2>1, <2>4, <3>2, <3>3, <3>4 DEF Converging
  <2>6. QED
    BY <1>2, <2>1, <2>5 DEF LayoutInv
<1>5. QED
  BY <1>3, <1>4

\* A round of the catalogue loop, from the state that it finds.
LEMMA CatalogueRound ==
  ASSUME WriterNumbers, HeaderFixed, Converging, NEW w, Room(w)
  PROVE  /\ \A i \in DOMAIN movie : ChunkOffsets[i] \in Printed
         /\ ChunkOffsets \in [DOMAIN movie -> Nat]
         /\ CatalogueLength(ChunkOffsets) \in Nat
         /\ CatalogueLength(ChunkOffsets) >= 6 * Len(movie)
         /\ CatalogueLength(ChunkOffsets) <= LongestCatalogue(movie)
         /\ LongestCatalogue(movie) \in Nat
<1>1. firstData \in Nat /\ Base = 10
  BY DEF Converging, WriterNumbers
<1>2. ChunkOffsets \in [DOMAIN movie -> Nat]
  BY <1>1, OffsetsSpaced
<1>3. \A i \in DOMAIN movie : ChunkOffsets[i] \in Printed
  BY OffsetsPrinted
<1>4. QED
  BY <1>1, <1>2, <1>3, CatalogueBounds

LEMMA LayoutBuildStep ==
  ASSUME WriterNumbers, LayoutInv, HeaderInv', BuildCatalogue
  PROVE  LayoutInv'
<1>1. PICK w : Room(w)
  BY RoomThere DEF LayoutInv, HeaderInv
<1>2. /\ pc = "catalogue" /\ written = 0 /\ UNCHANGED written
      /\ UNCHANGED inputVars /\ movie' = movie /\ mask' = mask
      /\ UNCHANGED header /\ HeaderFixed /\ Converging
  BY DEF LayoutInv, HeaderInv, BuildCatalogue, inputVars
<1>3. CatalogueStart' = CatalogueStart /\ CatalogueStart \in Nat
  <2>1. CatalogueStart \in Nat
    BY <1>1, <1>2, StartIs
  <2>2. CatalogueStart' = CatalogueStart
    BY <1>2, InputKept DEF CatalogueStart, inputVars
  <2>3. QED
    BY <2>1, <2>2
<1> DEFINE length == CatalogueLength(ChunkOffsets)
<1>4. /\ offsets' = ChunkOffsets /\ catalogue' = length
      /\ size' = header.length + sprite + KeyCount * keySize + length
      /\ IF Fits(length)
         THEN pc' = "assemble"
         ELSE /\ firstData' = firstData + mask + 1
              /\ round' = round + 1
              /\ pc' = IF round + 1 = CatalogueRounds THEN "assemble" ELSE pc
  BY DEF BuildCatalogue, CatalogueLength
<1>5. /\ ChunkOffsets \in [DOMAIN movie -> Nat]
      /\ length \in Nat /\ length >= 6 * Len(movie)
  BY <1>1, <1>2, CatalogueRound
<1> HIDE DEF length
<1>6. size' = CatalogueStart + length
  BY <1>4 DEF CatalogueStart
<1>7. CASE pc' = "assemble"
  <2>1. Len(movie) \in Nat
    BY <1>1 DEF Room
  <2>2. Assembling'
    BY <1>2, <1>3, <1>4, <1>5, <1>6, <2>1 DEF Assembling
  <2>3. QED
    BY <1>2, <1>7, <2>2 DEF LayoutInv
<1>8. CASE pc' # "assemble"
  <2>1. /\ pc' = "catalogue" /\ round + 1 # CatalogueRounds
        /\ firstData' = firstData + mask + 1 /\ round' = round + 1
    BY <1>2, <1>4, <1>8
  <2>2. Converging'
    <3> DEFINE g == Len(movie) * LineGuess
               c == round * (mask + 1)
               d == (round + 1) * (mask + 1)
    <3>1. /\ round \in 0 .. CatalogueRounds - 1 /\ CatalogueRounds \in Nat
          /\ firstData \in Nat /\ mask \in Nat
          /\ round + 1 \in 0 .. CatalogueRounds - 1
      <4>1. /\ round \in 0 .. CatalogueRounds - 1 /\ firstData \in Nat
            /\ mask \in Nat /\ CatalogueRounds \in Nat
        BY <1>1, <1>2, LayoutAssumption DEF Converging, Room
      <4>2. QED
        BY <2>1, <4>1
    <3>2. g \in Nat /\ c \in Nat /\ d = c + mask + 1
      <4>1. round \in 0 .. CatalogueRounds
        BY <3>1
      <4>2. QED
        BY <1>1, <4>1 DEF Room
    <3>3. /\ CatalogueFrom(round) = CatalogueStart + g + c
          /\ CatalogueFrom(round)' = CatalogueStart + g + d
      BY <1>2, <1>3, <2>1 DEF CatalogueFrom
    <3> HIDE DEF g, c, d
    <3>4. /\ CatalogueStart + g + c <= firstData
          /\ firstData <= CatalogueStart + g + c + mask
      BY <1>2, <3>3 DEF Converging
    <3>5. /\ firstData' \in Nat
          /\ CatalogueStart + g + d <= firstData'
          /\ firstData' <= CatalogueStart + g + d + mask
      BY <1>3, <2>1, <3>1, <3>2, <3>4
    <3>6. QED
      BY <1>2, <2>1, <3>1, <3>3, <3>5 DEF Converging
  <2>3. QED
    BY <1>2, <2>1, <2>2 DEF LayoutInv
<1>9. QED
  BY <1>7, <1>8

LEMMA LayoutAppendStep ==
  ASSUME WriterNumbers, LayoutInv, HeaderInv', AppendChunk
  PROVE  LayoutInv'
<1>1. PICK w : Room(w)
  BY RoomThere DEF LayoutInv, HeaderInv
<1>2. /\ pc = "assemble" /\ written < Len(movie) /\ HeaderFixed /\ Assembling
      /\ UNCHANGED <<inputVars, header, offsets, catalogue>>
      /\ sprite' = sprite /\ keySize' = keySize /\ movie' = movie
  BY DEF LayoutInv, HeaderInv, AppendChunk, inputVars
<1>3. CASE offsets[written + 1] < size
  <2>1. pc' = "failed"
    BY <1>3 DEF AppendChunk
  <2>2. QED
    BY <2>1 DEF LayoutInv
<1>4. CASE ~ (offsets[written + 1] < size)
  <2> DEFINE k == written + 1
             end == offsets[k] + Bytes(movie[k])
  <2>1. written' = k /\ size' = end /\ pc' = "assemble"
    BY <1>2, <1>4 DEF AppendChunk
  <2>2. /\ Len(movie) \in Nat /\ DOMAIN movie = 1 .. Len(movie)
        /\ \A i \in DOMAIN movie : Bytes(movie[i]) \in Nat
    BY <1>1 DEF Room
  <2>3. /\ written \in 0 .. Len(movie) /\ k \in 1 .. Len(movie) /\ size \in Nat
        /\ offsets \in [DOMAIN movie -> Nat] /\ catalogue \in Nat
        /\ CatalogueStart + catalogue <= size
    BY <1>2, <2>2 DEF Assembling
  <2>4. end \in Nat /\ size <= end
    BY <1>4, <2>2, <2>3
  <2>5. CatalogueStart' = CatalogueStart /\ CatalogueStart \in Nat
    <3>1. CatalogueStart \in Nat
      BY <1>1, <1>2, StartIs
    <3>2. CatalogueStart' = CatalogueStart
      BY <1>2, InputKept DEF CatalogueStart
    <3>3. QED
      BY <3>1, <3>2
  <2>6. ASSUME NEW i \in 1 .. k
        PROVE  Inside(i)'
    <3>1. CASE i = k
      <4>1. Inside(i)' <=> end <= end
        BY <1>2, <2>1, <3>1 DEF Inside
      <4>2. QED
        BY <2>4, <4>1
    <3>2. CASE i # k
      <4>1. i \in 1 .. written /\ i \in DOMAIN movie
        BY <2>2, <2>3, <3>2
      <4>2. offsets[i] + Bytes(movie[i]) <= size
        BY <1>2, <4>1 DEF Assembling, Inside
      <4>3. offsets[i] \in Nat /\ Bytes(movie[i]) \in Nat
        BY <2>2, <2>3, <4>1
      <4>4. offsets[i] + Bytes(movie[i]) <= end
        BY <2>3, <2>4, <4>2, <4>3
      <4>5. QED
        BY <1>2, <2>1, <4>4 DEF Inside
    <3>3. QED
      BY <3>1, <3>2
  <2> HIDE DEF k, end
  <2>7. Assembling'
    <3>1. CatalogueStart + catalogue <= end /\ k \in 0 .. Len(movie)
      BY <2>2, <2>3, <2>4, <2>5
    <3>2. catalogue >= 6 * Len(movie)
      BY <1>2 DEF Assembling
    <3>3. QED
      BY <1>2, <2>1, <2>3, <2>4, <2>5, <2>6, <3>1, <3>2 DEF Assembling
  <2>8. QED
    BY <2>1, <2>7 DEF LayoutInv
<1>5. QED
  BY <1>3, <1>4

LEMMA LayoutParseStep ==
  ASSUME WriterNumbers, LayoutInv, HeaderInv', Parse
  PROVE  LayoutInv'
<1>1. PICK w : Room(w)
  BY RoomThere DEF LayoutInv, HeaderInv
<1>2. /\ pc = "written" /\ HeaderFixed /\ Assembling /\ written = Len(movie)
      /\ pc' = IF Acceptable THEN "accepted" ELSE "rejected"
  BY DEF LayoutInv, HeaderInv, Parse
<1>3. Acceptable
  <2> DEFINE k == KeyCount * keySize
             n == Len(movie)
             cat == CatalogueStart
  <2>1. /\ header.catalogueOffset = cat /\ cat \in Nat
        /\ header.length + sprite + k = cat
        /\ header.spriteOffset \in 0 .. header.length
        /\ header.keysOffset \in -1 .. header.length + sprite
        /\ header.length \in Nat
    BY <1>1, <1>2, StartIs
  <2>2. sprite \in Nat /\ k \in Nat /\ n \in Nat /\ DOMAIN movie = 1 .. n
    BY <1>1 DEF Room
  <2>3. /\ size \in Nat /\ cat + catalogue <= size /\ catalogue \in Nat
        /\ catalogue >= 6 * n
    BY <1>2 DEF Assembling
  <2>4. \A i \in DOMAIN movie : Inside(i)
    BY <1>2, <2>2 DEF Assembling
  <2> HIDE DEF k, n, cat
  <2>5. /\ header.spriteOffset + sprite <= size /\ header.keysOffset <= size
    BY <2>1, <2>2, <2>3
  <2>6. n <= (size - cat) \div 6
    <3>1. size - cat \in Nat /\ 6 * n <= size - cat
      BY <2>1, <2>2, <2>3
    <3>2. QED
      BY <2>2, <3>1
  <2>7. QED
    BY <2>1, <2>4, <2>5, <2>6 DEF Acceptable, cat, n
<1>4. pc' = "accepted"
  BY <1>2, <1>3
<1>5. QED
  BY <1>4 DEF LayoutInv

LEMMA LayoutInit == Init => LayoutInv
BY HeaderInit DEF Init, LayoutInv

LEMMA LayoutStep ==
  ASSUME WriterNumbers, LayoutInv, [Next]_vars
  PROVE  LayoutInv'
<1>1. HeaderInv'
  BY HeaderStep DEF LayoutInv
<1>2. CASE RenderHeader
  BY <1>1, <1>2, LayoutRenderStep
<1>3. CASE BuildCatalogue
  BY <1>1, <1>3, LayoutBuildStep
<1>4. CASE AppendChunk
  BY <1>1, <1>4, LayoutAppendStep
<1>5. CASE Parse
  BY <1>1, <1>5, LayoutParseStep
<1>6. CASE Finish \/ UNCHANGED vars
  <2>1. /\ UNCHANGED <<sprite, keySize, movie, mask, header, firstData, offsets,
                       catalogue, round, written, size>>
        /\ UNCHANGED inputVars
        /\ \/ pc' = pc
           \/ pc = "assemble" /\ pc' = "written" /\ written = Len(movie)
    BY <1>6 DEF Finish, vars, inputVars
  <2>2. KeyCount' = KeyCount
    BY <2>1, InputKept
  <2>3. CatalogueStart' = CatalogueStart /\ \A i : Inside(i)' = Inside(i)
    BY <2>1, <2>2 DEF CatalogueStart, Inside
  <2>4. Assembling' = Assembling /\ Converging' = Converging
    BY <2>1, <2>3 DEF Assembling, Converging, CatalogueFrom
  <2>5. QED
    BY <1>1, <2>1, <2>4 DEF LayoutInv
<1>7. QED
  BY <1>2, <1>3, <1>4, <1>5, <1>6 DEF Next

\* What the writer completes the parser accepts: the catalogue is where the
\* header says, with six bytes for every chunk, and sprite, keys and chunks
\* lie in the file, however long the catalogue was.
THEOREM ParserAlwaysAccepts == WriterNumbers => (Spec => []ParserAccepts)
<1>1. SUFFICES ASSUME WriterNumbers PROVE Spec => []ParserAccepts
  OBVIOUS
<1>2. Init => LayoutInv
  BY LayoutInit
<1>3. LayoutInv /\ [Next]_vars => LayoutInv'
  BY <1>1, LayoutStep
<1>4. LayoutInv => ParserAccepts
  BY DEF LayoutInv, ParserAccepts
<1>5. QED
  BY <1>2, <1>3, <1>4, PTL DEF Spec

-----------------------------------------------------------------------------

(* A file is completed.                                                    *)

\* The longest catalogue a movie can have is no longer than what LineGuess
\* and the rounds of the loop set aside before the first chunk.
RoomForCatalogue ==
  \A m \in Movies, a \in Masks :
    LongestCatalogue(m) <= Len(m) * LineGuess + (CatalogueRounds - 1) * (a + 1)

\* The catalogue ends before the first chunk, and the file after the chunk
\* written last and no later than the next is due.
InOrder ==
  /\ CatalogueStart + catalogue <= offsets[1]
  /\ \A i \in 1 .. Len(movie) - 1 :
       offsets[i] + Bytes(movie[i]) <= offsets[i + 1]
  /\ written = 0 => size = CatalogueStart + catalogue
  /\ written # 0 => size = offsets[written] + Bytes(movie[written])

CompleteInv ==
  /\ LayoutInv
  /\ pc = "assemble" => InOrder
  /\ pc # "failed"

LEMMA LastRoundFits ==
  ASSUME RoomForCatalogue, WriterNumbers, LayoutInv, pc = "catalogue",
         round + 1 = CatalogueRounds
  PROVE  Fits(CatalogueLength(ChunkOffsets))
<1>1. PICK w : Room(w)
  BY RoomThere DEF LayoutInv, HeaderInv
<1>2. HeaderFixed /\ Converging /\ InputOK
  BY DEF LayoutInv, HeaderInv
<1> DEFINE length == CatalogueLength(ChunkOffsets)
           g == Len(movie) * LineGuess
           c == (CatalogueRounds - 1) * (mask + 1)
           longest == LongestCatalogue(movie)
<1>3. length \in Nat /\ length <= longest /\ longest \in Nat
  BY <1>1, <1>2, CatalogueRound
<1>4. longest <= g + c
  BY <1>2 DEF RoomForCatalogue, InputOK
<1>5. CatalogueStart \in Nat /\ header.catalogueOffset = CatalogueStart
  BY <1>1, <1>2, StartIs
<1>6. CatalogueStart + g + c <= firstData /\ firstData \in Nat
  <2>1. round = CatalogueRounds - 1
    BY <1>2, LayoutAssumption DEF Converging
  <2>2. CatalogueFrom(round) <= firstData /\ firstData \in Nat
    BY <1>2 DEF Converging
  <2>3. CatalogueFrom(round) = CatalogueStart + g + c
    BY <2>1 DEF CatalogueFrom
  <2>4. QED
    BY <2>2, <2>3
<1>7. g \in Nat /\ c \in Nat
  <2>1. /\ g \in Nat
        /\ \A r \in 0 .. CatalogueRounds : r * (mask + 1) \in Nat
    BY <1>1, RoomFacts
  <2>2. CatalogueRounds - 1 \in 0 .. CatalogueRounds
    BY LayoutAssumption
  <2>3. QED
    BY <2>1, <2>2
<1> HIDE DEF length, g, c, longest
<1>8. CatalogueStart + length <= firstData
  BY <1>3, <1>4, <1>5, <1>6, <1>7
<1>9. QED
  BY <1>5, <1>8 DEF Fits, length

LEMMA CompleteBuildStep ==
  ASSUME RoomForCatalogue, WriterNumbers, CompleteInv, LayoutInv', BuildCatalogue
  PROVE  CompleteInv'
<1>1. PICK w : Room(w)
  BY RoomThere DEF CompleteInv, LayoutInv, HeaderInv
<1>2. /\ pc = "catalogue" /\ LayoutInv /\ HeaderFixed /\ Converging
      /\ written' = 0 /\ UNCHANGED inputVars
      /\ sprite' = sprite /\ keySize' = keySize /\ movie' = movie
      /\ UNCHANGED header
  BY DEF CompleteInv, LayoutInv, HeaderInv, BuildCatalogue, inputVars
<1> DEFINE length == CatalogueLength(ChunkOffsets)
<1>3. /\ offsets' = ChunkOffsets /\ catalogue' = length
      /\ size' = header.length + sprite + KeyCount * keySize + length
      /\ pc' = IF Fits(length) \/ round + 1 = CatalogueRounds
               THEN "assemble" ELSE "catalogue"
  BY <1>2 DEF BuildCatalogue, CatalogueLength
<1>4. CASE pc' = "assemble"
  <2>1. Fits(length)
    BY <1>2, <1>3, <1>4, LastRoundFits
  <2>2. /\ header.catalogueOffset = CatalogueStart
        /\ CatalogueStart' = CatalogueStart
    <3>1. header.catalogueOffset = CatalogueStart
      BY <1>1, <1>2, StartIs
    <3>2. CatalogueStart' = CatalogueStart
      BY <1>2, InputKept DEF CatalogueStart
    <3>3. QED
      BY <3>1, <3>2
  <2>3. /\ ChunkOffsets[1] = firstData
        /\ \A i \in 1 .. Len(movie) - 1 :
             ChunkOffsets[i] + Bytes(movie[i]) <= ChunkOffsets[i + 1]
    <3>1. firstData \in Nat
      BY <1>2 DEF Converging
    <3>2. QED
      BY <1>1, <3>1, OffsetsSpaced
  <2> HIDE DEF length
  <2>4. /\ CatalogueStart + length <= ChunkOffsets[1]
        /\ size' = CatalogueStart + length
    BY <1>3, <2>1, <2>2, <2>3 DEF Fits, CatalogueStart
  <2>5. InOrder'
    BY <1>2, <1>3, <2>2, <2>3, <2>4 DEF InOrder
  <2>6. QED
    BY <1>4, <2>5 DEF CompleteInv
<1>5. CASE pc' # "assemble"
  BY <1>3, <1>5 DEF CompleteInv
<1>6. QED
  BY <1>4, <1>5

LEMMA CompleteAppendStep ==
  ASSUME CompleteInv, WriterNumbers, LayoutInv', AppendChunk
  PROVE  CompleteInv'
<1>1. PICK w : Room(w)
  BY RoomThere DEF CompleteInv, LayoutInv, HeaderInv
<1>2. /\ pc = "assemble" /\ written < Len(movie) /\ HeaderFixed /\ Assembling
      /\ InOrder /\ UNCHANGED <<inputVars, header, offsets, catalogue>>
      /\ sprite' = sprite /\ keySize' = keySize /\ movie' = movie
  BY DEF CompleteInv, LayoutInv, HeaderInv, AppendChunk, inputVars
<1>3. /\ Len(movie) \in Nat /\ DOMAIN movie = 1 .. Len(movie)
      /\ written \in 0 .. Len(movie) /\ size \in Nat
      /\ offsets \in [DOMAIN movie -> Nat]
  BY <1>1, <1>2 DEF Assembling, Room
<1>4. ~ (offsets[written + 1] < size)
  <2>1. CASE written = 0
    <3>1. size = CatalogueStart + catalogue /\ size <= offsets[1]
      BY <1>2, <2>1 DEF InOrder
    <3>2. offsets[1] \in Nat /\ written + 1 = 1
      BY <1>2, <1>3, <2>1
    <3>3. QED
      BY <1>3, <3>1, <3>2
  <2>2. CASE written # 0
    <3>1. /\ written \in 1 .. Len(movie) - 1 /\ written + 1 \in DOMAIN movie
      BY <1>2, <1>3, <2>2
    <3>2. /\ size = offsets[written] + Bytes(movie[written])
          /\ offsets[written] + Bytes(movie[written]) <= offsets[written + 1]
      BY <1>2, <2>2, <3>1 DEF InOrder
    <3>3. offsets[written + 1] \in Nat
      BY <1>3, <3>1
    <3>4. QED
      BY <1>3, <3>2, <3>3
  <2>3. QED
    BY <2>1, <2>2
<1>5. /\ written' = written + 1 /\ pc' = "assemble"
      /\ size' = offsets[written + 1] + Bytes(movie[written + 1])
  BY <1>2, <1>4 DEF AppendChunk
<1>6. CatalogueStart' = CatalogueStart
  BY <1>2, InputKept DEF CatalogueStart
<1>7. written + 1 # 0
  BY <1>3
<1>8. InOrder'
  BY <1>2, <1>5, <1>6, <1>7 DEF InOrder
<1>9. QED
  BY <1>5, <1>8 DEF CompleteInv

LEMMA CompleteInit == Init => CompleteInv
BY LayoutInit DEF Init, CompleteInv

LEMMA CompleteStep ==
  ASSUME RoomForCatalogue, WriterNumbers, CompleteInv, [Next]_vars
  PROVE  CompleteInv'
<1>1. LayoutInv'
  BY LayoutStep DEF CompleteInv
<1>2. CASE RenderHeader
  <2>1. pc' \in {"header", "catalogue"}
    BY <1>2 DEF RenderHeader, EnterCatalogue
  <2>2. QED
    BY <1>1, <2>1 DEF CompleteInv
<1>3. CASE BuildCatalogue
  BY <1>1, <1>3, CompleteBuildStep
<1>4. CASE AppendChunk
  BY <1>1, <1>4, CompleteAppendStep
<1>5. CASE Finish \/ Parse
  <2>1. pc' \in {"written", "accepted", "rejected"}
    BY <1>5 DEF Finish, Parse
  <2>2. QED
    BY <1>1, <2>1 DEF CompleteInv
<1>6. CASE UNCHANGED vars
  <2>1. /\ UNCHANGED <<sprite, keySize, movie, header, offsets, catalogue,
                       written, size, pc>>
        /\ UNCHANGED inputVars
    BY <1>6 DEF vars, inputVars
  <2>2. CatalogueStart' = CatalogueStart
    BY <2>1, InputKept DEF CatalogueStart
  <2>3. InOrder' = InOrder
    BY <2>1, <2>2 DEF InOrder
  <2>4. QED
    BY <1>1, <2>1, <2>3 DEF CompleteInv
<1>7. QED
  BY <1>2, <1>3, <1>4, <1>5, <1>6 DEF Next

\* With room for the longest catalogue the file never runs past the offset of
\* a chunk: every movie of that size is written.
THEOREM NeverOverruns ==
  WriterNumbers /\ RoomForCatalogue => (Spec => []NoOverrun)
<1>1. SUFFICES ASSUME WriterNumbers, RoomForCatalogue PROVE Spec => []NoOverrun
  OBVIOUS
<1>2. Init => CompleteInv
  BY CompleteInit
<1>3. CompleteInv /\ [Next]_vars => CompleteInv'
  BY <1>1, CompleteStep
<1>4. CompleteInv => NoOverrun
  BY DEF CompleteInv, NoOverrun
<1>5. QED
  BY <1>2, <1>3, <1>4, PTL DEF Spec

\* With that room the comment at the loop is right: it ends with a first
\* chunk that leaves space for the catalogue.
THEOREM CatalogueHasRoom ==
  WriterNumbers /\ RoomForCatalogue => (Spec => []CatalogueFits)
<1>1. SUFFICES ASSUME WriterNumbers, RoomForCatalogue PROVE Spec => []CatalogueFits
  OBVIOUS
<1>2. Init => CompleteInv
  BY CompleteInit
<1>3. CompleteInv /\ [Next]_vars => CompleteInv'
  BY <1>1, CompleteStep
<1>4. CompleteInv => CatalogueFits
  <2>1. SUFFICES ASSUME CompleteInv, pc = "assemble"
                 PROVE  header.catalogueOffset + catalogue <= offsets[1]
    BY DEF CatalogueFits
  <2>2. HeaderFixed /\ InOrder /\ InputOK
    BY <2>1 DEF CompleteInv, LayoutInv, HeaderInv
  <2>3. PICK w : Room(w)
    BY <1>1, <2>2, RoomThere
  <2>4. header.catalogueOffset = CatalogueStart
    BY <2>2, <2>3, StartIs
  <2>5. QED
    BY <2>2, <2>4 DEF InOrder
<1>5. QED
  BY <1>2, <1>3, <1>4, PTL DEF Spec
=============================================================================
