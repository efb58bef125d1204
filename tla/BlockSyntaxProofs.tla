-------------------------- MODULE BlockSyntaxProofs --------------------------
(***************************************************************************)
(* A frame of the Moving Blocks family, for any number of blocks, any      *)
(* vectors of the types' windows and any luma and chroma: chroma coded as  *)
(* deltas settles, the size a copy is reckoned at is the size written, and *)
(* a frame is read back as what was drawn.                                 *)
(*                                                                         *)
(* The first rests on what one delta does to the distance from its target, *)
(* the second on the writer's arithmetic for the place of a vector in its  *)
(* ring or in the far family, which must agree with the reader's tables.   *)
(* The third takes the writer and the reader as functions of the bits that *)
(* have passed (WriterOf, ReaderAt), lists the bits of every code (Trail)  *)
(* and shows that the writer adds them to the frame wherever the candidate *)
(* is moved to, and that a reader with them ahead takes them as that code. *)
(***************************************************************************)
EXTENDS BlockSyntax, SequenceTheorems, FiniteSetTheorems, WellFoundedInduction, TLAPS

\* Records with two of their fields changed.

PutWritten(r, x, y) == [r EXCEPT !.accumulator = x, !.total = y]
LEMMA PutWrittenIs ==
  ASSUME NEW b, NEW a, NEW n, NEW x, NEW y,
         NEW r, r = [bytes |-> b, accumulator |-> a, total |-> n]
  PROVE  PutWritten(r, x, y) = [bytes |-> b, accumulator |-> x, total |-> y]
<1>1. [[r EXCEPT !.accumulator = x] EXCEPT !.total = y]
        = [r EXCEPT !.accumulator = x, !.total = y]
  BY Zenon
<1>2. [r EXCEPT !.accumulator = x] = [bytes |-> b, accumulator |-> x, total |-> n]
  OBVIOUS
<1>3. [[bytes |-> b, accumulator |-> x, total |-> n]
         EXCEPT !.total = y]
        = [bytes |-> b, accumulator |-> x, total |-> y]
  OBVIOUS
<1>4. QED
  BY <1>1, <1>2, <1>3 DEF PutWritten

PutDrained(r, x, y) == [r EXCEPT !.bytes = x, !.accumulator = y]
LEMMA PutDrainedIs ==
  ASSUME NEW b, NEW a, NEW n, NEW x, NEW y,
         NEW r, r = [bytes |-> b, accumulator |-> a, total |-> n]
  PROVE  PutDrained(r, x, y) = [bytes |-> x, accumulator |-> y, total |-> n]
<1>1. [[r EXCEPT !.bytes = x] EXCEPT !.accumulator = y]
        = [r EXCEPT !.bytes = x, !.accumulator = y]
  BY Zenon
<1>2. [r EXCEPT !.bytes = x] = [bytes |-> x, accumulator |-> a, total |-> n]
  OBVIOUS
<1>3. [[bytes |-> x, accumulator |-> a, total |-> n]
         EXCEPT !.accumulator = y]
        = [bytes |-> x, accumulator |-> y, total |-> n]
  OBVIOUS
<1>4. QED
  BY <1>1, <1>2, <1>3 DEF PutDrained

PutCoded(r, x, y) == [r EXCEPT !.writer = x, !.drawn = y]
LEMMA PutCodedIs ==
  ASSUME NEW w, NEW p, NEW d, NEW x, NEW y,
         NEW r, r = [writer |-> w, predictor |-> p, drawn |-> d]
  PROVE  PutCoded(r, x, y) = [writer |-> x, predictor |-> p, drawn |-> y]
<1>1. [[r EXCEPT !.writer = x] EXCEPT !.drawn = y] = [r EXCEPT !.writer = x, !.drawn = y]
  BY Zenon
<1>2. [r EXCEPT !.writer = x] = [writer |-> x, predictor |-> p, drawn |-> d]
  OBVIOUS
<1>3. [[writer |-> x, predictor |-> p, drawn |-> d]
         EXCEPT !.drawn = y]
        = [writer |-> x, predictor |-> p, drawn |-> y]
  OBVIOUS
<1>4. QED
  BY <1>1, <1>2, <1>3 DEF PutCoded

PutChroma(r, x, y) == [r EXCEPT !.u = x, !.v = y]
LEMMA PutChromaIs ==
  ASSUME NEW o, NEW l, NEW i, NEW j, NEW x, NEW y,
         NEW r, r = [op |-> o, luma |-> l, u |-> i, v |-> j]
  PROVE  PutChroma(r, x, y) = [op |-> o, luma |-> l, u |-> x, v |-> y]
<1>1. [[r EXCEPT !.u = x] EXCEPT !.v = y] = [r EXCEPT !.u = x, !.v = y]
  BY Zenon
<1>2. [r EXCEPT !.u = x] = [op |-> o, luma |-> l, u |-> x, v |-> j]
  OBVIOUS
<1>3. [[op |-> o, luma |-> l, u |-> x, v |-> j]
         EXCEPT !.v = y]
        = [op |-> o, luma |-> l, u |-> x, v |-> y]
  OBVIOUS
<1>4. QED
  BY <1>1, <1>2, <1>3 DEF PutChroma

PutFilled(r, x, y) == [r EXCEPT !.accumulator = x, !.bytePos = y]
LEMMA PutFilledIs ==
  ASSUME NEW b, NEW k, NEW a, NEW n, NEW o, NEW x, NEW y,
         NEW r, r = [bytes |-> b, bytePos |-> k, accumulator |-> a, total |-> n, ok |-> o]
  PROVE  PutFilled(r, x, y)
           = [bytes |-> b, bytePos |-> y, accumulator |-> x, total |-> n, ok |-> o]
<1>1. [[r EXCEPT !.accumulator = x] EXCEPT !.bytePos = y]
        = [r EXCEPT !.accumulator = x, !.bytePos = y]
  BY Zenon
<1>2. [r EXCEPT !.accumulator = x]
        = [bytes |-> b, bytePos |-> k, accumulator |-> x, total |-> n, ok |-> o]
  OBVIOUS
<1>3. [[bytes |-> b, bytePos |-> k, accumulator |-> x, total |-> n, ok |-> o]
         EXCEPT !.bytePos = y]
        = [bytes |-> b, bytePos |-> y, accumulator |-> x, total |-> n, ok |-> o]
  OBVIOUS
<1>4. QED
  BY <1>1, <1>2, <1>3 DEF PutFilled

PutTaken(r, x, y) == [r EXCEPT !.accumulator = x, !.total = y]
LEMMA PutTakenIs ==
  ASSUME NEW b, NEW k, NEW a, NEW n, NEW o, NEW x, NEW y,
         NEW r, r = [bytes |-> b, bytePos |-> k, accumulator |-> a, total |-> n, ok |-> o]
  PROVE  PutTaken(r, x, y)
           = [bytes |-> b, bytePos |-> k, accumulator |-> x, total |-> y, ok |-> o]
<1>1. [[r EXCEPT !.accumulator = x] EXCEPT !.total = y]
        = [r EXCEPT !.accumulator = x, !.total = y]
  BY Zenon
<1>2. [r EXCEPT !.accumulator = x]
        = [bytes |-> b, bytePos |-> k, accumulator |-> x, total |-> n, ok |-> o]
  OBVIOUS
<1>3. [[bytes |-> b, bytePos |-> k, accumulator |-> x, total |-> n, ok |-> o]
         EXCEPT !.total = y]
        = [bytes |-> b, bytePos |-> k, accumulator |-> x, total |-> y, ok |-> o]
  OBVIOUS
<1>4. QED
  BY <1>1, <1>2, <1>3 DEF PutTaken

PutRead(r, x, y) == [r EXCEPT !.reader = x, !.codes = y]
LEMMA PutReadIs ==
  ASSUME NEW r0, NEW p, NEW c, NEW x, NEW y,
         NEW r, r = [reader |-> r0, predictor |-> p, codes |-> c]
  PROVE  PutRead(r, x, y) = [reader |-> x, predictor |-> p, codes |-> y]
<1>1. [[r EXCEPT !.reader = x] EXCEPT !.codes = y] = [r EXCEPT !.reader = x, !.codes = y]
  BY Zenon
<1>2. [r EXCEPT !.reader = x] = [reader |-> x, predictor |-> p, codes |-> c]
  OBVIOUS
<1>3. [[reader |-> x, predictor |-> p, codes |-> c]
         EXCEPT !.codes = y]
        = [reader |-> x, predictor |-> p, codes |-> y]
  OBVIOUS
<1>4. QED
  BY <1>1, <1>2, <1>3 DEF PutRead

\* A set of numbers with a member has a least one.
LEMMA LeastNat ==
  ASSUME NEW T \in SUBSET Nat, T # {}
  PROVE  \E m \in T : \A k \in T : m <= k
<1> DEFINE R == OpToRel(<, Nat)
<1>1. IsWellFoundedOn(R, Nat)
  BY NatLessThanWellFounded
<1>2. \A x, y \in Nat : x < y => <<x, y>> \in R
  BY Zenon DEF OpToRel
<1> HIDE DEF R
<1>3. PICK m \in T : \A y \in T : <<y, m>> \notin R
  BY <1>1, WFMin
<1>4. \A k \in T : k \in Nat /\ m \in Nat /\ ~ (k < m)
  BY <1>2, <1>3
<1>5. QED
  BY <1>3, <1>4

-----------------------------------------------------------------------------
(* Folds.  Every fold of the model is a recursion over the sets of places  *)
(* still to be taken in; Step has the steps of all of them, so that what   *)
(* holds of a fold as such is proved once.                                 *)

\* A candidate's next piece, and how long it is.
PieceBits(bits, i) ==
  IF i = (bits + WordBits - 1) \div WordBits THEN bits - WordBits * (i - 1) ELSE WordBits
MovePiece(bits, state, i) ==
  LET read == Read(state.reader, PieceBits(bits, i))
  IN  [reader |-> read.reader, writer |-> Write(state.writer, read.field)]

\* A bit more of a Huffman code.
ExtendCode(t, state) ==
  IF state.symbol # NoSymbol \/ ~state.reader.ok THEN state
  ELSE WithBit(t, state.bits, Read(state.reader, 1))

\* A value more of a literal block, or of the residuals of another.
ReadValue(state, n) ==
  LET read == Read(state.reader, n)
  IN  [reader |-> read.reader, values |-> Append(state.values, ValueOf(read.field))]
ReadSymbol(t, state) ==
  LET read == HuffmanRead(t, state.reader)
  IN  [reader |-> read.reader, values |-> Append(state.values, read.symbol)]

\* A child more of a split, a block more of a frame.
NextChild(s) ==
  IF ~s.reader.ok THEN s
  ELSE IF type = 7 THEN ReadChild7(s, Read(s.reader, 1)) ELSE ReadChild(s, Read(s.reader, 1))
NextBlock(s) ==
  IF ~s.reader.ok THEN s
  ELSE IF type = 7 THEN ReadBlock7(s, Read(s.reader, 1)) ELSE ReadBlock(s, Read(s.reader, 2))

Step(env, state, x) ==
  CASE env.fold = "value"     -> x + 2 * state
    [] env.fold = "fields"    -> Write(state, x)
    [] env.fold = "children"  -> WriteCode(state, 2, x)
    [] env.fold = "pieces"    -> MovePiece(env.bits, state, x)
    [] env.fold = "residuals" -> HuffmanWrite(state, env.type, env.residuals[x])
    [] env.fold = "code"      -> ExtendCode(env.type, state)
    [] env.fold = "values"    -> ReadValue(state, env.bits)
    [] env.fold = "symbols"   -> ReadSymbol(env.type, state)
    [] env.fold = "split"     -> NextChild(state)
    [] env.fold = "frame"     -> NextBlock(state)

\* The place that is taken in last: the first of a fold from the right.
LastIn(env, s) == IF env.fold = "value" THEN Min(s) ELSE Max(s)

Unfolds(it, env, base, seq) ==
  it = [s \in SUBSET DOMAIN seq |->
          IF s = {} THEN base
          ELSE Step(env, it[s \ {LastIn(env, s)}], seq[LastIn(env, s)])]

\* The same for the sets of at most k places.
UnfoldsUpTo(it, env, base, seq, k) ==
  \A s \in SUBSET DOMAIN seq :
    Cardinality(s) <= k =>
      it[s] = IF s = {} THEN base
              ELSE Step(env, it[s \ {LastIn(env, s)}], seq[LastIn(env, s)])

LEMMA LastInIs ==
  ASSUME NEW n \in Nat, NEW env, NEW s \in SUBSET (1 .. n), s # {}
  PROVE  LastIn(env, s) \in s
<1>1. \A i \in s : i \in Nat /\ i <= n
  OBVIOUS
<1>2. Min(s) \in s
  <2>1. PICK m \in s : \A k \in s : m <= k
    BY <1>1, LeastNat
  <2>2. QED
    BY <2>1 DEF Min
<1>3. Max(s) \in s
  <2> DEFINE Above == {k \in Nat : \A i \in s : i <= k}
  <2>1. n \in Above
    BY <1>1
  <2>2. PICK m \in Above : \A k \in Above : m <= k
    BY <2>1, LeastNat
  <2>3. m \in s
    <3>1. SUFFICES ASSUME m \notin s PROVE FALSE
      OBVIOUS
    <3>2. PICK i \in s : TRUE
      OBVIOUS
    <3>3. \A j \in s : j <= m /\ j # m /\ j \in Nat
      BY <1>1, <2>2, <3>1
    <3>4. m - 1 \in Nat /\ \A j \in s : j <= m - 1
      BY <2>2, <3>2, <3>3
    <3>5. m - 1 \in Above /\ ~ (m <= m - 1)
      BY <2>2, <3>4
    <3>6. QED
      BY <2>2, <3>5
  <2>4. \A y \in s : m >= y
    BY <1>1, <2>2
  <2>5. QED
    BY <2>3, <2>4 DEF Max
<1>4. QED
  BY <1>2, <1>3 DEF LastIn

\* What taking the last place away does to a set.
LEMMA OnePlaceLess ==
  ASSUME NEW n \in Nat, NEW env, NEW s \in SUBSET (1 .. n)
  PROVE  /\ Cardinality(s) \in Nat /\ Cardinality(s) <= n
         /\ Cardinality(s) = 0 <=> s = {}
         /\ s # {} => /\ LastIn(env, s) \in s
                      /\ s \ {LastIn(env, s)} \in SUBSET (1 .. n)
                      /\ Cardinality(s \ {LastIn(env, s)}) = Cardinality(s) - 1
<1>1. IsFiniteSet(1 .. n) /\ Cardinality(1 .. n) = n
  BY FS_Interval
<1>2. IsFiniteSet(s) /\ Cardinality(s) <= Cardinality(1 .. n)
  BY <1>1, FS_Subset
<1>3. Cardinality(s) \in Nat /\ (Cardinality(s) = 0 <=> s = {})
  BY <1>2, FS_CardinalityType, FS_EmptySet
<1>4. s # {} => LastIn(env, s) \in s
  BY LastInIs
<1>5. ASSUME s # {}
      PROVE  Cardinality(s \ {LastIn(env, s)}) = Cardinality(s) - 1
  BY <1>2, <1>4, <1>5, FS_RemoveElement
<1>6. QED
  BY <1>1, <1>2, <1>3, <1>4, <1>5

\* The recursion has a solution.
LEMMA FoldExists ==
  ASSUME NEW n \in Nat, NEW env, NEW base, NEW seq, DOMAIN seq = 1 .. n
  PROVE  \E it : Unfolds(it, env, base, seq)
<1> DEFINE D == DOMAIN seq
           Taken(g, s) == Step(env, g[s \ {LastIn(env, s)}], seq[LastIn(env, s)])
           Has(k) == \E it : UnfoldsUpTo(it, env, base, seq, k)
           Lacks == {k \in Nat : ~ Has(k)}
<1>1. \A k \in Nat : Has(k)
  <2> SUFFICES ASSUME Lacks # {} PROVE FALSE
    OBVIOUS
  <2>1. PICK m \in Lacks : \A k \in Lacks : m <= k
    BY LeastNat
  <2>2. Has(0)
    <3>1. UnfoldsUpTo([s \in SUBSET D |-> base], env, base, seq, 0)
      <4>1. ASSUME NEW s \in SUBSET D, Cardinality(s) <= 0
            PROVE  s = {}
        <5>1. Cardinality(s) \in Nat /\ (Cardinality(s) = 0 <=> s = {})
          BY OnePlaceLess
        <5>2. QED
          BY <4>1, <5>1
      <4>2. QED
        BY <4>1 DEF UnfoldsUpTo
    <3>2. QED
      BY <3>1
  <2>3. m # 0 /\ m \in Nat /\ m - 1 \in Nat /\ ~ (m <= m - 1)
    BY <2>1, <2>2
  <2>4. PICK g : UnfoldsUpTo(g, env, base, seq, m - 1)
    BY <2>1, <2>3
  <2> DEFINE h == [s \in SUBSET D |-> IF s = {} THEN base ELSE Taken(g, s)]
  <2>5. UnfoldsUpTo(h, env, base, seq, m)
    <3> SUFFICES ASSUME NEW s \in SUBSET D, Cardinality(s) <= m
                 PROVE  h[s] = IF s = {} THEN base ELSE Taken(h, s)
      BY Zenon DEF UnfoldsUpTo
    <3>1. CASE s = {}
      BY <3>1
    <3>2. CASE s # {}
      <4> DEFINE r == s \ {LastIn(env, s)}
      <4>1. r \in SUBSET D /\ Cardinality(r) <= m - 1
        <5>0. s \in SUBSET (1 .. n)
          OBVIOUS
        <5>1. /\ Cardinality(s) \in Nat /\ r \in SUBSET (1 .. n)
              /\ Cardinality(r) = Cardinality(s) - 1
          BY <3>2, <5>0, OnePlaceLess, Zenon
        <5>2. QED
          BY <2>3, <5>1
      <4>2. g[r] = IF r = {} THEN base ELSE Taken(g, r)
        BY <2>4, <4>1, Zenon DEF UnfoldsUpTo
      <4>3. h[r] = IF r = {} THEN base ELSE Taken(g, r)
        BY <4>1, Zenon
      <4>4. h[s] = Taken(g, s)
        BY <3>2, Zenon
      <4>5. QED
        BY <3>2, <4>2, <4>3, <4>4, Zenon
    <3>3. QED
      BY <3>1, <3>2
  <2>6. QED
    BY <2>1, <2>5
<1>2. PICK g : UnfoldsUpTo(g, env, base, seq, n)
  BY <1>1
<1> DEFINE it == [s \in SUBSET D |-> g[s]]
<1>3. ASSUME NEW s \in SUBSET D
      PROVE  g[s] = IF s = {} THEN base ELSE Taken(it, s)
  <2>1. Cardinality(s) <= n
    BY OnePlaceLess
  <2>2. g[s] = IF s = {} THEN base ELSE Taken(g, s)
    BY <1>2, <2>1, Zenon DEF UnfoldsUpTo
  <2>3. it[s \ {LastIn(env, s)}] = g[s \ {LastIn(env, s)}]
    BY Zenon
  <2>4. QED
    BY <2>2, <2>3, Zenon
<1>4. it = [s \in SUBSET D |-> IF s = {} THEN base ELSE Taken(it, s)]
  <2>1. it = [s \in SUBSET D |-> g[s]]
    OBVIOUS
  <2> HIDE DEF it
  <2>2. QED
    BY <1>3, <2>1, Zenon
<1>5. QED
  BY <1>4, Zenon DEF Unfolds

\* A fold from the left goes through the states chain[0] to chain[n].
Chain(chain, env, base, seq, n) ==
  /\ chain[0] = base
  /\ \A i \in 1 .. n : chain[i] = Step(env, chain[i - 1], seq[i])

LEMMA FoldIsChain ==
  ASSUME NEW n \in Nat, NEW env, env.fold # "value", NEW base, NEW seq,
         DOMAIN seq = 1 .. n, NEW it, Unfolds(it, env, base, seq)
  PROVE  \E chain : Chain(chain, env, base, seq, n) /\ chain[n] = it[DOMAIN seq]
<1> DEFINE chain == [i \in 0 .. n |-> it[1 .. i]]
<1>1. chain[0] = base
  <2>1. 1 .. 0 = {} /\ 0 \in 0 .. n /\ {} \in SUBSET DOMAIN seq
    OBVIOUS
  <2>2. it[{}] = base
    BY <2>1, Zenon DEF Unfolds
  <2>3. QED
    BY <2>1, <2>2
<1>2. ASSUME NEW i \in 1 .. n
      PROVE  chain[i] = Step(env, chain[i - 1], seq[i])
  <2>1. 1 .. i \in SUBSET DOMAIN seq /\ 1 .. i # {} /\ i \in 0 .. n /\ i - 1 \in 0 .. n
    <3>1. i \in Nat /\ 1 <= i /\ i <= n
      OBVIOUS
    <3>2. 1 .. i \in SUBSET (1 .. n) /\ 1 \in 1 .. i
      BY <3>1
    <3>3. i \in 0 .. n /\ i - 1 \in 0 .. n
      BY <3>1
    <3>4. 1 .. i # {}
      BY <3>2
    <3>5. DOMAIN seq = 1 .. n
      OBVIOUS
    <3>6. 1 .. i \in SUBSET DOMAIN seq
      BY <3>2, <3>5, Zenon
    <3>7. QED
      BY <3>3, <3>4, <3>6, Zenon
  <2>2. Max(1 .. i) = i
    <3>1. i \in 1 .. i /\ \A y \in 1 .. i : i >= y
      OBVIOUS
    <3>2. \A x \in 1 .. i : (\A y \in 1 .. i : x >= y) => x = i
      OBVIOUS
    <3>3. QED
      BY <3>1, <3>2 DEF Max
  <2>3. LastIn(env, 1 .. i) = i /\ (1 .. i) \ {i} = 1 .. i - 1
    BY <2>2 DEF LastIn
  <2>4. it[1 .. i] = Step(env, it[(1 .. i) \ {LastIn(env, 1 .. i)}], seq[LastIn(env, 1 .. i)])
    BY <2>1, Zenon DEF Unfolds
  <2>5. it[1 .. i] = Step(env, it[1 .. i - 1], seq[i])
    BY <2>3, <2>4
  <2>6. chain[i] = it[1 .. i] /\ chain[i - 1] = it[1 .. i - 1]
    BY <2>1
  <2>7. QED
    BY <2>5, <2>6, Zenon
<1>3. chain[n] = it[DOMAIN seq]
  OBVIOUS
<1> HIDE DEF chain
<1>4. QED
  BY <1>1, <1>2, <1>3 DEF Chain

\* Writing fields one by one.
Writes(chain, w, fields, n) ==
  /\ chain[0] = w
  /\ \A i \in 1 .. n : chain[i] = Write(chain[i - 1], fields[i])
  /\ WriteAll(w, fields) = chain[n]

LEMMA WriteAllIsChain ==
  ASSUME NEW n \in Nat, NEW w, NEW fields, DOMAIN fields = 1 .. n
  PROVE  \E chain : Writes(chain, w, fields, n)
<1> DEFINE env == [fold |-> "fields"]
           it == CHOOSE f : f = [s \in SUBSET DOMAIN fields |->
                    IF s = {} THEN w
                    ELSE Write(f[s \ {Max(s)}], fields[Max(s)])]
<1>1. \A a, x : Step(env, a, x) = Write(a, x)
  BY DEF Step
<1>2. \A s : LastIn(env, s) = Max(s)
  BY DEF LastIn
<1> HIDE DEF env
<1>3. \A f : Unfolds(f, env, w, fields) <=> f = [s \in SUBSET DOMAIN fields |->
                    IF s = {} THEN w
                    ELSE Write(f[s \ {Max(s)}], fields[Max(s)])]
  <2>1. TAKE f
  <2>2. [s \in SUBSET DOMAIN fields |->
           IF s = {} THEN w
           ELSE Step(env, f[s \ {LastIn(env, s)}], fields[LastIn(env, s)])]
        = [s \in SUBSET DOMAIN fields |->
           IF s = {} THEN w ELSE Write(f[s \ {Max(s)}], fields[Max(s)])]
    BY <1>1, <1>2
  <2>3. QED
    BY <2>2, Zenon DEF Unfolds
<1>4. \E f : Unfolds(f, env, w, fields)
  BY FoldExists, Zenon
<1>5. Unfolds(it, env, w, fields)
  BY <1>3, <1>4, Zenon
<1>6. WriteAll(w, fields) = it[DOMAIN fields]
  BY Zenon DEF WriteAll, FoldLeft, MapThenFoldSet
<1> HIDE DEF it
<1>7. env.fold # "value"
  BY DEF env
<1>8. PICK chain : Chain(chain, env, w, fields, n) /\ chain[n] = it[DOMAIN fields]
  BY <1>5, <1>7, FoldIsChain
<1>9. QED
  <2>1. Writes(chain, w, fields, n)
    BY <1>1, <1>6, <1>8, Zenon DEF Chain, Writes
  <2>2. QED
    BY <2>1

-----------------------------------------------------------------------------
(* Chroma deltas.                                                          *)

\* The values of six bits.
Six == 0 .. 63

\* Six bits as a signed number, and back.
LEMMA SignedIs ==
  ASSUME NEW a \in Six
  PROVE  /\ Signed6(a) \in -32 .. 31
         /\ Signed6(a) >= 0 => a = Signed6(a)
         /\ Signed6(a) < 0 => a = Signed6(a) + 64
BY DEF Signed6, Six

LEMMA GapIs ==
  ASSUME NEW a \in Six, NEW b \in Six
  PROVE  /\ Gap(a, b) \in Nat
         /\ Signed6(a) <= Signed6(b) => Gap(a, b) = Signed6(b) - Signed6(a)
         /\ Signed6(b) <= Signed6(a) => Gap(a, b) = Signed6(a) - Signed6(b)
         /\ Gap(a, b) = 0 => a = b
<1>1. Signed6(a) \in Int /\ Signed6(b) \in Int
  BY SignedIs
<1>2. Signed6(a) = Signed6(b) => a = b
  BY DEF Signed6, Six
<1>3. QED
  BY <1>1, <1>2 DEF Gap

\* The step a code stands for.
Delta(code) == DeltaExpand[code + 1]

LEMMA DeltaIs ==
  /\ \A code \in 0 .. 15 : Delta(code) \in -32 .. 26
  /\ Delta(0) = -32 /\ Delta(1) = -26 /\ Delta(2) = -20 /\ Delta(3) = -14
  /\ Delta(4) = -8 /\ Delta(5) = -4 /\ Delta(6) = -2 /\ Delta(7) = -1
  /\ Delta(8) = 0 /\ Delta(9) = 1 /\ Delta(10) = 2 /\ Delta(11) = 4
  /\ Delta(12) = 8 /\ Delta(13) = 14 /\ Delta(14) = 20 /\ Delta(15) = 26
BY DEF Delta, DeltaExpand

\* A step goes round at the ends of the range.
LEMMA MovesBy ==
  ASSUME NEW c \in Six, NEW code \in 0 .. 15
  PROVE  /\ Moved(c, code) \in Six
         /\ LET to == Signed6(c) + Delta(code)
            IN  /\ to \in -32 .. 31 => Signed6(Moved(c, code)) = to
                /\ to > 31 => Signed6(Moved(c, code)) = to - 64
                /\ to < -32 => Signed6(Moved(c, code)) = to + 64
<1> DEFINE d == Delta(code)
<1>1. d \in -32 .. 26
  BY DeltaIs
<1>2. Moved(c, code) = (c + d) % 64
  BY DEF Moved, Delta
<1> HIDE DEF d
<1>3. (c + d) % 64 = IF c + d < 0 THEN c + d + 64 ELSE IF c + d > 63 THEN c + d - 64 ELSE c + d
  BY <1>1 DEF Six
<1>4. (c + d) % 64 \in Six
  BY <1>1 DEF Six
<1>5. QED
  BY <1>1, <1>2, <1>3, <1>4 DEF Signed6, Six, d

\* The code chosen comes closest.
LEMMA ChoosesClosest ==
  ASSUME NEW c \in Six, NEW t \in Six
  PROVE  /\ ChooseDelta(t, c) \in 0 .. 15
         /\ \A other \in 0 .. 15 :
              Gap(Moved(c, ChooseDelta(t, c)), t) <= Gap(Moved(c, other), t)
<1> DEFINE gap(code) == Gap(Moved(c, code), t)
           Best(code) == \A other \in 0 .. 15 :
                           \/ gap(code) < gap(other)
                           \/ gap(code) = gap(other) /\ code <= other
           Score == {16 * gap(code) + code : code \in 0 .. 15}
<1>1. \A code \in 0 .. 15 : gap(code) \in Nat
  BY MovesBy, GapIs
<1> HIDE DEF gap
<1>2. Score \in SUBSET Nat /\ Score # {}
  <2>1. 16 * gap(0) + 0 \in Score
    OBVIOUS
  <2>2. QED
    BY <1>1, <2>1
<1>3. PICK m \in Score : \A k \in Score : m <= k
  BY <1>2, LeastNat
<1>4. PICK code \in 0 .. 15 : m = 16 * gap(code) + code
  BY <1>3
<1>5. Best(code)
  <2> SUFFICES ASSUME NEW other \in 0 .. 15
               PROVE  gap(code) < gap(other) \/ (gap(code) = gap(other) /\ code <= other)
    OBVIOUS
  <2>1. 16 * gap(code) + code <= 16 * gap(other) + other
    BY <1>3, <1>4
  <2>2. gap(code) \in Nat /\ gap(other) \in Nat
    BY <1>1
  <2>3. QED
    BY <2>1, <2>2
<1>6. ChooseDelta(t, c) \in 0 .. 15 /\ Best(ChooseDelta(t, c))
  <2>1. ChooseDelta(t, c) = CHOOSE x \in 0 .. 15 : Best(x)
    BY Zenon DEF ChooseDelta, gap
  <2> HIDE DEF Best
  <2>2. QED
    BY <1>5, <2>1, Zenon
<1>7. \A other \in 0 .. 15 : gap(ChooseDelta(t, c)) <= gap(other)
  <2>1. TAKE other \in 0 .. 15
  <2>2. gap(ChooseDelta(t, c)) \in Nat /\ gap(other) \in Nat
    BY <1>1, <1>6
  <2>3. QED
    BY <1>6, <2>2
<1>8. QED
  BY <1>6, <1>7 DEF gap

\* The chroma a decoder has after a delta towards the target.
Nearest(t, c) == Moved(c, ChooseDelta(t, c))

LEMMA NearestIs ==
  ASSUME NEW c \in Six, NEW t \in Six
  PROVE  /\ Nearest(t, c) \in Six
         /\ \A code \in 0 .. 15 : Gap(Nearest(t, c), t) <= Gap(Moved(c, code), t)
BY ChoosesClosest, MovesBy DEF Nearest

\* From anywhere one delta comes within five of the target.
LEMMA FirstStep ==
  ASSUME NEW c \in Six, NEW t \in Six
  PROVE  Gap(Nearest(t, c), t) <= 5
<1> DEFINE x == Signed6(c)
           y == Signed6(t)
<1>1. x \in -32 .. 31 /\ y \in -32 .. 31
  BY SignedIs
<1> SUFFICES \E code \in 0 .. 15 : Gap(Moved(c, code), t) <= 5
  <2>1. \A code \in 0 .. 15 : Gap(Nearest(t, c), t) <= Gap(Moved(c, code), t)
    BY NearestIs
  <2>2. Gap(Nearest(t, c), t) \in Nat
    BY NearestIs, GapIs
  <2>3. \A code \in 0 .. 15 : Gap(Moved(c, code), t) \in Nat
    BY MovesBy, GapIs
  <2>4. QED
    BY <2>1, <2>2, <2>3
<1> DEFINE z(code) == Signed6(Moved(c, code))
           Near == \E code \in 0 .. 15 : z(code) - y \in -5 .. 5
<1>2. SUFFICES Near
  <2>1. PICK code \in 0 .. 15 : Signed6(Moved(c, code)) - y \in -5 .. 5
    BY <1>2
  <2>2. Moved(c, code) \in Six
    BY MovesBy
  <2>3. Signed6(Moved(c, code)) \in -32 .. 31
    BY <2>2, SignedIs
  <2>4. Gap(Moved(c, code), t) <= 5
    <3>1. PICK m \in Six : m = Moved(c, code)
      BY <2>2
    <3>2. /\ Gap(m, t) \in Nat
          /\ Signed6(m) <= y => Gap(m, t) = y - Signed6(m)
          /\ y <= Signed6(m) => Gap(m, t) = Signed6(m) - y
      BY GapIs
    <3> HIDE DEF y
    <3>3. Signed6(m) \in Int /\ y \in Int /\ Signed6(m) - y \in -5 .. 5
      BY <1>1, <2>1, <2>3, <3>1
    <3>4. Gap(m, t) <= 5
      BY <3>2, <3>3
    <3>5. QED
      BY <3>1, <3>4
  <2>5. QED
    BY <2>4
<1>3. \A code \in 0 .. 15 :
        LET to == x + Delta(code)
        IN  /\ to \in -32 .. 31 => z(code) = to
            /\ to > 31 => z(code) = to - 64
            /\ to < -32 => z(code) = to + 64
  BY MovesBy
<1> HIDE DEF x, y, z
<1>4. CASE y - x \in 0 .. 31
  <2>1. \E code \in 0 .. 15 : (y - x) - Delta(code) \in 0 .. 5 /\ Delta(code) \in 0 .. 26
    BY <1>4, DeltaIs
  <2>2. PICK code \in 0 .. 15 : (y - x) - Delta(code) \in 0 .. 5 /\ Delta(code) \in 0 .. 26
    BY <2>1
  <2>3. PICK d \in Int : d = Delta(code)
    BY DeltaIs
  <2>7. d \in 0 .. 26 /\ (y - x) - d \in 0 .. 5
    BY <2>2, <2>3
  <2>8. d >= 0 /\ (y - x) - d >= 0 /\ (y - x) - d <= 5
    BY <1>1, <2>7
  <2>9. x + d >= -32 /\ x + d <= y /\ y - (x + d) <= 5
    BY <1>1, <2>8
  <2>4. x + d \in -32 .. 31 /\ (x + d) - y \in -5 .. 5
    BY <1>1, <2>9
  <2>5. z(code) = x + d
    BY <1>3, <2>3, <2>4
  <2>6. QED
    BY <2>4, <2>5
<1>5. CASE y - x \in -37 .. -1
  <2>1. \E code \in 0 .. 15 : (y - x) - Delta(code) \in -5 .. 0 /\ Delta(code) \in -32 .. 0
    BY <1>5, DeltaIs
  <2>2. PICK code \in 0 .. 15 : (y - x) - Delta(code) \in -5 .. 0 /\ Delta(code) \in -32 .. 0
    BY <2>1
  <2>5. Delta(code) \in Int
    BY DeltaIs
  <2>3. z(code) = x + Delta(code)
    BY <1>1, <1>3, <2>2, <2>5
  <2>4. QED
    BY <1>1, <2>2, <2>3, <2>5
<1>6. CASE y - x \in 32 .. 63
  <2>1. \E code \in 0 .. 15 : (y - x) - 64 - Delta(code) \in 0 .. 5
    BY <1>6, DeltaIs
  <2>2. PICK code \in 0 .. 15 : (y - x) - 64 - Delta(code) \in 0 .. 5
    BY <2>1
  <2>3. Delta(code) \in Int
    BY DeltaIs
  <2>4. z(code) = x + Delta(code) + 64
    BY <1>1, <1>3, <2>2, <2>3
  <2>5. QED
    BY <1>1, <2>2, <2>3, <2>4
<1>7. CASE y - x \in -63 .. -38
  <2>1. \E code \in 0 .. 15 : (y - x) + 64 - Delta(code) \in -5 .. 0
    BY <1>7, DeltaIs
  <2>2. PICK code \in 0 .. 15 : (y - x) + 64 - Delta(code) \in -5 .. 0
    BY <2>1
  <2>3. Delta(code) \in Int
    BY DeltaIs
  <2>4. z(code) = x + Delta(code) - 64
    BY <1>1, <1>3, <2>2, <2>3
  <2>5. QED
    BY <1>1, <2>2, <2>3, <2>4
<1>8. QED
  BY <1>1, <1>4, <1>5, <1>6, <1>7

\* One step that stays between two values is no further from the target.
LEMMA LaterStep ==
  ASSUME NEW c \in Six, NEW t \in Six
  PROVE  /\ Gap(c, t) <= 5 => Gap(Nearest(t, c), t) <= 1
         /\ Gap(c, t) <= 1 => Nearest(t, c) = t
         /\ Nearest(t, c) = t \/ Gap(Nearest(t, c), t) < Gap(c, t)
<1> DEFINE x == Signed6(c)
           y == Signed6(t)
           gap == Gap(Nearest(t, c), t)
<1>1. x \in -32 .. 31 /\ y \in -32 .. 31
  BY SignedIs
<1>2. gap \in Nat /\ (gap = 0 => Nearest(t, c) = t)
  BY NearestIs, GapIs
<1>3. /\ Gap(c, t) \in Nat
      /\ x <= y => Gap(c, t) = y - x
      /\ y <= x => Gap(c, t) = x - y
  BY GapIs
<1>4. ASSUME NEW code \in 0 .. 15, NEW far \in Nat,
             \/ x + Delta(code) + far = y
             \/ x + Delta(code) - far = y,
             x + Delta(code) \in -32 .. 31
      PROVE  gap <= far
  <2>1. Delta(code) \in Int
    BY DeltaIs
  <2>2. Moved(c, code) \in Six /\ Signed6(Moved(c, code)) = x + Delta(code)
    BY <1>4, MovesBy
  <2>3. Gap(Moved(c, code), t) = far
    <3>1. CASE x + Delta(code) <= y
      <4>1. Gap(Moved(c, code), t) = y - (x + Delta(code))
        BY <2>2, <3>1, GapIs
      <4>2. QED
        BY <1>1, <1>4, <2>1, <3>1, <4>1
    <3>2. CASE x + Delta(code) > y
      <4>1. Gap(Moved(c, code), t) = (x + Delta(code)) - y
        BY <1>1, <2>1, <2>2, <3>2, GapIs
      <4>2. QED
        BY <1>1, <1>4, <2>1, <3>2, <4>1
    <3>3. QED
      BY <1>1, <2>1, <3>1, <3>2
  <2>4. gap <= Gap(Moved(c, code), t)
    BY NearestIs
  <2>5. QED
    BY <2>3, <2>4
<1> HIDE DEF x, y, gap
<1>5. CASE x = y
  <2>1. gap <= 0
    BY <1>1, <1>4, <1>5, DeltaIs
  <2>2. QED
    BY <1>2, <2>1 DEF gap
<1>6. CASE x < y
  <2>1. y - x = 1 => gap <= 0
    BY <1>1, <1>4, <1>6, DeltaIs
  <2>2. gap <= y - x - 1
    <3>1. x + Delta(9) = x + 1 /\ x + 1 \in -32 .. 31 /\ y - x - 1 \in Nat
      BY <1>1, <1>6, DeltaIs
    <3>2. x + Delta(9) + (y - x - 1) = y
      BY <1>1, <3>1
    <3>3. QED
      BY <1>4, <3>1, <3>2
  <2>3. y - x \in 2 .. 3 => gap <= 1
    <3>1. SUFFICES ASSUME y - x \in 2 .. 3 PROVE gap <= 1
      OBVIOUS
    <3>2. x + Delta(10) = x + 2 /\ x + 2 \in -32 .. 31
      BY <1>1, <3>1, DeltaIs
    <3>3. gap <= y - x - 2 /\ y - x - 2 \in Nat
      <4>1. y - x - 2 \in Nat /\ x + Delta(10) + (y - x - 2) = y
        BY <1>1, <3>1, <3>2
      <4>2. QED
        BY <1>4, <3>2, <4>1
    <3>4. QED
      BY <1>1, <1>2, <3>1, <3>3
  <2>4. y - x \in 4 .. 5 => gap <= 1
    <3>1. SUFFICES ASSUME y - x \in 4 .. 5 PROVE gap <= 1
      OBVIOUS
    <3>2. x + Delta(11) = x + 4 /\ x + 4 \in -32 .. 31
      BY <1>1, <3>1, DeltaIs
    <3>3. gap <= y - x - 4 /\ y - x - 4 \in Nat
      <4>1. y - x - 4 \in Nat /\ x + Delta(11) + (y - x - 4) = y
        BY <1>1, <3>1, <3>2
      <4>2. QED
        BY <1>4, <3>2, <4>1
    <3>4. QED
      BY <1>1, <1>2, <3>1, <3>3
  <2>5. Gap(c, t) = y - x
    BY <1>1, <1>3, <1>6
  <2>6. Gap(c, t) <= 5 => gap <= 1
    BY <1>1, <1>2, <1>6, <2>1, <2>3, <2>4, <2>5
  <2>7. Gap(c, t) <= 1 => gap = 0
    BY <1>1, <1>2, <1>6, <2>1, <2>5
  <2>8. gap < Gap(c, t)
    BY <1>1, <1>2, <2>2, <2>5
  <2>9. QED
    BY <1>2, <2>6, <2>7, <2>8 DEF gap
<1>7. CASE y < x
  <2>1. x - y = 1 => gap <= 0
    BY <1>1, <1>4, <1>7, DeltaIs
  <2>2. gap <= x - y - 1
    <3>1. x + Delta(7) = x - 1 /\ x - 1 \in -32 .. 31 /\ x - y - 1 \in Nat
      BY <1>1, <1>7, DeltaIs
    <3>2. x + Delta(7) - (x - y - 1) = y
      BY <1>1, DeltaIs
    <3>3. QED
      BY <1>4, <3>1, <3>2
  <2>3. x - y \in 2 .. 3 => gap <= 1
    <3>1. SUFFICES ASSUME x - y \in 2 .. 3 PROVE gap <= 1
      OBVIOUS
    <3>2. x + Delta(6) = x - 2 /\ x - 2 \in -32 .. 31
      BY <1>1, <3>1, DeltaIs
    <3>3. gap <= x - y - 2 /\ x - y - 2 \in Nat
      <4>1. x - y - 2 \in Nat /\ x + Delta(6) - (x - y - 2) = y
        BY <1>1, <3>1, DeltaIs
      <4>2. QED
        BY <1>4, <3>2, <4>1
    <3>4. QED
      BY <1>1, <1>2, <3>1, <3>3
  <2>4. x - y \in 4 .. 5 => gap <= 1
    <3>1. SUFFICES ASSUME x - y \in 4 .. 5 PROVE gap <= 1
      OBVIOUS
    <3>2. x + Delta(5) = x - 4 /\ x - 4 \in -32 .. 31
      BY <1>1, <3>1, DeltaIs
    <3>3. gap <= x - y - 4 /\ x - y - 4 \in Nat
      <4>1. x - y - 4 \in Nat /\ x + Delta(5) - (x - y - 4) = y
        BY <1>1, <3>1, DeltaIs
      <4>2. QED
        BY <1>4, <3>2, <4>1
    <3>4. QED
      BY <1>1, <1>2, <3>1, <3>3
  <2>5. Gap(c, t) = x - y
    BY <1>1, <1>3, <1>7
  <2>6. Gap(c, t) <= 5 => gap <= 1
    BY <1>1, <1>2, <1>7, <2>1, <2>3, <2>4, <2>5
  <2>7. Gap(c, t) <= 1 => gap = 0
    BY <1>1, <1>2, <1>7, <2>1, <2>5
  <2>8. gap < Gap(c, t)
    BY <1>1, <1>2, <2>2, <2>5
  <2>9. QED
    BY <1>2, <2>6, <2>7, <2>8 DEF gap
<1>8. QED
  BY <1>1, <1>5, <1>6, <1>7

-----------------------------------------------------------------------------
(* What the caller may offer.                                              *)

Window(t) ==
  {v \in {Vector(dx, dy) : dx \in -8 .. 8, dy \in -8 .. 8} :
     IF t = 7 THEN Radius(v) <= 4 ELSE Radius(v) > 0}
\* What each type has of vectors, copies, chroma, blocks and children.
LegalVectors(t, size) == Window(t) \union {SpatialAt(size, i) : i \in 0 .. 7}
LegalCopies(t, size) == {StationaryCode} \union {MotionCode(v) : v \in LegalVectors(t, size)}
LegalChroma(t) == 0 .. 2 ^ ChromaBits(t) - 1
LegalData(t, size) ==
  {Data(luma, u, v) : luma \in [Span(size) -> 0 .. Levels(t) - 1],
                      u \in LegalChroma(t), v \in LegalChroma(t)}
LegalChildren(t) == [1 .. 4 -> LegalCopies(t, 2) \union LegalData(t, 2)]
LegalBlocks(t) ==
  {[op |-> "block", data |-> d, children |-> c] : d \in LegalData(t, 4), c \in LegalChildren(t)}
LegalOffers(t) == LegalCopies(t, 4) \union LegalBlocks(t)
LegalCodes(t) ==
  LegalCopies(t, 4) \union LegalData(t, 4) \union {SplitCode(c) : c \in LegalChildren(t)}

\* The caller offers vectors of the type's window, and luma and chroma of as
\* many bits as the type has.
OffersAreLegal ==
  \A t \in Types : \A codes \in Seq(LegalCodes(t)) : Offered(t, codes) \subseteq LegalOffers(t)

LEMMA LegalDataIs ==
  ASSUME NEW t \in AllTypes, NEW size, NEW code \in LegalData(t, size)
  PROVE  /\ code.op = "data"
         /\ code.luma \in [Span(size) -> 0 .. Levels(t) - 1]
         /\ code.u \in Six /\ code.v \in Six
         /\ code.u \in LegalChroma(t) /\ code.v \in LegalChroma(t)
         /\ code = Data(code.luma, code.u, code.v)
<1>1. PICK luma \in [Span(size) -> 0 .. Levels(t) - 1], u \in LegalChroma(t),
             v \in LegalChroma(t) :
        code = Data(luma, u, v)
  BY DEF LegalData
<1>2. code.op = "data" /\ code.luma = luma /\ code.u = u /\ code.v = v
  BY <1>1 DEF Data
<1>3. LegalChroma(t) \subseteq Six
  <2>1. ChromaBits(t) \in {5, 6}
    BY DEF ChromaBits
  <2>2. 2 ^ 5 = 32 /\ 2 ^ 6 = 64
    OBVIOUS
  <2>3. 2 ^ ChromaBits(t) \in {32, 64}
    BY <2>1, <2>2
  <2>4. QED
    BY <2>3 DEF LegalChroma, Six
<1>4. QED
  BY <1>1, <1>2, <1>3

LEMMA LegalCopyIs ==
  ASSUME NEW t, NEW size, NEW code \in LegalCopies(t, size)
  PROVE  \/ code = StationaryCode /\ code.op = "stationary"
         \/ code.op = "motion" /\ code = MotionCode(code.vector)
            /\ code.vector \in LegalVectors(t, size)
BY DEF LegalCopies, StationaryCode, MotionCode

LEMMA LegalBlockIs ==
  ASSUME NEW t, NEW offer \in LegalOffers(t), offer.op = "block"
  PROVE  offer.data \in LegalData(t, 4) /\ offer.children \in LegalChildren(t)
<1>1. offer \notin LegalCopies(t, 4)
  BY LegalCopyIs
<1>2. PICK d \in LegalData(t, 4), c \in LegalChildren(t) :
        offer = [op |-> "block", data |-> d, children |-> c]
  BY <1>1 DEF LegalOffers, LegalBlocks
<1>3. QED
  BY <1>2

LEMMA LegalOfferIs ==
  ASSUME NEW t, NEW offer \in LegalOffers(t), offer.op \in {"stationary", "motion"}
  PROVE  offer \in LegalCopies(t, 4)
BY DEF LegalOffers, LegalBlocks

-----------------------------------------------------------------------------
(* The chroma of the blocks.                                               *)

Settled(p) == p.u \in Six /\ p.v \in Six

\* A state of the coding.
Coding(state) ==
  \E w, p, d : state = [writer |-> w, predictor |-> p, drawn |-> d] /\ Settled(p)

LEMMA CopyKeepsPredictor ==
  ASSUME NEW state, NEW size, NEW code \in LegalCopies(type, size),
         Coding(state)
  PROVE  \E w2, d2 : /\ WriteCode(state, size, code)
                          = [writer |-> w2, predictor |-> state.predictor, drawn |-> d2]
                     /\ \E move : d2 = Append(state.drawn, move)
<1>0. PICK w, p, d : state = [writer |-> w, predictor |-> p, drawn |-> d]
  BY DEF Coding
<1>6. state.writer = w /\ state.predictor = p /\ state.drawn = d
  BY <1>0
<1>1. \A v : WriteMove(state, size, v)
               = [writer |-> WriteAll(w, <<MoveOpcode(size)>> \o WriteMotion(type, size, v)),
                  predictor |-> p, drawn |-> Append(d, MotionCode(v))]
  <2>1. TAKE v
  <2> DEFINE x == WriteAll(w, <<MoveOpcode(size)>> \o WriteMotion(type, size, v))
             y == Append(d, MotionCode(v))
  <2>3. WriteMove(state, size, v) = PutCoded(state, x, y)
    BY <1>6, Zenon DEF WriteMove, PutCoded
  <2> HIDE DEF x, y
  <2>4. PutCoded(state, x, y) = [writer |-> x, predictor |-> p, drawn |-> y]
    BY <1>0, PutCodedIs
  <2>5. WriteMove(state, size, v) = [writer |-> x, predictor |-> p, drawn |-> y]
    BY <2>3, <2>4, Zenon
  <2>6. QED
    BY <2>5 DEF x, y
<1>3. CASE code.op = "stationary"
  <2>1. WriteCode(state, size, code) = WriteStationary(state, size)
    BY <1>3 DEF WriteCode
  <2>2. type # 7 => WriteStationary(state, size)
          = [writer |-> Write(w, Field(0, 2)), predictor |-> p,
            drawn |-> Append(d, StationaryCode)]
    <3> DEFINE x == Write(w, Field(0, 2))
               y == Append(d, StationaryCode)
    <3>2. type # 7 => WriteStationary(state, size) = PutCoded(state, x, y)
      BY <1>6, Zenon DEF WriteStationary, PutCoded
    <3> HIDE DEF x, y
    <3>3. PutCoded(state, x, y) = [writer |-> x, predictor |-> p, drawn |-> y]
      BY <1>0, PutCodedIs
    <3>4. QED
      BY <3>2, <3>3, Zenon DEF x, y
  <2>3. type = 7 => WriteStationary(state, size) = WriteMove(state, size, Stationary)
    BY DEF WriteStationary
  <2>5. CASE type = 7
    BY <1>1, <1>6, <2>1, <2>3, <2>5
  <2>6. CASE type # 7
    BY <1>6, <2>1, <2>2, <2>6
  <2>7. QED
    BY <2>5, <2>6
<1>4. CASE code.op = "motion"
  <2>1. WriteCode(state, size, code) = WriteMove(state, size, code.vector)
    BY <1>4 DEF WriteCode
  <2>2. QED
    BY <1>1, <1>6, <2>1
<1>5. QED
  BY <1>3, <1>4, LegalCopyIs

LEMMA CarriedIs ==
  ASSUME type \in AllTypes, NEW size, NEW code \in LegalData(type, size),
         NEW p, Settled(p), NEW luma
  PROVE  /\ Settled(Carried(type, p, code, luma, size))
         /\ type = 205 => Carried(type, p, code, luma, size).u = Nearest(code.u, p.u)
<1>1. type = 7 => Carried(type, p, code, luma, size) = p
  BY DEF Carried
<1>2. type # 7 =>
        /\ Carried(type, p, code, luma, size).u = (IF type = 205 THEN Nearest(code.u, p.u) ELSE 0)
        /\ Carried(type, p, code, luma, size).v = (IF type = 205 THEN Nearest(code.v, p.v) ELSE 0)
  BY DEF Carried, ChromaOf, Nearest
<1>3. Nearest(code.u, p.u) \in Six /\ Nearest(code.v, p.v) \in Six
  BY LegalDataIs, NearestIs DEF Settled
<1>4. 0 \in Six
  BY DEF Six
<1>5. QED
  BY <1>1, <1>2, <1>3, <1>4 DEF Settled

LEMMA ReconstructedIs ==
  ASSUME type \in AllTypes, NEW size, NEW code \in LegalData(type, size),
         NEW p, Settled(p)
  PROVE  /\ Reconstructed(type, p, code)
              = Data(code.luma,
                     IF type = 205 THEN Nearest(code.u, p.u) ELSE code.u,
                     IF type = 205 THEN Nearest(code.v, p.v) ELSE code.v)
         /\ Reconstructed(type, p, code).op = "data"
         /\ Reconstructed(type, p, code).u = IF type = 205 THEN Nearest(code.u, p.u) ELSE code.u
<1>1. code = Data(code.luma, code.u, code.v)
  BY LegalDataIs
<1>2. \A l, a, b, x, y, r : r = Data(l, a, b) => PutChroma(r, x, y) = Data(l, x, y)
  BY PutChromaIs DEF Data
<1>4. Reconstructed(type, p, code)
              = Data(code.luma,
                     IF type = 205 THEN Nearest(code.u, p.u) ELSE code.u,
                     IF type = 205 THEN Nearest(code.v, p.v) ELSE code.v)
  <2> DEFINE l == code.luma
             x == IF type = 205 THEN Nearest(code.u, p.u) ELSE code.u
             y == IF type = 205 THEN Nearest(code.v, p.v) ELSE code.v
  <2>1. Reconstructed(type, p, code) = PutChroma(code, x, y)
    BY Zenon DEF Reconstructed, ChromaOf, ChromaField, Nearest, PutChroma
  <2> HIDE DEF l, x, y
  <2>2. \E a, b : code = Data(l, a, b)
    BY <1>1 DEF l
  <2>3. Reconstructed(type, p, code) = Data(l, x, y)
    BY <1>2, <2>1, <2>2
  <2>4. QED
    BY <2>3 DEF l, x, y
<1>5. \A l, a, b : Data(l, a, b).op = "data" /\ Data(l, a, b).u = a
  BY DEF Data
<1>6. QED
  BY <1>4, <1>5

\* The states of the split's coding.
LEMMA SplitIsChain ==
  ASSUME NEW children, DOMAIN children = 1 .. 4
  PROVE  \E chain :
           /\ chain[0] = [writer |-> Write(NewWriter, Field(IF type = 7 THEN 2 ELSE 3, 2)),
                          predictor |-> predictor, drawn |-> <<>>]
           /\ \A i \in 1 .. 4 : chain[i] = WriteCode(chain[i - 1], 2, children[i])
           /\ SplitCandidate(children) = chain[4]
<1> DEFINE env == [fold |-> "children"]
           w == [Scratch EXCEPT !.writer = Write(@, Field(IF type = 7 THEN 2 ELSE 3, 2))]
           it == CHOOSE f : f = [s \in SUBSET DOMAIN children |->
                    IF s = {} THEN w
                    ELSE WriteCode(f[s \ {Max(s)}], 2, children[Max(s)])]
<1>1. \A a, x : Step(env, a, x) = WriteCode(a, 2, x)
  BY DEF Step
<1>2. \A s : LastIn(env, s) = Max(s)
  BY DEF LastIn
<1>0. w = [writer |-> Write(NewWriter, Field(IF type = 7 THEN 2 ELSE 3, 2)),
           predictor |-> predictor, drawn |-> <<>>]
  BY DEF Scratch
<1>6. SplitCandidate(children) = it[DOMAIN children]
  BY Zenon DEF SplitCandidate, FoldLeft, MapThenFoldSet
<1> HIDE DEF env, w
<1>3. \A f : Unfolds(f, env, w, children) <=> f = [s \in SUBSET DOMAIN children |->
                    IF s = {} THEN w
                    ELSE WriteCode(f[s \ {Max(s)}], 2, children[Max(s)])]
  <2>1. TAKE f
  <2>2. [s \in SUBSET DOMAIN children |->
           IF s = {} THEN w
           ELSE Step(env, f[s \ {LastIn(env, s)}], children[LastIn(env, s)])]
        = [s \in SUBSET DOMAIN children |->
           IF s = {} THEN w ELSE WriteCode(f[s \ {Max(s)}], 2, children[Max(s)])]
    BY <1>1, <1>2
  <2>3. QED
    BY <2>2, Zenon DEF Unfolds
<1>4. \E f : Unfolds(f, env, w, children)
  BY FoldExists, Zenon
<1>5. Unfolds(it, env, w, children)
  BY <1>3, <1>4, Zenon
<1> HIDE DEF it
<1>7. env.fold # "value"
  BY DEF env
<1>8. PICK chain : Chain(chain, env, w, children, 4) /\ chain[4] = it[DOMAIN children]
  <2> DEFINE m == 4
  <2>1. m \in Nat /\ DOMAIN children = 1 .. m
    OBVIOUS
  <2> HIDE DEF m
  <2>2. \E chain : Chain(chain, env, w, children, m) /\ chain[m] = it[DOMAIN children]
    BY <1>5, <1>7, <2>1, FoldIsChain
  <2>3. QED
    BY <2>2 DEF m
<1>9. QED
  BY <1>0, <1>1, <1>6, <1>8, Zenon DEF Chain

\* A sequence, of whatever.
IsSeq(s) == \E S : s \in Seq(S)

LEMMA AppendIs ==
  ASSUME NEW s, IsSeq(s), NEW e
  PROVE  /\ IsSeq(Append(s, e)) /\ Len(s) \in Nat
         /\ Len(Append(s, e)) = Len(s) + 1
         /\ DOMAIN s = 1 .. Len(s) /\ DOMAIN Append(s, e) = 1 .. Len(s) + 1
         /\ \A i \in 1 .. Len(s) : Append(s, e)[i] = s[i]
         /\ Append(s, e)[Len(s) + 1] = e
<1>1. PICK S : s \in Seq(S)
  BY DEF IsSeq
<1> DEFINE T == S \union {e}
<1>2. s \in Seq(T) /\ e \in T
  <2>1. S \subseteq T
    OBVIOUS
  <2> HIDE DEF T
  <2>2. s \in Seq(T)
    BY <1>1, <2>1
  <2>3. QED
    BY <2>2 DEF T
<1> HIDE DEF T
<1>3. Append(s, e) \in Seq(T)
  BY <1>2
<1>4. QED
  BY <1>2, <1>3 DEF IsSeq

LEMMA ChildStep ==
  ASSUME type \in AllTypes, NEW state, Coding(state), NEW size,
         NEW code \in LegalCopies(type, size) \union LegalData(type, size)
  PROVE  Coding(WriteCode(state, size, code))
<1>1. PICK w, p, d : state = [writer |-> w, predictor |-> p, drawn |-> d] /\ Settled(p)
  BY DEF Coding
<1>2. CASE code \in LegalCopies(type, size)
  <2>1. PICK w2, d2 : WriteCode(state, size, code)
                        = [writer |-> w2, predictor |-> state.predictor, drawn |-> d2]
    BY <1>2, CopyKeepsPredictor
  <2>2. QED
    BY <1>1, <2>1 DEF Coding
<1>3. CASE code \in LegalData(type, size)
  <2>1. code.op = "data"
    BY <1>3, LegalDataIs
  <2>2. WriteCode(state, size, code) = WriteData(state, size, code)
    BY <2>1 DEF WriteCode
  <2>3. Settled(Carried(type, p, code, code.luma, size))
    BY <1>1, <1>3, CarriedIs
  <2>4. state.predictor = p
    BY <1>1
  <2>5. QED
    BY <2>2, <2>3, <2>4 DEF Coding, WriteData
<1>4. QED
  BY <1>2, <1>3

LEMMA SplitIsCoding ==
  ASSUME type \in AllTypes, Settled(predictor), NEW children \in LegalChildren(type)
  PROVE  Coding(SplitCandidate(children))
<1>1. DOMAIN children = 1 .. 4
      /\ \A i \in 1 .. 4 : children[i] \in LegalCopies(type, 2) \union LegalData(type, 2)
  BY DEF LegalChildren
<1>2. PICK chain :
        /\ chain[0] = [writer |-> Write(NewWriter, Field(IF type = 7 THEN 2 ELSE 3, 2)),
                       predictor |-> predictor, drawn |-> <<>>]
        /\ \A i \in 1 .. 4 : chain[i] = WriteCode(chain[i - 1], 2, children[i])
        /\ SplitCandidate(children) = chain[4]
  BY <1>1, SplitIsChain
<1>3. Coding(chain[0])
  BY <1>2 DEF Coding
<1>4. \A i \in 1 .. 4 : Coding(chain[i - 1]) => Coding(chain[i])
  BY <1>1, <1>2, ChildStep
<1>5. Coding(chain[0]) /\ Coding(chain[1]) /\ Coding(chain[2]) /\ Coding(chain[3]) /\
        Coding(chain[4])
  BY <1>3, <1>4
<1>6. QED
  BY <1>2, <1>5

-----------------------------------------------------------------------------
(* The chroma of the frame's blocks.                                       *)

ChromaWritten == type \in Types /\ wanted \in Seq(LegalCodes(type))
\* A decoder has the chroma of every data block exactly or, of deltas, nearly.
ChromaNear ==
  \A i \in 1 .. Len(wanted) :
    wanted[i].op = "data" =>
      /\ drawn[i].u \in Six /\ wanted[i].u \in Six
      /\ type # 205 => drawn[i].u = wanted[i].u
      /\ type = 205 => Gap(drawn[i].u, wanted[i].u) <= 5
\* Of two data blocks the second is coded against what a decoder has of the first.
ChromaFollows ==
  type = 205 =>
    \A i \in 1 .. Len(wanted), j \in 1 .. Len(wanted) :
      j = i + 1 /\ wanted[i].op = "data" /\ wanted[j].op = "data" =>
        drawn[j].u = Nearest(wanted[j].u, drawn[i].u)
\* After a data block the predictor is what it drew.
ChromaCarried ==
  type = 205 =>
    \A i \in 1 .. Len(wanted) :
      i = Len(wanted) /\ wanted[i].op = "data" => predictor.u = drawn[i].u
ChromaInv ==
  /\ ChromaWritten
  /\ Settled(predictor)
  /\ IsSeq(drawn) /\ Len(drawn) = Len(wanted)
  /\ ChromaNear /\ ChromaFollows /\ ChromaCarried

LEMMA LegalCodeIs ==
  ASSUME NEW t \in AllTypes, NEW code \in LegalCodes(t), code.op = "data"
  PROVE  code \in LegalData(t, 4)
<1>1. code \notin LegalCopies(t, 4)
  BY LegalCopyIs
<1>2. \A c : SplitCode(c).op = "split"
  BY DEF SplitCode
<1>3. QED
  BY <1>1, <1>2 DEF LegalCodes

\* A block more.
LEMMA ChromaAppend ==
  ASSUME SyntaxAssumption, ChromaInv, NEW code \in LegalCodes(type), NEW asDrawn,
         type' = type, wanted' = Append(wanted, code), drawn' = Append(drawn, asDrawn),
         Settled(predictor'),
         code.op = "data" =>
           /\ asDrawn.u = IF type = 205 THEN Nearest(code.u, predictor.u) ELSE code.u
           /\ type = 205 => predictor'.u = Nearest(code.u, predictor.u)
  PROVE  ChromaInv'
<1> DEFINE n == Len(wanted)
<1>1. type \in AllTypes /\ wanted \in Seq(LegalCodes(type)) /\ n \in Nat /\ IsSeq(wanted)
  BY DEF ChromaInv, ChromaWritten, SyntaxAssumption, IsSeq
<1>2. /\ Len(wanted') = n + 1 /\ wanted'[n + 1] = code
      /\ \A i \in 1 .. n : wanted'[i] = wanted[i]
  BY <1>1, AppendIs
<1>3. /\ Len(drawn') = n + 1 /\ drawn'[n + 1] = asDrawn /\ IsSeq(drawn')
      /\ \A i \in 1 .. n : drawn'[i] = drawn[i]
  <2>1. IsSeq(drawn) /\ Len(drawn) = n
    BY DEF ChromaInv
  <2>2. QED
    BY <2>1, AppendIs
<1>4. wanted' \in Seq(LegalCodes(type))
  BY <1>1
<1>5. ASSUME code.op = "data"
      PROVE  /\ code.u \in Six /\ asDrawn.u \in Six
             /\ type # 205 => asDrawn.u = code.u
             /\ type = 205 => Gap(asDrawn.u, code.u) <= 5
  <2>1. code.u \in Six
    BY <1>1, <1>5, LegalCodeIs, LegalDataIs
  <2>2. predictor.u \in Six
    BY DEF ChromaInv, Settled
  <2>3. Nearest(code.u, predictor.u) \in Six /\ Gap(Nearest(code.u, predictor.u), code.u) <= 5
    BY <2>1, <2>2, NearestIs, FirstStep
  <2>4. QED
    BY <1>5, <2>1, <2>3
<1> HIDE DEF n
<1>6. ChromaNear'
  <2>0. SUFFICES ASSUME NEW i \in 1 .. n + 1, wanted'[i].op = "data"
               PROVE  /\ drawn'[i].u \in Six /\ wanted'[i].u \in Six
                      /\ type # 205 => drawn'[i].u = wanted'[i].u
                      /\ type = 205 => Gap(drawn'[i].u, wanted'[i].u) <= 5
    BY <1>2 DEF ChromaNear
  <2>1. CASE i \in 1 .. n
    <3>1. wanted'[i] = wanted[i] /\ drawn'[i] = drawn[i]
      BY <1>2, <1>3, <2>1
    <3>2. wanted[i].op = "data" =>
            /\ drawn[i].u \in Six /\ wanted[i].u \in Six
            /\ type # 205 => drawn[i].u = wanted[i].u
            /\ type = 205 => Gap(drawn[i].u, wanted[i].u) <= 5
      BY <2>1 DEF ChromaInv, ChromaNear, n
    <3> QED
      BY <2>0, <3>1, <3>2
  <2>2. CASE i = n + 1
    BY <1>2, <1>3, <1>5, <2>0, <2>2
  <2>3. i \in 1 .. n \/ i = n + 1
    BY <1>1
  <2>4. QED
    BY <2>1, <2>2, <2>3, Zenon
<1>7. ASSUME type = 205
      PROVE  ChromaFollows' /\ ChromaCarried'
  <2>1. ASSUME NEW i \in 1 .. n + 1, NEW j \in 1 .. n + 1, j = i + 1,
               wanted'[i].op = "data", wanted'[j].op = "data"
        PROVE  drawn'[j].u = Nearest(wanted'[j].u, drawn'[i].u)
    <3>1. i \in 1 .. n
      BY <1>1, <2>1
    <3>2. CASE j \in 1 .. n
      <4>1. /\ wanted'[i] = wanted[i] /\ drawn'[i] = drawn[i]
            /\ wanted'[j] = wanted[j] /\ drawn'[j] = drawn[j]
        BY <1>2, <1>3, <3>1, <3>2
      <4>2. wanted[i].op = "data" /\ wanted[j].op = "data" =>
              drawn[j].u = Nearest(wanted[j].u, drawn[i].u)
        BY <1>7, <2>1, <3>1, <3>2 DEF ChromaInv, ChromaFollows, n
      <4>3. QED
        BY <2>1, <4>1, <4>2
    <3>3. CASE j = n + 1
      <4>1. i = n /\ wanted[i].op = "data" /\ code.op = "data"
        BY <1>1, <1>2, <2>1, <3>1, <3>3
      <4>2. predictor.u = drawn[i].u
        BY <1>7, <3>1, <4>1 DEF ChromaInv, ChromaCarried, n
      <4>3. drawn'[i] = drawn[i] /\ drawn'[j] = asDrawn /\ wanted'[j] = code
        BY <1>2, <1>3, <3>1, <3>3
      <4>4. asDrawn.u = Nearest(code.u, predictor.u)
        BY <1>7, <4>1
      <4>5. QED
        BY <4>2, <4>3, <4>4
    <3>4. j \in 1 .. n \/ j = n + 1
      BY <1>1
    <3>5. QED
      BY <3>2, <3>3, <3>4, Zenon
  <2>2. ASSUME NEW i \in 1 .. n + 1, i = n + 1, wanted'[i].op = "data"
        PROVE  predictor'.u = drawn'[i].u
    BY <1>2, <1>3, <1>7, <2>2
  <2>6. 1 .. Len(wanted') = 1 .. n + 1 /\ Len(wanted') = n + 1
    BY <1>2
  <2>3. ChromaFollows'
    <3>1. \A i \in 1 .. n + 1, j \in 1 .. n + 1 :
            j = i + 1 /\ wanted'[i].op = "data" /\ wanted'[j].op = "data" =>
              drawn'[j].u = Nearest(wanted'[j].u, drawn'[i].u)
      BY <2>1, Zenon
    <3>2. \A i \in 1 .. Len(wanted'), j \in 1 .. Len(wanted') :
            j = i + 1 /\ wanted'[i].op = "data" /\ wanted'[j].op = "data" =>
              drawn'[j].u = Nearest(wanted'[j].u, drawn'[i].u)
      BY <2>6, <3>1, Zenon
    <3>3. QED
      BY <3>2, Zenon DEF ChromaFollows
  <2>4. ChromaCarried'
    <3>1. \A i \in 1 .. n + 1 : i = n + 1 /\ wanted'[i].op = "data" => predictor'.u = drawn'[i].u
      BY <2>2, Zenon
    <3>2. \A i \in 1 .. Len(wanted') :
            i = Len(wanted') /\ wanted'[i].op = "data" => predictor'.u = drawn'[i].u
      BY <2>6, <3>1, Zenon
    <3>3. QED
      BY <3>2, Zenon DEF ChromaCarried
  <2>5. QED
    BY <2>3, <2>4
<1>8. ChromaFollows' /\ ChromaCarried'
  <2>1. type # 205 => ChromaFollows' /\ ChromaCarried'
    BY DEF ChromaFollows, ChromaCarried
  <2>2. QED
    BY <1>7, <2>1
<1>9. QED
  BY <1>2, <1>3, <1>4, <1>6, <1>8 DEF ChromaInv, ChromaWritten

LEMMA ChromaInit ==
  ASSUME SyntaxAssumption, Init
  PROVE  ChromaInv
<1>1. type \in Types /\ predictor = NewPredictor /\ wanted = <<>> /\ drawn = <<>>
  BY DEF Init
<1>2. Settled(predictor)
  BY <1>1 DEF NewPredictor, Settled, Six
<1>3. Len(wanted) = 0 /\ Len(drawn) = 0 /\ 1 .. 0 = {} /\ wanted \in Seq(LegalCodes(type))
      /\ drawn \in Seq({})
  BY <1>1
<1>4. IsSeq(drawn)
  BY <1>3 DEF IsSeq
<1>5. QED
  BY <1>1, <1>2, <1>3, <1>4 DEF ChromaInv, ChromaWritten, ChromaNear, ChromaFollows, ChromaCarried

LEMMA OfferIsLegal ==
  ASSUME OffersAreLegal, ChromaInv, NEW offer \in Offered(type, wanted)
  PROVE  offer \in LegalOffers(type)
BY DEF OffersAreLegal, ChromaInv, ChromaWritten

LEMMA CodeIsLegal ==
  ASSUME NEW t
  PROVE  /\ LegalCopies(t, 4) \subseteq LegalCodes(t) /\ LegalData(t, 4) \subseteq LegalCodes(t)
         /\ \A c \in LegalChildren(t) : SplitCode(c) \in LegalCodes(t)
BY DEF LegalCodes

\* A copy leaves the predictor alone.
LEMMA ChromaCopy ==
  ASSUME SyntaxAssumption, OffersAreLegal, ChromaInv, EncodeCopy
  PROVE  ChromaInv'
<1>1. PICK code \in Offered(type, wanted) :
        /\ code.op \in {"stationary", "motion"}
        /\ drawn' = WriteCode([writer |-> writer, predictor |-> predictor, drawn |-> drawn],
                              4, code).drawn
        /\ wanted' = Append(wanted, code)
  BY DEF EncodeCopy
<1> DEFINE state == [writer |-> writer, predictor |-> predictor, drawn |-> drawn]
<1>2. code \in LegalCopies(type, 4) /\ code \in LegalCodes(type)
  BY <1>1, OfferIsLegal, LegalOfferIs, CodeIsLegal
<1>3. Coding(state) /\ state.drawn = drawn
  BY DEF Coding, ChromaInv
<1>10. drawn' = WriteCode(state, 4, code).drawn
  BY <1>1
<1> HIDE DEF state
<1>4. PICK w2, d2 : /\ WriteCode(state, 4, code)
                         = [writer |-> w2, predictor |-> state.predictor, drawn |-> d2]
                    /\ \E move : d2 = Append(state.drawn, move)
  BY <1>2, <1>3, CopyKeepsPredictor
<1>5. \E move : drawn' = Append(drawn, move)
  BY <1>3, <1>4, <1>10
<1>6. type' = type /\ predictor' = predictor
  BY DEF EncodeCopy
<1>7. code.op # "data"
  BY <1>1
<1>8. Settled(predictor')
  BY <1>6 DEF ChromaInv
<1>9. QED
  BY <1>1, <1>2, <1>5, <1>6, <1>7, <1>8, ChromaAppend

LEMMA ChromaBlock ==
  ASSUME SyntaxAssumption, OffersAreLegal, ChromaInv, EncodeBlock
  PROVE  ChromaInv'
<1>1. PICK offer \in Offered(type, wanted), allowSplit \in BOOLEAN :
        /\ offer.op = "block"
        /\ KeepShorter(offer, allowSplit, DataCandidate(offer.data),
             SplitCandidate(offer.children))
  BY DEF EncodeBlock
<1>2. type' = type /\ type \in AllTypes /\ Settled(predictor)
  BY DEF EncodeBlock, ChromaInv, ChromaWritten, SyntaxAssumption
<1>3. offer.data \in LegalData(type, 4) /\ offer.children \in LegalChildren(type)
  BY <1>1, OfferIsLegal, LegalBlockIs
<1>4. SplitCode(offer.children) \in LegalCodes(type) /\ offer.data \in LegalCodes(type)
  BY <1>3, CodeIsLegal
<1> DEFINE split == SplitCandidate(offer.children)
           data == DataCandidate(offer.data)
<1>5. CASE Keep(split, SplitCode(offer.children), SplitCode(split.drawn))
  <2>1. wanted' = Append(wanted, SplitCode(offer.children))
        /\ drawn' = Append(drawn, SplitCode(split.drawn)) /\ predictor' = split.predictor
    BY <1>5 DEF Keep
  <2>2. Settled(split.predictor)
    <3>1. Coding(split)
      BY <1>2, <1>3, SplitIsCoding
    <3> HIDE DEF split
    <3>2. QED
      BY <3>1 DEF Coding
  <2>3. SplitCode(offer.children).op # "data"
    BY DEF SplitCode
  <2>4. Settled(predictor')
    BY <2>1, <2>2
  <2> HIDE DEF split
  <2>5. QED
    BY <1>2, <1>4, <2>1, <2>3, <2>4, ChromaAppend
<1>6. CASE Keep(data, offer.data, data.drawn[1])
  <2>1. wanted' = Append(wanted, offer.data) /\ drawn' = Append(drawn, data.drawn[1])
        /\ predictor' = data.predictor
    BY <1>6 DEF Keep
  <2>2. data.drawn = Append(<<>>, Reconstructed(type, predictor, offer.data))
        /\ data.predictor = Carried(type, predictor, offer.data, offer.data.luma, 4)
    BY DEF DataCandidate, WriteData, Scratch
  <2>3. data.drawn[1] = Reconstructed(type, predictor, offer.data)
    <3>1. \A e : Append(<<>>, e)[1] = e
      OBVIOUS
    <3>2. QED
      BY <2>2, <3>1
  <2>4. data.drawn[1].u = IF type = 205 THEN Nearest(offer.data.u, predictor.u) ELSE offer.data.u
    BY <1>2, <1>3, <2>3, ReconstructedIs
  <2>5. Settled(data.predictor)
        /\ (type = 205 => data.predictor.u = Nearest(offer.data.u, predictor.u))
    BY <1>2, <1>3, <2>2, CarriedIs
  <2>6. Settled(predictor')
    BY <2>1, <2>5
  <2> HIDE DEF data
  <2>7. QED
    BY <1>2, <1>4, <2>1, <2>4, <2>5, <2>6, ChromaAppend
<1>7. QED
  BY <1>1, <1>5, <1>6 DEF KeepShorter

LEMMA ChromaStays ==
  ASSUME ChromaInv, UNCHANGED <<type, predictor, wanted, drawn>>
  PROVE  ChromaInv'
BY DEF ChromaInv, ChromaWritten, ChromaNear, ChromaFollows, ChromaCarried, Settled, IsSeq

LEMMA ChromaShown ==
  ASSUME SyntaxAssumption, ChromaInv
  PROVE  ChromaSettles
<1>1. SUFFICES ASSUME NEW i \in 1 .. Len(wanted) - 1,
                      wanted[i].op = "data", wanted[i + 1].op = "data",
                      wanted[i].u = wanted[i + 1].u
               PROVE  /\ \/ drawn[i + 1].u = wanted[i].u
                         \/ Gap(drawn[i + 1].u, wanted[i].u) < Gap(drawn[i].u, wanted[i].u)
                      /\ i > 1 /\ wanted[i - 1].op = "data" /\ wanted[i - 1].u = wanted[i].u =>
                           drawn[i + 1].u = wanted[i].u
  BY Zenon DEF ChromaSettles
<1> DEFINE n == Len(wanted)
           t == wanted[i].u
<1>2. n \in Nat /\ type \in AllTypes
  BY DEF ChromaInv, ChromaWritten, SyntaxAssumption
<1> HIDE DEF n
<1>3. i \in 1 .. n /\ i + 1 \in 1 .. n
  BY <1>2 DEF n
<1>4. ASSUME NEW k \in 1 .. n, wanted[k].op = "data"
      PROVE  /\ drawn[k].u \in Six /\ wanted[k].u \in Six
             /\ type # 205 => drawn[k].u = wanted[k].u
             /\ type = 205 => Gap(drawn[k].u, wanted[k].u) <= 5
  BY <1>4 DEF ChromaInv, ChromaNear, n
<1>5. CASE type # 205
  BY <1>1, <1>3, <1>4, <1>5
<1>6. CASE type = 205
  <2>1. t \in Six /\ drawn[i].u \in Six
    BY <1>1, <1>3, <1>4
  <2>2. drawn[i + 1].u = Nearest(t, drawn[i].u)
    BY <1>1, <1>3, <1>6 DEF ChromaInv, ChromaFollows, n
  <2>3. \/ drawn[i + 1].u = t
        \/ Gap(drawn[i + 1].u, t) < Gap(drawn[i].u, t)
    BY <2>1, <2>2, LaterStep
  <2>4. ASSUME i > 1, wanted[i - 1].op = "data", wanted[i - 1].u = t
        PROVE  drawn[i + 1].u = t
    <3> DEFINE h == i - 1
    <3>1. h \in 1 .. n /\ i = h + 1
      BY <1>2, <1>3, <2>4
    <3>2. wanted[h].op = "data" /\ wanted[h].u = t
      BY <2>4
    <3> HIDE DEF h
    <3>3. drawn[h].u \in Six /\ Gap(drawn[h].u, t) <= 5
      BY <1>4, <1>6, <3>1, <3>2
    <3>4. drawn[i].u = Nearest(t, drawn[h].u)
      BY <1>1, <1>3, <1>6, <3>1, <3>2 DEF ChromaInv, ChromaFollows, n
    <3>5. Gap(drawn[i].u, t) <= 1
      BY <2>1, <3>3, <3>4, LaterStep
    <3>6. QED
      BY <2>1, <2>2, <3>5, LaterStep
  <2>5. QED
    BY <2>3, <2>4
<1>7. QED
  BY <1>5, <1>6

LEMMA ChromaKept ==
  ASSUME OffersAreLegal
  PROVE  Spec => []ChromaInv
<1>1. SyntaxAssumption
  BY SyntaxAssumption
<1>2. Init => ChromaInv
  BY <1>1, ChromaInit
<1>3. ChromaInv /\ [Next]_frameVars => ChromaInv'
  <2>1. SUFFICES ASSUME ChromaInv, [Next]_frameVars PROVE ChromaInv'
    OBVIOUS
  <2>2. CASE EncodeCopy
    BY <1>1, <2>1, <2>2, ChromaCopy
  <2>3. CASE EncodeBlock
    BY <1>1, <2>1, <2>3, ChromaBlock
  <2>4. CASE VerifyFrame
    BY <2>1, <2>4, ChromaStays DEF VerifyFrame
  <2>5. CASE UNCHANGED frameVars
    BY <2>1, <2>5, ChromaStays DEF frameVars
  <2>6. QED
    BY <2>1, <2>2, <2>3, <2>4, <2>5 DEF Next
<1>4. QED
  BY <1>2, <1>3, PTL DEF Spec

\* While the picture's chroma stays, each data block of delta-coded chroma
\* comes closer to it and the third is exact, whatever came before them
\* (choose_delta, codec_movingblocksbeta.c:406).
THEOREM ChromaAlwaysSettles ==
  ASSUME OffersAreLegal
  PROVE  Spec => []ChromaSettles
<1>1. SyntaxAssumption
  BY SyntaxAssumption
<1>2. ChromaInv => ChromaSettles
  BY <1>1, ChromaShown
<1>3. Spec => []ChromaInv
  BY ChromaKept
<1>4. QED
  BY <1>2, <1>3, PTL

-----------------------------------------------------------------------------
(* Fields and their values.                                                *)

Bit == {0, 1}

\* The quotient and the remainder are the only ones.
LEMMA DivisionIs ==
  ASSUME NEW L \in Nat \ {0}, NEW b \in 0 .. L - 1, NEW q \in Int
  PROVE  (b + L * q) % L = b /\ (b + L * q) \div L = q
<1> DEFINE m == b + L * q
           k == m \div L
<1>1. m \in Int
  OBVIOUS
<1> HIDE DEF m
<1>2. m = L * k + (m % L) /\ m % L \in 0 .. L - 1 /\ k \in Int
  BY <1>1
<1> HIDE DEF k
<1>3. L * k + (m % L) = b + L * q
  BY <1>2 DEF m
<1>4. ~ (k >= q + 1)
  <2>1. SUFFICES ASSUME k >= q + 1 PROVE FALSE
    OBVIOUS
  <2>2. PICK d \in Nat : k = q + 1 + d
    <3>1. k - q - 1 \in Nat /\ k = q + 1 + (k - q - 1)
      BY <1>2, <2>1
    <3>2. QED
      BY <3>1
  <2>3. L * k = L * q + L + L * d
    BY <2>2
  <2>4. L * d \in Nat /\ L * q \in Int
    OBVIOUS
  <2>5. QED
    BY <1>2, <1>3, <2>3, <2>4
<1>5. ~ (q >= k + 1)
  <2>1. SUFFICES ASSUME q >= k + 1 PROVE FALSE
    OBVIOUS
  <2>2. PICK d \in Nat : q = k + 1 + d
    <3>1. q - k - 1 \in Nat /\ q = k + 1 + (q - k - 1)
      BY <1>2, <2>1
    <3>2. QED
      BY <3>1
  <2>3. L * q = L * k + L + L * d
    BY <1>2, <2>2
  <2>4. L * d \in Nat /\ L * k \in Int
    BY <1>2
  <2>5. QED
    BY <1>2, <1>3, <2>3, <2>4
<1>6. k = q
  BY <1>2, <1>4, <1>5
<1>7. m % L = b
  <2>1. PICK x \in Int : x = L * q
    OBVIOUS
  <2>2. x + (m % L) = b + x
    BY <1>3, <1>6, <2>1
  <2>3. QED
    BY <1>2, <2>2
<1>8. QED
  BY <1>6, <1>7 DEF m, k

\* One bit more of the remainder.
LEMMA Halving ==
  ASSUME NEW v \in Nat, NEW p \in Nat \ {0}
  PROVE  v % (2 * p) = (v % p) + p * ((v \div p) % 2)
<1> DEFINE q == v \div p
           r == v % p
           h == q \div 2
           e == q % 2
<1>1. v = p * q + r /\ r \in 0 .. p - 1 /\ q \in Nat
  OBVIOUS
<1> HIDE DEF q, r
<1>2. q = 2 * h + e /\ e \in {0, 1} /\ h \in Int
  BY <1>1
<1> HIDE DEF h, e
<1>3. p * q = (2 * p) * h + p * e
  BY <1>1, <1>2
<1>4. p * e \in {0, p}
  BY <1>2
<1>5. r + p * e \in 0 .. 2 * p - 1 /\ 2 * p \in Nat \ {0}
  BY <1>1, <1>4
<1>6. v = (r + p * e) + (2 * p) * h
  <2>1. PICK x \in Int : x = (2 * p) * h
    BY <1>2
  <2>2. PICK y \in Int : y = p * e
    BY <1>4
  <2>3. v = x + y + r
    BY <1>1, <1>3, <2>1, <2>2
  <2>4. QED
    BY <1>1, <2>1, <2>2, <2>3
<1>7. ((r + p * e) + (2 * p) * h) % (2 * p) = r + p * e
  BY <1>2, <1>5, DivisionIs
<1>8. QED
  BY <1>6, <1>7 DEF r, e, q

\* The powers that bound the fields, as a table.
Powers(p) ==
  /\ p \in [0 .. 11 -> Nat \ {0}]
  /\ \A d \in 0 .. 11 : 2 ^ d = p[d]
  /\ p[0] = 1
  /\ \A d \in 1 .. 11 : p[d] = 2 * p[d - 1]

LEMMA PowersOfTwo == \E p : Powers(p)
<1> DEFINE p == [d \in 0 .. 11 |-> 2 ^ d]
<1>1. /\ 2 ^ 0 = 1 /\ 2 ^ 1 = 2 /\ 2 ^ 2 = 4 /\ 2 ^ 3 = 8
      /\ 2 ^ 4 = 16 /\ 2 ^ 5 = 32 /\ 2 ^ 6 = 64 /\ 2 ^ 7 = 128 /\ 2 ^ 8 = 256
      /\ 2 ^ 9 = 512 /\ 2 ^ 10 = 1024 /\ 2 ^ 11 = 2048
  BY SMT
<1>2. /\ p[0] = 1 /\ p[1] = 2 /\ p[2] = 4 /\ p[3] = 8 /\ p[4] = 16
      /\ p[5] = 32 /\ p[6] = 64 /\ p[7] = 128 /\ p[8] = 256
      /\ p[9] = 512 /\ p[10] = 1024 /\ p[11] = 2048
  BY <1>1
<1>3. \A d \in 0 .. 11 : 2 ^ d = p[d]
  OBVIOUS
<1>4. p = [d \in 0 .. 11 |-> p[d]]
  OBVIOUS
<1> HIDE DEF p
<1>5. \A d \in 0 .. 11 : p[d] \in Nat \ {0}
  BY <1>2
<1>6. \A d \in 1 .. 11 : p[d] = 2 * p[d - 1]
  BY <1>2
<1>7. p \in [0 .. 11 -> Nat \ {0}]
  BY <1>4, <1>5
<1>8. QED
  BY <1>2, <1>3, <1>6, <1>7 DEF Powers

LEMMA FieldIs ==
  ASSUME NEW v \in Nat, NEW n \in 0 .. 11
  PROVE  /\ Field(v, n) \in Seq(Bit) /\ Len(Field(v, n)) = n
         /\ DOMAIN Field(v, n) = 1 .. n
<1>1. PICK p \in [0 .. 11 -> Nat \ {0}] : \A d \in 0 .. 11 : 2 ^ d = p[d]
  BY PowersOfTwo DEF Powers
<1>2. ASSUME NEW i \in 1 .. n
      PROVE  (v \div 2 ^ (i - 1)) % 2 \in Bit
  <2>1. i - 1 \in 0 .. 11
    OBVIOUS
  <2>2. PICK q \in Nat \ {0} : q = 2 ^ (i - 1)
    BY <1>1, <2>1
  <2>3. (v \div q) \in Nat
    BY <2>2
  <2>4. (v \div q) % 2 \in Bit
    BY <2>3 DEF Bit
  <2>5. QED
    BY <2>2, <2>4
<1>3. QED
  BY <1>2 DEF Field

\* The value of bits adds up from the last.
LEMMA ValueIsChain ==
  ASSUME NEW n \in Nat, NEW bits, DOMAIN bits = 1 .. n
  PROVE  \E chain : /\ chain[n + 1] = 0
                    /\ \A i \in 1 .. n : chain[i] = bits[i] + 2 * chain[i + 1]
                    /\ ValueOf(bits) = chain[1]
<1> DEFINE env == [fold |-> "value"]
           it == CHOOSE f : f = [s \in SUBSET DOMAIN bits |->
                    IF s = {} THEN 0
                    ELSE bits[Min(s)] + 2 * f[s \ {Min(s)}]]
<1>1. \A a, x : Step(env, a, x) = x + 2 * a
  BY DEF Step
<1>2. \A s : LastIn(env, s) = Min(s)
  BY DEF LastIn
<1> HIDE DEF env
<1>3. \A f : Unfolds(f, env, 0, bits) <=> f = [s \in SUBSET DOMAIN bits |->
                    IF s = {} THEN 0
                    ELSE bits[Min(s)] + 2 * f[s \ {Min(s)}]]
  <2>1. TAKE f
  <2>2. [s \in SUBSET DOMAIN bits |->
           IF s = {} THEN 0
           ELSE Step(env, f[s \ {LastIn(env, s)}], bits[LastIn(env, s)])]
        = [s \in SUBSET DOMAIN bits |->
           IF s = {} THEN 0 ELSE bits[Min(s)] + 2 * f[s \ {Min(s)}]]
    BY <1>1, <1>2
  <2>3. QED
    BY <2>2, Zenon DEF Unfolds
<1>4. \E f : Unfolds(f, env, 0, bits)
  BY FoldExists, Zenon
<1>5. Unfolds(it, env, 0, bits)
  BY <1>3, <1>4, Zenon
<1>6. ValueOf(bits) = it[DOMAIN bits]
  BY Zenon DEF ValueOf, FoldRight, MapThenFoldSet
<1>7. it = [s \in SUBSET (1 .. n) |->
              IF s = {} THEN 0 ELSE bits[Min(s)] + 2 * it[s \ {Min(s)}]]
  BY <1>3, <1>5, Zenon
<1> HIDE DEF it
<1> DEFINE chain == [i \in 1 .. n + 1 |-> it[i .. n]]
<1>8. chain[n + 1] = 0
  <2>1. (n + 1) .. n = {} /\ n + 1 \in 1 .. n + 1 /\ {} \in SUBSET (1 .. n)
    OBVIOUS
  <2>2. it[{}] = 0
    BY <1>7, <2>1, Zenon
  <2>3. QED
    BY <2>1, <2>2
<1>9. ASSUME NEW i \in 1 .. n
      PROVE  chain[i] = bits[i] + 2 * chain[i + 1]
  <2>1. /\ i .. n \in SUBSET (1 .. n) /\ i .. n # {} /\ i \in 1 .. n + 1
        /\ i + 1 \in 1 .. n + 1 /\ (i .. n) \ {i} = (i + 1) .. n
    <3>1. i .. n \in SUBSET (1 .. n) /\ i \in i .. n
      OBVIOUS
    <3>2. i \in 1 .. n + 1 /\ i + 1 \in 1 .. n + 1
      OBVIOUS
    <3>3. (i .. n) \ {i} = (i + 1) .. n
      OBVIOUS
    <3>4. QED
      BY <3>1, <3>2, <3>3, Zenon
  <2>2. Min(i .. n) = i
    <3>1. i \in i .. n /\ \A y \in i .. n : i <= y
      OBVIOUS
    <3>2. \A x \in i .. n : (\A y \in i .. n : x <= y) => x = i
      OBVIOUS
    <3>3. QED
      BY <3>1, <3>2 DEF Min
  <2>3. it[i .. n] = bits[Min(i .. n)] + 2 * it[(i .. n) \ {Min(i .. n)}]
    BY <1>7, <2>1, Zenon
  <2>4. it[i .. n] = bits[i] + 2 * it[(i + 1) .. n]
    BY <2>1, <2>2, <2>3
  <2>5. chain[i] = it[i .. n] /\ chain[i + 1] = it[(i + 1) .. n]
    BY <2>1
  <2>6. QED
    BY <2>4, <2>5
<1>10. ValueOf(bits) = chain[1]
  BY <1>6
<1> HIDE DEF chain
<1>11. QED
  BY <1>8, <1>9, <1>10

LEMMA ValueOfNothing ==
  ValueOf(<<>>) = 0
<1>1. DOMAIN <<>> = 1 .. 0
  OBVIOUS
<1>2. PICK chain : chain[0 + 1] = 0 /\ ValueOf(<<>>) = chain[1]
  BY <1>1, ValueIsChain
<1>3. QED
  BY <1>2

\* One bit more at the end.
Longer(bits, more, l) ==
  /\ DOMAIN bits = 1 .. l /\ DOMAIN more = 1 .. l + 1
  /\ \A i \in 1 .. l : more[i] = bits[i] /\ bits[i] \in Bit
  /\ more[l + 1] \in Bit

\* One bit more is worth the next power.
LEMMA ValueGrows ==
  ASSUME NEW p, Powers(p), NEW l \in 0 .. 10, NEW bits, NEW more,
         Longer(bits, more, l)
  PROVE  ValueOf(bits) \in Nat
           /\ ValueOf(more) = ValueOf(bits) + p[l] * more[l + 1]
<1> DEFINE b == more[l + 1]
<1>0. /\ DOMAIN bits = 1 .. l /\ DOMAIN more = 1 .. l + 1
      /\ \A i \in 1 .. l : more[i] = bits[i] /\ bits[i] \in Nat
      /\ b \in {0, 1} /\ l \in Nat /\ l + 1 \in Nat
  BY DEF Longer, Bit
<1> HIDE DEF b
<1>1. PICK c : /\ c[l + 1] = 0
               /\ \A i \in 1 .. l : c[i] = bits[i] + 2 * c[i + 1]
               /\ ValueOf(bits) = c[1]
  <2>1. l \in Nat /\ DOMAIN bits = 1 .. l
    BY <1>0
  <2>2. QED
    BY <2>1, ValueIsChain, Zenon
<1>2. PICK d : /\ d[(l + 1) + 1] = 0
               /\ \A i \in 1 .. l + 1 : d[i] = more[i] + 2 * d[i + 1]
               /\ ValueOf(more) = d[1]
  <2>1. l + 1 \in Nat /\ DOMAIN more = 1 .. l + 1
    BY <1>0
  <2>2. QED
    BY <2>1, ValueIsChain, Zenon
<1> DEFINE Good(j) == /\ c[l + 1 - j] \in Nat
                      /\ d[l + 1 - j] = c[l + 1 - j] + p[j] * b
           Bad == {j \in Nat : j <= l /\ ~ Good(j)}
<1>3. Good(0)
  <2>1. l + 1 \in 1 .. l + 1 /\ l + 1 - 0 = l + 1
    OBVIOUS
  <2>2. d[l + 1] = b + 2 * d[(l + 1) + 1]
    BY <1>2, <2>1 DEF b
  <2>3. d[l + 1] = b /\ b \in Nat
    BY <1>0, <1>2, <2>2
  <2>4. p[0] = 1
    BY DEF Powers
  <2>5. QED
    BY <1>1, <2>1, <2>3, <2>4
<1>4. Bad = {}
  <2> SUFFICES ASSUME Bad # {} PROVE FALSE
    OBVIOUS
  <2>1. PICK j \in Bad : \A k \in Bad : j <= k
    BY LeastNat
  <2>2. j # 0 /\ j \in Nat /\ j <= l /\ ~ Good(j)
    BY <1>3, <2>1
  <2>3. j - 1 \in Nat /\ j - 1 <= l /\ ~ (j <= j - 1)
    BY <2>2
  <2>4. Good(j - 1)
    BY <2>1, <2>3
  <2> DEFINE i == l + 1 - j
  <2>5. i \in 1 .. l /\ i \in 1 .. l + 1 /\ l + 1 - (j - 1) = i + 1
    BY <2>2
  <2>6. c[i + 1] \in Nat /\ d[i + 1] = c[i + 1] + p[j - 1] * b
    BY <2>4, <2>5
  <2>7. c[i] = bits[i] + 2 * c[i + 1] /\ d[i] = bits[i] + 2 * d[i + 1]
    BY <1>0, <1>1, <1>2, <2>5
  <2>8. p[j] = 2 * p[j - 1] /\ p[j - 1] \in Nat
    <3>1. j \in 1 .. 11 /\ j - 1 \in 0 .. 11
      BY <2>2
    <3>2. QED
      BY <3>1 DEF Powers
  <2>9. bits[i] \in Nat
    BY <1>0, <2>5
  <2> HIDE DEF i
  <2>10. c[i] \in Nat
    BY <2>6, <2>7, <2>9
  <2>11. d[i] = c[i] + p[j] * b
    <3>1. CASE b = 0
      BY <2>6, <2>7, <2>8, <2>9, <3>1
    <3>2. CASE b = 1
      BY <2>6, <2>7, <2>8, <2>9, <3>2
    <3>3. QED
      BY <1>0, <3>1, <3>2
  <2>12. QED
    BY <2>2, <2>10, <2>11 DEF i
<1>5. Good(l)
  <2>1. l \in Nat /\ l <= l
    BY <1>0
  <2> HIDE DEF Good
  <2>2. QED
    BY <1>4, <2>1
<1>6. l + 1 - l = 1
  OBVIOUS
<1>7. QED
  BY <1>1, <1>2, <1>5, <1>6 DEF b

\* The first bits of a field are worth the remainder.
LEMMA PrefixValue ==
  ASSUME NEW n \in 0 .. 11, NEW v \in Nat, NEW l \in 0 .. n
  PROVE  ValueOf(SubSeq(Field(v, n), 1, l)) = v % 2 ^ l
<1>1. PICK p : Powers(p)
  BY PowersOfTwo
<1> DEFINE f == Field(v, n)
           Good(k) == ValueOf(SubSeq(f, 1, k)) = v % p[k]
           Bad == {k \in Nat : k <= n /\ ~ Good(k)}
<1>2. f \in Seq(Bit) /\ Len(f) = n
  BY FieldIs
<1>3. ASSUME NEW i \in 1 .. n
      PROVE  f[i] = (v \div p[i - 1]) % 2
  <2>1. i - 1 \in 0 .. 11
    OBVIOUS
  <2>2. 2 ^ (i - 1) = p[i - 1]
    BY <1>1, <2>1 DEF Powers
  <2>3. f[i] = (v \div 2 ^ (i - 1)) % 2
    BY DEF Field
  <2>4. QED
    BY <2>2, <2>3, Zenon
<1> HIDE DEF f
<1>4. Good(0)
  <2>1. SubSeq(f, 1, 0) = <<>>
    BY <1>2
  <2>2. v % 1 = 0
    OBVIOUS
  <2>3. p[0] = 1
    BY <1>1 DEF Powers
  <2>4. QED
    BY <2>1, <2>2, <2>3, ValueOfNothing
<1>5. Bad = {}
  <2> SUFFICES ASSUME Bad # {} PROVE FALSE
    OBVIOUS
  <2>1. PICK k \in Bad : \A j \in Bad : k <= j
    BY LeastNat
  <2>2. k # 0 /\ k \in Nat /\ k <= n /\ ~ Good(k)
    BY <1>4, <2>1
  <2>3. k - 1 \in Nat /\ k - 1 <= n /\ ~ (k <= k - 1) /\ k - 1 \in 0 .. 10
          /\ (k - 1) + 1 = k /\ k \in 1 .. n /\ k \in 1 .. 11 /\ k - 1 \in 0 .. 11
    BY <2>2
  <2>4. Good(k - 1)
    BY <2>1, <2>3
  <2> DEFINE less == SubSeq(f, 1, k - 1)
             more == SubSeq(f, 1, k)
  <2>5. /\ DOMAIN less = 1 .. k - 1 /\ DOMAIN more = 1 .. k
        /\ \A i \in 1 .. k - 1 : more[i] = less[i] /\ less[i] \in Bit
        /\ more[k] = f[k] /\ f[k] \in Bit
    <3>1. \A i \in 1 .. n : f[i] \in Bit
      BY <1>2
    <3>2. \A m \in {k - 1, k} : /\ DOMAIN SubSeq(f, 1, m) = 1 .. m
                               /\ \A i \in 1 .. m : SubSeq(f, 1, m)[i] = f[i]
      BY <1>2, <2>3
    <3>3. QED
      BY <2>3, <3>1, <3>2
  <2> HIDE DEF less, more
  <2>6. ValueOf(more) = ValueOf(less) + p[k - 1] * more[k]
    <3>1. Longer(less, more, k - 1)
      BY <2>3, <2>5 DEF Longer
    <3>2. QED
      BY <1>1, <2>3, <3>1, ValueGrows
  <2>7. p[k] = 2 * p[k - 1] /\ p[k - 1] \in Nat \ {0}
    BY <1>1, <2>3 DEF Powers
  <2>8. v % (2 * p[k - 1]) = (v % p[k - 1]) + p[k - 1] * ((v \div p[k - 1]) % 2)
    BY <2>7, Halving
  <2>9. ValueOf(more) = v % p[k]
    BY <1>3, <2>3, <2>4, <2>5, <2>6, <2>7, <2>8, Zenon DEF less
  <2>10. QED
    BY <2>2, <2>9 DEF more
<1>6. Good(l)
  <2>1. l \in Nat /\ l <= n
    OBVIOUS
  <2> HIDE DEF Good
  <2>2. QED
    BY <1>5, <2>1
<1>7. 2 ^ l = p[l]
  <2>1. l \in 0 .. 11
    OBVIOUS
  <2>2. QED
    BY <1>1, <2>1 DEF Powers
<1>8. QED
  BY <1>6, <1>7, Zenon DEF f

\* A field that is wide enough for a value holds it.
LEMMA FieldValue ==
  ASSUME NEW n \in 0 .. 11, NEW v \in 0 .. 2 ^ n - 1
  PROVE  v \in Nat /\ ValueOf(Field(v, n)) = v
<1>1. PICK p \in [0 .. 11 -> Nat \ {0}] : \A d \in 0 .. 11 : 2 ^ d = p[d]
  BY PowersOfTwo DEF Powers
<1>2. v \in 0 .. p[n] - 1 /\ p[n] \in Nat
  BY <1>1
<1>3. v \in Nat /\ v % p[n] = v
  BY <1>2
<1>4. SubSeq(Field(v, n), 1, n) = Field(v, n)
  BY <1>3, FieldIs, SubSeqFull
<1>5. ValueOf(SubSeq(Field(v, n), 1, n)) = v % 2 ^ n
  <2>1. n \in 0 .. n /\ v \in Nat
    BY <1>3
  <2>2. QED
    BY <2>1, PrefixValue
<1>6. QED
  BY <1>1, <1>3, <1>4, <1>5

\* A value carried through n steps, each a function of T.
Iterates(g, T, step, start, n) ==
  /\ g \in [0 .. n -> T]
  /\ g[0] = start
  /\ \A i \in 1 .. n : g[i] = step[i][g[i - 1]]

\* Such a function exists, for every number of steps.
LEMMA IterationExists ==
  ASSUME NEW T, NEW n \in Nat, NEW step \in [1 .. n -> [T -> T]],
          NEW start \in T
  PROVE  \E g : Iterates(g, T, step, start, n)
<1> DEFINE Has(k) == \E g : Iterates(g, T, step, start, k)
           Lacks == {k \in 0 .. n : ~ Has(k)}
<1>1. SUFFICES ASSUME ~ Has(n) PROVE FALSE
  OBVIOUS
<1>2. n \in Lacks /\ Lacks \in SUBSET Nat
  BY <1>1
<1>3. PICK m \in Lacks : \A k \in Lacks : m <= k
  BY <1>2, LeastNat
<1>4. m \in 0 .. n /\ ~ Has(m) /\ m \in Nat
  BY <1>3
<1>5. m # 0
  <2>1. Iterates([i \in 0 .. 0 |-> start], T, step, start, 0)
    BY DEF Iterates
  <2>2. Has(0)
    BY <2>1
  <2>3. QED
    BY <1>4, <2>2
<1>6. m - 1 \in 0 .. n /\ ~ (m <= m - 1)
  BY <1>4, <1>5
<1>7. Has(m - 1)
  BY <1>3, <1>6
<1>8. PICK g : Iterates(g, T, step, start, m - 1)
  BY <1>7
<1> DEFINE h == [i \in 0 .. m |-> IF i = m THEN step[m][g[m - 1]] ELSE g[i]]
<1>9. /\ m \in 1 .. n /\ m - 1 \in 0 .. m - 1
      /\ \A i \in 0 .. m : i # m => i \in 0 .. m - 1
  BY <1>4, <1>5
<1>10. step[m][g[m - 1]] \in T
  BY <1>8, <1>9 DEF Iterates
<1>11. h \in [0 .. m -> T]
  BY <1>8, <1>9, <1>10 DEF Iterates
<1>12. h[0] = start
  BY <1>4, <1>5, <1>8 DEF Iterates
<1>13. \A i \in 1 .. m : h[i] = step[i][h[i - 1]]
  BY <1>4, <1>5, <1>8, <1>9 DEF Iterates
<1>14. Has(m)
  BY <1>11, <1>12, <1>13 DEF Iterates
<1>15. QED
  BY <1>4, <1>14

-----------------------------------------------------------------------------
(* Joining a sequence of sequences.                                        *)

\* The parts joined so far.
Joins(g, d, S) ==
  /\ g \in [0 .. Len(d) -> Seq(S)]
  /\ g[0] = <<>>
  /\ \A i \in 1 .. Len(d) : g[i] = g[i - 1] \o d[i]

\* Every sequence of sequences can be joined piece by piece.
LEMMA JoinExists ==
  ASSUME NEW S, NEW d \in Seq(Seq(S))
  PROVE  \E g : Joins(g, d, S)
<1> DEFINE n == Len(d)
           step == [i \in 1 .. n |-> [x \in Seq(S) |-> x \o d[i]]]
<1>1. n \in Nat /\ \A i \in 1 .. n : d[i] \in Seq(S)
  BY ElementOfSeq
<1>2. step \in [1 .. n -> [Seq(S) -> Seq(S)]]
  <2>1. \A i \in 1 .. n : \A x \in Seq(S) : x \o d[i] \in Seq(S)
    BY <1>1, ConcatProperties
  <2>2. QED
    BY <2>1
<1>3. <<>> \in Seq(S)
  OBVIOUS
<1>4. \A i \in 1 .. n : \A x \in Seq(S) : step[i][x] = x \o d[i]
  OBVIOUS
<1> HIDE DEF step
<1>5. PICK g : Iterates(g, Seq(S), step, <<>>, n)
  BY <1>1, <1>2, <1>3, IterationExists
<1>6. \A i \in 1 .. n : g[i] = g[i - 1] \o d[i]
  <2>1. \A i \in 1 .. n : i - 1 \in 0 .. n
    BY <1>1
  <2>2. QED
    BY <1>4, <1>5, <2>1 DEF Iterates
<1>7. Joins(g, d, S)
  BY <1>5, <1>6 DEF Iterates, Joins
<1>8. QED
  BY <1>7

\* The first m joins.
JoinsFirst(h, d, m) ==
  h[0] = <<>> /\ \A i \in 1 .. m : h[i] = h[i - 1] \o d[i]

\* and in one way only.
LEMMA JoinUnique ==
  ASSUME NEW S, NEW d, NEW g, Joins(g, d, S), Len(d) \in Nat,
         NEW m \in 0 .. Len(d), NEW h, JoinsFirst(h, d, m)
  PROVE  h[m] = g[m]
<1> USE DEF JoinsFirst
<1> DEFINE Differs == {i \in 0 .. m : h[i] # g[i]}
<1>1. SUFFICES ASSUME Differs # {} PROVE FALSE
  OBVIOUS
<1>2. Differs \in SUBSET Nat
  OBVIOUS
<1>3. PICK k \in Differs : \A l \in Differs : k <= l
  BY <1>1, <1>2, LeastNat
<1>4. k # 0
  BY <1>3 DEF Joins
<1>5. k \in 1 .. m /\ k \in 1 .. Len(d) /\ k - 1 \in 0 .. m /\ ~ (k <= k - 1)
  BY <1>3, <1>4
<1>6. h[k - 1] = g[k - 1]
  BY <1>3, <1>5
<1>7. h[k] = g[k]
  BY <1>5, <1>6 DEF Joins
<1>8. QED
  BY <1>3, <1>7

\* FlattenSeq is what the joining ends with.
LEMMA FlattenJoins ==
  ASSUME NEW S, NEW d \in Seq(Seq(S)), NEW g, Joins(g, d, S)
  PROVE  FlattenSeq(d) = g[Len(d)]
<1> DEFINE n == Len(d)
           Body(f, i) == IF i = 1 THEN d[i] ELSE f[i - 1] \o d[i]
           Unrolls(f) == f = [i \in 1 .. n |-> Body(f, i)]
           flatten == CHOOSE f : Unrolls(f)
           some == [i \in 1 .. n |-> g[i]]
<1>1. n \in Nat /\ \A i \in 1 .. n : d[i] \in Seq(S)
  BY ElementOfSeq
<1>2. CASE n = 0
  <2>1. d = <<>>
    BY <1>2
  <2>2. FlattenSeq(d) = d
    BY <1>2 DEF FlattenSeq
  <2>3. QED
    BY <1>2, <2>1, <2>2 DEF Joins
<1>3. CASE n # 0
  <2>1. FlattenSeq(d) = flatten[n]
    BY <1>3 DEF FlattenSeq
  <2>2. \A i \in 1 .. n : some[i] = Body(some, i)
    <3>1. SUFFICES ASSUME NEW i \in 1 .. n PROVE some[i] = Body(some, i)
      OBVIOUS
    <3>2. some[i] = g[i - 1] \o d[i]
      BY <3>1 DEF Joins
    <3>3. CASE i = 1
      <4>1. g[i - 1] = <<>>
        BY <3>3 DEF Joins
      <4>2. <<>> \o d[i] = d[i]
        BY <1>1, ConcatEmptySeq
      <4>3. QED
        BY <3>2, <3>3, <4>1, <4>2
    <3>4. CASE i # 1
      <4>1. i - 1 \in 1 .. n
        BY <1>1, <3>4
      <4>2. QED
        BY <3>2, <3>4, <4>1
    <3>5. QED
      BY <3>3, <3>4
  <2>3. Unrolls(some)
    BY <2>2
  <2> HIDE DEF some
  <2>4. Unrolls(flatten)
    BY <2>3
  <2> DEFINE h == [i \in 0 .. n |-> IF i = 0 THEN <<>> ELSE flatten[i]]
  <2>5. \A i \in 1 .. n : flatten[i] = Body(flatten, i)
    BY <2>4
  <2> HIDE DEF flatten
  <2>6. h[0] = <<>> /\ h[n] = flatten[n]
    BY <1>1, <1>3
  <2>7. \A i \in 1 .. n : h[i] = h[i - 1] \o d[i]
    <3>1. SUFFICES ASSUME NEW i \in 1 .. n PROVE h[i] = h[i - 1] \o d[i]
      OBVIOUS
    <3>2. i \in 0 .. n /\ i - 1 \in 0 .. n /\ i # 0
      BY <1>1
    <3>3. CASE i = 1
      <4>1. h[i] = d[i] /\ h[i - 1] = <<>>
        BY <2>5, <3>2, <3>3
      <4>2. <<>> \o d[i] = d[i]
        BY <1>1, ConcatEmptySeq
      <4>3. QED
        BY <4>1, <4>2
    <3>4. CASE i # 1
      <4>1. i - 1 # 0
        BY <3>4
      <4>2. QED
        BY <2>5, <3>2, <3>4, <4>1
    <3>5. QED
      BY <3>3, <3>4
  <2>8. n \in 0 .. Len(d)
    BY <1>1
  <2> HIDE DEF h
  <2>9. h[n] = g[n]
    <3>1. JoinsFirst(h, d, n)
      BY <2>6, <2>7 DEF JoinsFirst
    <3>2. QED
      BY <1>1, <2>8, <3>1, JoinUnique
  <2>10. QED
    BY <2>1, <2>6, <2>9
<1>4. QED
  BY <1>2, <1>3

\* FlattenSeq goes on where it was when a piece is appended.
LEMMA FlattenAppend ==
  ASSUME NEW S, NEW d \in Seq(Seq(S)), NEW x \in Seq(S)
  PROVE  /\ FlattenSeq(d) \in Seq(S)
         /\ FlattenSeq(Append(d, x)) = FlattenSeq(d) \o x
<1> DEFINE e == Append(d, x)
           n == Len(d)
<1>1. /\ n \in Nat /\ e \in Seq(Seq(S)) /\ Len(e) = n + 1 /\ e[n + 1] = x
      /\ \A i \in 1 .. n : e[i] = d[i]
  BY AppendProperties
<1>2. PICK g : Joins(g, d, S)
  BY JoinExists
<1> HIDE DEF e
<1>3. PICK h : Joins(h, e, S)
  BY <1>1, JoinExists
<1>4. FlattenSeq(d) = g[n] /\ FlattenSeq(e) = h[n + 1]
  BY <1>1, <1>2, <1>3, FlattenJoins
<1>5. h[n + 1] = h[n] \o x
  <2>1. n + 1 \in 1 .. Len(e) /\ (n + 1) - 1 = n
    BY <1>1
  <2>2. QED
    BY <1>1, <1>3, <2>1 DEF Joins
<1>6. h[n] = g[n]
  <2>1. \A i \in 1 .. n : i \in 1 .. Len(e) /\ e[i] = d[i]
    BY <1>1
  <2>2. \A i \in 1 .. Len(e) : h[i] = h[i - 1] \o e[i]
    BY <1>3 DEF Joins
  <2>3. \A i \in 1 .. n : h[i] = h[i - 1] \o d[i]
    BY <2>1, <2>2
  <2>4. h[0] = <<>> /\ n \in 0 .. Len(d)
    BY <1>1, <1>3 DEF Joins
  <2>5. JoinsFirst(h, d, n)
    BY <2>3, <2>4 DEF JoinsFirst
  <2>6. QED
    BY <1>1, <1>2, <2>4, <2>5, JoinUnique
<1>7. g[n] \in Seq(S)
  <2>1. n \in 0 .. Len(d)
    BY <1>1
  <2>2. QED
    BY <1>2, <2>1 DEF Joins
<1>8. QED
  BY <1>4, <1>5, <1>6, <1>7 DEF e

\* No pieces, no sequence.
LEMMA FlattenNothing == FlattenSeq(<<>>) = <<>>
  BY DEF FlattenSeq

-----------------------------------------------------------------------------
(* Parts of sequences.  SubSeq(s, a + 1, n) is what follows the first a    *)
(* of the first n.                                                         *)

LEMMA PartIs ==
  ASSUME NEW S, NEW s \in Seq(S), NEW a \in 0 .. Len(s), NEW n \in a .. Len(s)
  PROVE  /\ SubSeq(s, a + 1, n) \in Seq(S)
         /\ Len(SubSeq(s, a + 1, n)) = n - a
         /\ \A i \in 1 .. n - a : SubSeq(s, a + 1, n)[i] = s[a + i]
<1>1. a \in Nat /\ n \in Nat /\ a + 1 \in 1 .. Len(s) + 1 /\ n \in (a + 1) - 1 .. Len(s)
  OBVIOUS
<1>2. /\ SubSeq(s, a + 1, n) \in Seq(S)
      /\ Len(SubSeq(s, a + 1, n)) = n - (a + 1) + 1
      /\ \A i \in 1 .. n - (a + 1) + 1 : SubSeq(s, a + 1, n)[i] = s[(a + 1) + i - 1]
  BY <1>1, SubSeqProperties
<1>3. n - (a + 1) + 1 = n - a /\ \A i \in Nat : (a + 1) + i - 1 = a + i
  BY <1>1
<1>4. QED
  BY <1>2, <1>3

LEMMA SameParts ==
  ASSUME NEW S, NEW s \in Seq(S), NEW t \in Seq(S), Len(s) = Len(t),
         \A i \in 1 .. Len(s) : s[i] = t[i]
  PROVE  s = t
BY SeqEqual

LEMMA PartOfPart ==
  ASSUME NEW S, NEW s \in Seq(S), NEW a \in 0 .. Len(s), NEW n \in a .. Len(s),
         NEW c \in 0 .. n - a, NEW d \in c .. n - a
  PROVE  SubSeq(SubSeq(s, a + 1, n), c + 1, d) = SubSeq(s, (a + c) + 1, a + d)
<1> DEFINE u == SubSeq(s, a + 1, n)
           x == SubSeq(u, c + 1, d)
           y == SubSeq(s, (a + c) + 1, a + d)
<1>1. u \in Seq(S) /\ Len(u) = n - a /\ \A i \in 1 .. n - a : u[i] = s[a + i]
  BY PartIs
<1> HIDE DEF u
<1>2. x \in Seq(S) /\ Len(x) = d - c /\ \A i \in 1 .. d - c : x[i] = u[c + i]
  <2>1. c \in 0 .. Len(u) /\ d \in c .. Len(u)
    BY <1>1
  <2>2. QED
    BY <1>1, <2>1, PartIs
<1>3. /\ y \in Seq(S) /\ Len(y) = d - c
      /\ \A i \in 1 .. d - c : y[i] = s[a + (c + i)]
  <2>1. a + c \in 0 .. Len(s) /\ a + d \in a + c .. Len(s)
    OBVIOUS
  <2>2. /\ y \in Seq(S) /\ Len(y) = (a + d) - (a + c)
        /\ \A i \in 1 .. (a + d) - (a + c) : y[i] = s[(a + c) + i]
    BY <2>1, PartIs
  <2>3. (a + d) - (a + c) = d - c
    OBVIOUS
  <2> HIDE DEF y
  <2>4. ASSUME NEW i \in 1 .. d - c
        PROVE  y[i] = s[a + (c + i)]
    <3>1. i \in 1 .. (a + d) - (a + c) /\ (a + c) + i = a + (c + i)
      OBVIOUS
    <3>2. QED
      BY <2>2, <3>1
  <2>5. QED
    BY <2>2, <2>3, <2>4
<1> HIDE DEF x, y
<1>4. \A i \in 1 .. d - c : c + i \in 1 .. n - a
  OBVIOUS
<1>5. \A i \in 1 .. d - c : x[i] = y[i]
  BY <1>1, <1>2, <1>3, <1>4
<1>6. x = y
  BY <1>2, <1>3, <1>5, SameParts
<1>7. QED
  BY <1>6 DEF x, y, u

LEMMA JoinIs ==
  ASSUME NEW S, NEW s \in Seq(S), NEW t \in Seq(S)
  PROVE  /\ s \o t \in Seq(S) /\ Len(s \o t) = Len(s) + Len(t)
         /\ \A i \in 1 .. Len(s) : (s \o t)[i] = s[i]
         /\ \A i \in 1 .. Len(t) : (s \o t)[Len(s) + i] = t[i]
<1>1. /\ s \o t \in Seq(S) /\ Len(s \o t) = Len(s) + Len(t)
      /\ \A i \in 1 .. Len(s) + Len(t) :
           (s \o t)[i] = IF i <= Len(s) THEN s[i] ELSE t[i - Len(s)]
  BY ConcatProperties
<1>2. Len(s) \in Nat /\ Len(t) \in Nat
  OBVIOUS
<1>3. \A i \in 1 .. Len(t) : /\ Len(s) + i \in 1 .. Len(s) + Len(t)
                             /\ ~ (Len(s) + i <= Len(s)) /\ (Len(s) + i) - Len(s) = i
  BY <1>2
<1>4. \A i \in 1 .. Len(s) : i \in 1 .. Len(s) + Len(t) /\ i <= Len(s)
  BY <1>2
<1>5. QED
  BY <1>1, <1>3, <1>4

\* A part of the first of two.
LEMMA PartOfJoin ==
  ASSUME NEW S, NEW s \in Seq(S), NEW t \in Seq(S),
         NEW a \in 0 .. Len(s), NEW n \in a .. Len(s)
  PROVE  SubSeq(s \o t, a + 1, n) = SubSeq(s, a + 1, n)
<1> DEFINE u == s \o t
           x == SubSeq(u, a + 1, n)
           y == SubSeq(s, a + 1, n)
<1>1. u \in Seq(S) /\ Len(u) = Len(s) + Len(t) /\ \A i \in 1 .. Len(s) : u[i] = s[i]
  BY JoinIs
<1> HIDE DEF u
<1>2. Len(s) \in Nat /\ Len(t) \in Nat /\ a \in 0 .. Len(u) /\ n \in a .. Len(u)
  BY <1>1
<1>3. x \in Seq(S) /\ Len(x) = n - a /\ \A i \in 1 .. n - a : x[i] = u[a + i]
  BY <1>1, <1>2, PartIs
<1>4. y \in Seq(S) /\ Len(y) = n - a /\ \A i \in 1 .. n - a : y[i] = s[a + i]
  BY PartIs
<1> HIDE DEF x, y
<1>5. \A i \in 1 .. n - a : a + i \in 1 .. Len(s)
  OBVIOUS
<1>6. \A i \in 1 .. n - a : x[i] = y[i]
  BY <1>1, <1>3, <1>4, <1>5
<1>7. x = y
  BY <1>3, <1>4, <1>6, SameParts
<1>8. QED
  BY <1>7 DEF x, y, u

\* What is left of the first of two, and the second.
LEMMA RestOfJoin ==
  ASSUME NEW S, NEW s \in Seq(S), NEW t \in Seq(S), NEW a \in 0 .. Len(s)
  PROVE  SubSeq(s, a + 1, Len(s)) \o t = SubSeq(s \o t, a + 1, Len(s \o t))
<1> DEFINE u == s \o t
           r == SubSeq(s, a + 1, Len(s))
           x == r \o t
           y == SubSeq(u, a + 1, Len(u))
<1>1. /\ u \in Seq(S) /\ Len(u) = Len(s) + Len(t)
      /\ \A i \in 1 .. Len(s) : u[i] = s[i]
      /\ \A i \in 1 .. Len(t) : u[Len(s) + i] = t[i]
  BY JoinIs
<1>2. /\ r \in Seq(S) /\ Len(r) = Len(s) - a
      /\ \A i \in 1 .. Len(s) - a : r[i] = s[a + i]
  <2>1. Len(s) \in a .. Len(s)
    OBVIOUS
  <2>2. QED
    BY <2>1, PartIs
<1> HIDE DEF u, r
<1>3. /\ x \in Seq(S) /\ Len(x) = Len(r) + Len(t)
      /\ \A i \in 1 .. Len(r) : x[i] = r[i]
      /\ \A i \in 1 .. Len(t) : x[Len(r) + i] = t[i]
  <2>1. r \in Seq(S)
    BY <1>2
  <2>2. QED
    BY <2>1, JoinIs
<1>4. /\ y \in Seq(S) /\ Len(y) = Len(u) - a
      /\ \A i \in 1 .. Len(u) - a : y[i] = u[a + i]
  <2>1. a \in 0 .. Len(u) /\ Len(u) \in a .. Len(u)
    BY <1>1
  <2>2. QED
    BY <1>1, <2>1, PartIs
<1> HIDE DEF x, y
<1>5. Len(s) \in Nat /\ Len(t) \in Nat /\ a \in Nat /\ Len(x) = Len(y)
  BY <1>1, <1>2, <1>3, <1>4
<1>6. ASSUME NEW i \in 1 .. Len(x)
      PROVE  x[i] = y[i]
  <2>1. i \in 1 .. Len(u) - a /\ i \in Nat
    BY <1>4, <1>5
  <2>2. CASE i <= Len(s) - a
    <3>1. i \in 1 .. Len(s) - a /\ a + i \in 1 .. Len(s)
      BY <1>5, <2>1, <2>2
    <3>2. x[i] = s[a + i]
      BY <1>2, <1>3, <3>1
    <3>3. QED
      BY <1>1, <1>4, <2>1, <3>1, <3>2
  <2>3. CASE ~ (i <= Len(s) - a)
    <3> DEFINE j == i - (Len(s) - a)
    <3>1. j \in 1 .. Len(t) /\ i = Len(r) + j /\ a + i = Len(s) + j
      BY <1>1, <1>2, <1>5, <2>1, <2>3
    <3> HIDE DEF j
    <3>2. x[i] = t[j]
      BY <1>3, <3>1
    <3>3. y[i] = t[j]
      BY <1>1, <1>4, <2>1, <3>1
    <3>4. QED
      BY <3>2, <3>3
  <2>4. QED
    BY <2>2, <2>3
<1>7. x = y
  BY <1>3, <1>4, <1>5, <1>6, SameParts
<1>8. QED
  BY <1>7 DEF x, y, u, r

\* Two parts next to each other.
LEMMA PartsJoin ==
  ASSUME NEW S, NEW s \in Seq(S), NEW a \in 0 .. Len(s), NEW m \in a .. Len(s),
         NEW n \in m .. Len(s)
  PROVE  SubSeq(s, a + 1, m) \o SubSeq(s, m + 1, n) = SubSeq(s, a + 1, n)
<1> DEFINE f == SubSeq(s, a + 1, m)
           g == SubSeq(s, m + 1, n)
           x == f \o g
           y == SubSeq(s, a + 1, n)
<1>1. f \in Seq(S) /\ Len(f) = m - a /\ \A i \in 1 .. m - a : f[i] = s[a + i]
  BY PartIs
<1>2. g \in Seq(S) /\ Len(g) = n - m /\ \A i \in 1 .. n - m : g[i] = s[m + i]
  <2>1. m \in 0 .. Len(s)
    OBVIOUS
  <2>2. QED
    BY <2>1, PartIs
<1>3. y \in Seq(S) /\ Len(y) = n - a /\ \A i \in 1 .. n - a : y[i] = s[a + i]
  <2>1. n \in a .. Len(s)
    OBVIOUS
  <2>2. QED
    BY <2>1, PartIs
<1> HIDE DEF f, g
<1>4. /\ x \in Seq(S) /\ Len(x) = Len(f) + Len(g)
      /\ \A i \in 1 .. Len(f) : x[i] = f[i]
      /\ \A i \in 1 .. Len(g) : x[Len(f) + i] = g[i]
  <2>1. f \in Seq(S) /\ g \in Seq(S)
    BY <1>1, <1>2
  <2>2. QED
    BY <2>1, JoinIs
<1> HIDE DEF x, y
<1>5. a \in Nat /\ m \in Nat /\ n \in Nat /\ Len(x) = Len(y) /\ Len(x) = n - a
  BY <1>1, <1>2, <1>3, <1>4
<1>6. ASSUME NEW i \in 1 .. n - a
      PROVE  x[i] = y[i]
  <2>1. CASE i <= m - a
    <3>1. i \in 1 .. m - a
      BY <1>5, <2>1
    <3>2. QED
      BY <1>1, <1>3, <1>4, <3>1
  <2>2. CASE ~ (i <= m - a)
    <3> DEFINE j == i - (m - a)
    <3>1. j \in 1 .. n - m /\ i = Len(f) + j /\ a + i = m + j
      BY <1>1, <1>5, <2>2
    <3> HIDE DEF j
    <3>2. QED
      BY <1>2, <1>3, <1>4, <3>1
  <2>3. QED
    BY <2>1, <2>2
<1>7. x = y
  BY <1>3, <1>4, <1>5, <1>6, SameParts
<1>8. QED
  BY <1>7 DEF x, y, f, g

LEMMA JoinAssociates ==
  ASSUME NEW S, NEW s \in Seq(S), NEW t \in Seq(S), NEW u \in Seq(S)
  PROVE  (s \o t) \o u = s \o (t \o u)
BY ConcatAssociative

LEMMA BitsJoin ==
  ASSUME NEW a \in Seq(Bit), NEW b \in Seq(Bit)
  PROVE  a \o b \in Seq(Bit) /\ Len(a \o b) = Len(a) + Len(b)
         /\ Len(a) \in Nat /\ Len(b) \in Nat
BY JoinIs

LEMMA BitsAssociate ==
  ASSUME NEW a \in Seq(Bit), NEW b \in Seq(Bit), NEW c \in Seq(Bit)
  PROVE  (a \o b) \o c = a \o (b \o c)
BY JoinAssociates

-----------------------------------------------------------------------------
(* Motion vectors and their numbers.                                       *)

LEMMA RadiusIs ==
  ASSUME NEW dx \in Int, NEW dy \in Int
  PROVE  /\ Radius(Vector(dx, dy)) \in Nat
         /\ dx <= Radius(Vector(dx, dy)) /\ -dx <= Radius(Vector(dx, dy))
         /\ dy <= Radius(Vector(dx, dy)) /\ -dy <= Radius(Vector(dx, dy))
         /\ \/ Radius(Vector(dx, dy)) = dx \/ Radius(Vector(dx, dy)) = -dx
            \/ Radius(Vector(dx, dy)) = dy \/ Radius(Vector(dx, dy)) = -dy
BY DEF Radius, Vector, Magnitude

LEMMA VectorIs ==
  \A dx, dy : /\ Vector(dx, dy).dx = dx /\ Vector(dx, dy).dy = dy
              /\ Vector(dx, dy).spatial = FALSE
BY DEF Vector

\* The rings of type 7.
Rings == 1 .. 4

\* The places of a ring are vectors of its radius, each at its own place.
LEMMA RingVectorIs ==
  ASSUME NEW r \in Rings, NEW i \in 0 .. 8 * r - 1
  PROVE  \E dx \in -r .. r, dy \in -r .. r :
           /\ RingVector(r, i) = Vector(dx, dy)
           /\ \/ dy = -r /\ i = dx + r
              \/ dy = r /\ i = 6 * r - 1 + dx + r
              \/ dy # -r /\ dy # r /\ dx = -r /\ i = 2 * r + 1 + 2 * (dy + r - 1)
              \/ dy # -r /\ dy # r /\ dx = r /\ i = 2 * r + 1 + 2 * (dy + r - 1) + 1
<1> DEFINE e == i - (2 * r + 1)
           b == e - 2 * (2 * r - 1)
           h == e \div 2
<1>1. r \in Nat /\ 1 <= r /\ r <= 4 /\ i \in Nat /\ i <= 8 * r - 1
  BY DEF Rings
<1>2. e \in Int /\ b \in Int /\ e = i - (2 * r + 1) /\ b = i - (2 * r + 1) - 2 * (2 * r - 1)
  BY <1>1
<1>3. RingVector(r, i) = CASE e < 0 -> Vector(i - r, -r)
                           [] e >= 0 /\ b < 0 -> Vector(IF e % 2 = 0 THEN -r ELSE r, h - r + 1)
                           [] b >= 0 -> Vector(b - r, r)
  BY DEF RingVector, Side
<1>4. h \in Int /\ e = 2 * h + (e % 2) /\ e % 2 \in 0 .. 1
  BY <1>2
<1> HIDE DEF e, b, h
<1>5. CASE e < 0
  <2>1. RingVector(r, i) = Vector(i - r, -r)
    BY <1>1, <1>2, <1>3, <1>5
  <2>2. i - r \in -r .. r /\ -r \in -r .. r /\ i = (i - r) + r
    BY <1>1, <1>2, <1>5
  <2>3. QED
    BY <2>1, <2>2
<1>6. CASE e >= 0 /\ b < 0
  <2> DEFINE dx == IF e % 2 = 0 THEN -r ELSE r
             dy == h - r + 1
  <2>1. RingVector(r, i) = Vector(dx, dy)
    BY <1>1, <1>2, <1>3, <1>6
  <2>2. dx \in -r .. r /\ dy \in -r .. r /\ dy # -r /\ dy # r
    BY <1>1, <1>2, <1>4, <1>6
  <2>3. \/ dx = -r /\ i = 2 * r + 1 + 2 * (dy + r - 1)
        \/ dx = r /\ i = 2 * r + 1 + 2 * (dy + r - 1) + 1
    BY <1>1, <1>2, <1>4, <1>6
  <2> HIDE DEF dx, dy
  <2>4. QED
    BY <2>1, <2>2, <2>3
<1>7. CASE b >= 0
  <2>1. RingVector(r, i) = Vector(b - r, r)
    BY <1>1, <1>2, <1>3, <1>7
  <2>2. b - r \in -r .. r /\ r \in -r .. r /\ i = 6 * r - 1 + (b - r) + r
    BY <1>1, <1>2, <1>7
  <2>3. QED
    BY <2>1, <2>2
<1>8. QED
  BY <1>2, <1>5, <1>6, <1>7

LEMMA RingRadius ==
  ASSUME NEW r \in Rings, NEW i \in 0 .. 8 * r - 1
  PROVE  Radius(RingVector(r, i)) = r /\ ~ RingVector(r, i).spatial
<1>1. PICK dx \in -r .. r, dy \in -r .. r :
        /\ RingVector(r, i) = Vector(dx, dy)
        /\ dy = -r \/ dy = r \/ dx = -r \/ dx = r
  BY RingVectorIs
<1>2. r \in Nat
  BY DEF Rings
<1>3. Radius(Vector(dx, dy)) = r
  <2> DEFINE m == Radius(Vector(dx, dy))
  <2>1. dx \in Int /\ dy \in Int
    BY <1>2
  <2>2. /\ m \in Nat /\ dx <= m /\ -dx <= m /\ dy <= m /\ -dy <= m
        /\ m = dx \/ m = -dx \/ m = dy \/ m = -dy
    BY <2>1, RadiusIs
  <2> HIDE DEF m
  <2>3. m = r
    BY <1>1, <1>2, <2>1, <2>2
  <2>4. QED
    BY <2>3 DEF m
<1>4. QED
  BY <1>1, <1>3, VectorIs

\* The writer's arithmetic finds the place of every vector of the ring.
LEMMA RingIndexIs ==
  ASSUME NEW dx \in Int, NEW dy \in Int, NEW r \in Rings, Radius(Vector(dx, dy)) = r
  PROVE  /\ RingIndex(r, Vector(dx, dy)) \in 0 .. 8 * r - 1
         /\ RingVector(r, RingIndex(r, Vector(dx, dy))) = Vector(dx, dy)
<1> DEFINE i == RingIndex(r, Vector(dx, dy))
<1>1. r \in Nat /\ 1 <= r /\ r <= 4
  BY DEF Rings
<1>2. /\ -r <= dx /\ dx <= r /\ -r <= dy /\ dy <= r
      /\ dx = r \/ dx = -r \/ dy = r \/ dy = -r
  <2> DEFINE m == Radius(Vector(dx, dy))
  <2>1. /\ m \in Nat /\ dx <= m /\ -dx <= m /\ dy <= m /\ -dy <= m
        /\ m = dx \/ m = -dx \/ m = dy \/ m = -dy
    BY RadiusIs
  <2>2. m = r
    OBVIOUS
  <2> HIDE DEF m
  <2>3. QED
    BY <1>1, <2>1, <2>2
<1>3. i = CASE dy = -r -> dx + r
            [] dy = r  -> 2 * r + 1 + 2 * (2 * r - 1) + dx + r
            [] OTHER   -> 2 * r + 1 + 2 * (dy + r - 1) + (IF dx = r THEN 1 ELSE 0)
  BY VectorIs DEF RingIndex, Side
<1> HIDE DEF i
<1>4. /\ dy = -r => i = dx + r
      /\ dy = r => i = 6 * r - 1 + dx + r
      /\ dy # -r /\ dy # r /\ dx = r => i = 2 * r + 1 + 2 * (dy + r - 1) + 1
      /\ dy # -r /\ dy # r /\ dx = -r => i = 2 * r + 1 + 2 * (dy + r - 1)
  BY <1>1, <1>3
<1>5. i \in 0 .. 8 * r - 1
  BY <1>1, <1>2, <1>4
<1>6. PICK x \in -r .. r, y \in -r .. r :
        /\ RingVector(r, i) = Vector(x, y)
        /\ \/ y = -r /\ i = x + r
           \/ y = r /\ i = 6 * r - 1 + x + r
           \/ y # -r /\ y # r /\ x = -r /\ i = 2 * r + 1 + 2 * (y + r - 1)
           \/ y # -r /\ y # r /\ x = r /\ i = 2 * r + 1 + 2 * (y + r - 1) + 1
  BY <1>5, RingVectorIs
<1>7. x \in Int /\ y \in Int /\ -r <= x /\ x <= r /\ -r <= y /\ y <= r
  BY <1>1, <1>6
<1>8. x = dx /\ y = dy
  BY <1>1, <1>2, <1>4, <1>6, <1>7
<1>9. QED
  BY <1>5, <1>6, <1>8 DEF i

-----------------------------------------------------------------------------
(* The far family.                                                         *)

IsFar(n) == Radius(SquareCell(n)) > 3

\* The inner cells before a cell of the square, by arithmetic.
InnerBefore(dx, dy) ==
  (IF dy < -3 THEN 0 ELSE IF dy > 3 THEN 49 ELSE 7 * (dy + 3))
  + (IF dy \in -3 .. 3 THEN IF dx < -3 THEN 0 ELSE IF dx > 3 THEN 7 ELSE dx + 3 ELSE 0)

LEMMA CellIs ==
  ASSUME NEW n \in 0 .. 288
  PROVE  \E dx \in -8 .. 8, dy \in -8 .. 8 :
           /\ SquareCell(n) = Vector(dx, dy) /\ n = 17 * (dy + 8) + (dx + 8)
           /\ IsFar(n) <=> ~ (dx \in -3 .. 3 /\ dy \in -3 .. 3)
<1> DEFINE x == n % 17
           y == n \div 17
<1>1. n = 17 * y + x /\ x \in 0 .. 16 /\ y \in Int
  OBVIOUS
<1>2. SquareCell(n) = Vector(x - 8, y - 8)
  BY DEF SquareCell
<1> HIDE DEF x, y
<1>3. x \in 0 .. 16 /\ y \in 0 .. 16
  BY <1>1
<1> DEFINE dx == x - 8
           dy == y - 8
           m == Radius(Vector(dx, dy))
<1>4. dx \in -8 .. 8 /\ dy \in -8 .. 8 /\ n = 17 * (dy + 8) + (dx + 8)
  BY <1>1, <1>3
<1>5. SquareCell(n) = Vector(dx, dy)
  BY <1>2
<1> HIDE DEF dx, dy
<1>6. /\ m \in Nat /\ dx <= m /\ -dx <= m /\ dy <= m /\ -dy <= m
      /\ m = dx \/ m = -dx \/ m = dy \/ m = -dy
  <2>1. dx \in Int /\ dy \in Int
    BY <1>4
  <2>2. QED
    BY <2>1, RadiusIs
<1>7. IsFar(n) <=> m > 3
  BY <1>5 DEF IsFar
<1> HIDE DEF m
<1>8. m > 3 <=> ~ (dx \in -3 .. 3 /\ dy \in -3 .. 3)
  BY <1>4, <1>6
<1>9. QED
  BY <1>4, <1>5, <1>7, <1>8

\* The counting has a result.
LEMMA FarBeforeIs ==
  /\ FarBefore[0] = 0
  /\ \A n \in 1 .. 289 : FarBefore[n] = FarBefore[n - 1] + (IF IsFar(n - 1) THEN 1 ELSE 0)
<1> DEFINE m == 289
           step == [i \in 1 .. m |-> [x \in Nat |-> x + (IF IsFar(i - 1) THEN 1 ELSE 0)]]
           Body(f, n) == IF n = 0 THEN 0
                         ELSE f[n - 1] + (IF IsFar(n - 1) THEN 1 ELSE 0)
           Counts(f) == f = [n \in 0 .. m |-> Body(f, n)]
<1>1. m \in Nat
  OBVIOUS
<1>0. FarBefore = CHOOSE f : Counts(f)
  BY DEF FarBefore, IsFar
<1> HIDE DEF m
<1>2. PICK g : Iterates(g, Nat, step, 0, m)
  <2>1. step \in [1 .. m -> [Nat -> Nat]]
    OBVIOUS
  <2> HIDE DEF step
  <2>2. QED
    BY <1>1, <2>1, IterationExists
<1>3. g \in [0 .. m -> Nat] /\ g[0] = 0
      /\ \A i \in 1 .. m : g[i] = g[i - 1] + (IF IsFar(i - 1) THEN 1 ELSE 0)
  <2>1. g \in [0 .. m -> Nat] /\ g[0] = 0 /\ \A i \in 1 .. m : g[i] = step[i][g[i - 1]]
    BY <1>2 DEF Iterates
  <2>2. ASSUME NEW i \in 1 .. m
        PROVE  g[i] = g[i - 1] + (IF IsFar(i - 1) THEN 1 ELSE 0)
    <3>1. i - 1 \in 0 .. m
      BY <1>1
    <3>2. g[i - 1] \in Nat
      BY <2>1, <3>1
    <3>3. QED
      BY <2>1, <3>2
  <2>3. QED
    BY <2>1, <2>2
<1>4. Counts(g)
  <2>1. ASSUME NEW n \in 0 .. m
        PROVE  g[n] = Body(g, n)
    BY <1>1, <1>3
  <2>2. QED
    BY <1>3, <2>1
<1>5. Counts(FarBefore)
  <2> HIDE DEF Counts
  <2>1. QED
    BY <1>0, <1>4
<1>6. \A n \in 0 .. m : FarBefore[n] = Body(FarBefore, n)
  <2> DEFINE F == FarBefore
  <2>1. F = [n \in 0 .. m |-> Body(F, n)]
    BY <1>5
  <2> HIDE DEF F
  <2>2. \A n \in 0 .. m : F[n] = Body(F, n)
    BY <2>1, Zenon
  <2>3. QED
    BY <2>2 DEF F
<1>7. 0 \in 0 .. m /\ \A n \in 1 .. m : n \in 0 .. m /\ n # 0
  BY <1>1
<1>8. QED
  BY <1>6, <1>7 DEF m

\* What it comes to.
LEMMA FarCount ==
  ASSUME NEW dx \in -8 .. 8, NEW dy \in -8 .. 8
  PROVE  LET n == 17 * (dy + 8) + (dx + 8)
         IN  n \in 0 .. 288 /\ FarBefore[n] = n - InnerBefore(dx, dy)
<1> DEFINE Good(k) == \A x \in -8 .. 8, y \in -8 .. 8 :
                        k = 17 * (y + 8) + (x + 8) => FarBefore[k] = k - InnerBefore(x, y)
           Bad == {k \in 0 .. 288 : ~ Good(k)}
<1>1. ASSUME Bad # {} PROVE FALSE
  <2>1. Bad \in SUBSET Nat
    OBVIOUS
  <2> HIDE DEF Bad
  <2>2. PICK k \in Bad : \A j \in Bad : k <= j
    BY <1>1, <2>1, LeastNat
  <2>3. k \in 0 .. 288 /\ ~ Good(k)
    BY <2>2 DEF Bad
  <2>4. PICK x \in -8 .. 8, y \in -8 .. 8 :
          k = 17 * (y + 8) + (x + 8) /\ FarBefore[k] # k - InnerBefore(x, y)
    BY <2>3
  <2>5. k # 0
    <3>1. k = 0 => x = -8 /\ y = -8
      BY <2>4
    <3>2. InnerBefore(-8, -8) = 0
      BY DEF InnerBefore
    <3>3. QED
      BY <2>4, <3>1, <3>2, FarBeforeIs
  <2> DEFINE j == k - 1
  <2>6. j \in 0 .. 288 /\ j \in Nat /\ ~ (k <= j)
    BY <2>3, <2>5
  <2>7. Good(j)
    <3>1. j \notin Bad
      BY <2>2, <2>6
    <3> HIDE DEF Good
    <3>2. QED
      BY <2>6, <3>1 DEF Bad
  <2> DEFINE a == IF x = -8 THEN 8 ELSE x - 1
             b == IF x = -8 THEN y - 1 ELSE y
  <2>8. a \in -8 .. 8 /\ b \in -8 .. 8 /\ j = 17 * (b + 8) + (a + 8)
    BY <2>3, <2>4, <2>5
  <2>9. FarBefore[j] = j - InnerBefore(a, b)
    BY <2>7, <2>8
  <2>10. IsFar(j) <=> ~ (a \in -3 .. 3 /\ b \in -3 .. 3)
    <3>1. PICK c \in -8 .. 8, d \in -8 .. 8 :
            j = 17 * (d + 8) + (c + 8) /\ (IsFar(j) <=> ~ (c \in -3 .. 3 /\ d \in -3 .. 3))
      BY <2>6, CellIs
    <3> HIDE DEF a, b, j
    <3>2. c = a /\ d = b
      BY <2>8, <3>1
    <3>3. QED
      BY <3>1, <3>2
  <2>11. FarBefore[k] = FarBefore[j] + (IF IsFar(j) THEN 1 ELSE 0)
    BY <2>3, <2>5, FarBeforeIs
  <2>12. InnerBefore(x, y) = InnerBefore(a, b) + (IF a \in -3 .. 3 /\ b \in -3 .. 3 THEN 1 ELSE 0)
    BY DEF InnerBefore
  <2>13. InnerBefore(a, b) \in Int /\ j = k - 1
    BY DEF InnerBefore
  <2> HIDE DEF a, b, j, Good
  <2>14. FarBefore[k] = k - InnerBefore(x, y)
    <3>1. CASE IsFar(j)
      BY <2>3, <2>9, <2>10, <2>11, <2>12, <2>13, <3>1
    <3>2. CASE ~ IsFar(j)
      BY <2>3, <2>9, <2>10, <2>11, <2>12, <2>13, <3>2
    <3>3. QED
      BY <3>1, <3>2
  <2>15. QED
    BY <2>4, <2>14
<1> DEFINE n == 17 * (dy + 8) + (dx + 8)
<1>2. n \in 0 .. 288
  OBVIOUS
<1>3. Good(n)
  <2> HIDE DEF n, Good
  <2>1. QED
    BY <1>1, <1>2
<1>4. QED
  BY <1>2, <1>3

\* Every number of the family is that of a cell.
LEMMA FarHas ==
  ASSUME NEW i \in 0 .. 239
  PROVE  \E n \in 0 .. 288 : IsFar(n) /\ FarBefore[n] = i
<1> DEFINE T == {n \in 1 .. 289 : FarBefore[n] > i}
<1>1. \A n \in 0 .. 288 : FarBefore[n] \in Int
  <2>1. TAKE n \in 0 .. 288
  <2>2. PICK dx \in -8 .. 8, dy \in -8 .. 8 : n = 17 * (dy + 8) + (dx + 8)
    BY CellIs
  <2>3. FarBefore[n] = n - InnerBefore(dx, dy) /\ InnerBefore(dx, dy) \in Int
    BY <2>2, FarCount DEF InnerBefore
  <2>4. QED
    BY <2>3
<1>2. FarBefore[289] = 240
  <2>1. FarBefore[288] = 288 - InnerBefore(8, 8)
    <3>1. 17 * (8 + 8) + (8 + 8) = 288 /\ 8 \in -8 .. 8
      OBVIOUS
    <3>2. QED
      BY <3>1, FarCount
  <2>2. InnerBefore(8, 8) = 49
    BY DEF InnerBefore
  <2>3. IsFar(288)
    <3>1. PICK dx \in -8 .. 8, dy \in -8 .. 8 :
            288 = 17 * (dy + 8) + (dx + 8) /\
              (IsFar(288) <=> ~ (dx \in -3 .. 3 /\ dy \in -3 .. 3))
      BY CellIs
    <3>2. dx = 8
      BY <3>1
    <3>3. QED
      BY <3>1, <3>2
  <2>4. 289 \in 1 .. 289 /\ 289 - 1 = 288
    OBVIOUS
  <2>5. FarBefore[289] = FarBefore[288] + 1
    BY <2>3, <2>4, FarBeforeIs
  <2>6. QED
    BY <2>1, <2>2, <2>5
<1>3. T \in SUBSET Nat /\ T # {}
  <2>1. 289 \in T
    BY <1>2
  <2>2. QED
    BY <2>1
<1> HIDE DEF T
<1>4. PICK m \in T : \A k \in T : m <= k
  BY <1>3, LeastNat
<1>5. m \in 1 .. 289 /\ FarBefore[m] > i
  BY <1>4 DEF T
<1> DEFINE n == m - 1
<1>6. n \in 0 .. 288 /\ m = n + 1 /\ ~ (m <= n)
  BY <1>5
<1>7. FarBefore[m] = FarBefore[n] + (IF IsFar(n) THEN 1 ELSE 0)
  BY <1>5, FarBeforeIs
<1>8. ~ (FarBefore[n] > i)
  <2>1. CASE n = 0
    BY <2>1, FarBeforeIs
  <2>2. CASE n # 0
    BY <1>4, <1>6, <2>2 DEF T
  <2>3. QED
    BY <2>1, <2>2
<1>9. FarBefore[n] \in Int
  BY <1>1, <1>6
<1> HIDE DEF n
<1>10. IsFar(n) /\ FarBefore[n] = i
  BY <1>5, <1>7, <1>8, <1>9
<1>11. QED
  BY <1>6, <1>10

LEMMA FarVectorIs ==
  ASSUME NEW i \in 0 .. 239
  PROVE  \E n \in 0 .. 288 : FarVector(i) = SquareCell(n) /\ IsFar(n) /\ FarBefore[n] = i
<1> DEFINE Has(n) == IsFar(n) /\ FarBefore[n] = i
           n == CHOOSE k \in 0 .. 288 : Has(k)
<1>1. FarVector(i) = SquareCell(n)
  <2>1. i \in 0 .. FarSize - 1
    BY DEF FarSize
  <2>2. QED
    BY <2>1 DEF FarVector, FarCells, IsFar
<1>2. \E k \in 0 .. 288 : Has(k)
  BY FarHas
<1> HIDE DEF Has
<1>3. n \in 0 .. 288 /\ Has(n)
  BY <1>2
<1>4. QED
  BY <1>1, <1>3 DEF Has

\* The writer's arithmetic finds the number of every vector of the family.
LEMMA FarIndexIs ==
  ASSUME NEW dx \in -8 .. 8, NEW dy \in -8 .. 8, Radius(Vector(dx, dy)) > 3
  PROVE  /\ FarIndex(Vector(dx, dy)) \in 0 .. 239
         /\ FarVector(FarIndex(Vector(dx, dy))) = Vector(dx, dy)
<1> DEFINE i == FarIndex(Vector(dx, dy))
           n == 17 * (dy + 8) + (dx + 8)
           m == Radius(Vector(dx, dy))
<1>1. n \in 0 .. 288 /\ FarBefore[n] = n - InnerBefore(dx, dy)
  BY FarCount
<1>2. ~ (dx \in -3 .. 3 /\ dy \in -3 .. 3)
  <2>1. /\ m \in Nat /\ m > 3
        /\ m = dx \/ m = -dx \/ m = dy \/ m = -dy
    <3>1. dx \in Int /\ dy \in Int
      OBVIOUS
    <3>2. QED
      BY <3>1, RadiusIs
  <2> HIDE DEF m
  <2>2. QED
    BY <2>1
<1>3. i = n - InnerBefore(dx, dy)
  <2>1. i = 17 * (dy + 8) + dx + 8
              - (7 * (IF dy + 3 < 0 THEN 0 ELSE IF dy + 3 > 7 THEN 7 ELSE dy + 3)
                 + (IF dy \in -3 .. 3 /\ dx >= 4 THEN 7 ELSE 0))
    BY VectorIs DEF FarIndex
  <2> HIDE DEF i
  <2>2. QED
    BY <1>2, <2>1 DEF InnerBefore
<1> HIDE DEF i
<1>4. i \in 0 .. 239
  BY <1>2, <1>3 DEF InnerBefore
<1>5. PICK k \in 0 .. 288 : FarVector(i) = SquareCell(k) /\ IsFar(k) /\ FarBefore[k] = i
  BY <1>4, FarVectorIs
<1>6. PICK x \in -8 .. 8, y \in -8 .. 8 :
        /\ SquareCell(k) = Vector(x, y) /\ k = 17 * (y + 8) + (x + 8)
        /\ IsFar(k) <=> ~ (x \in -3 .. 3 /\ y \in -3 .. 3)
  BY CellIs
<1>7. FarBefore[k] = k - InnerBefore(x, y)
  BY <1>6, FarCount
<1>8. n - InnerBefore(dx, dy) = k - InnerBefore(x, y)
  BY <1>3, <1>5, <1>7
<1>9. ~ (x \in -3 .. 3 /\ y \in -3 .. 3)
  BY <1>5, <1>6
<1>10. x = dx /\ y = dy
  <2>1. k = 17 * (y + 8) + (x + 8) /\ n = 17 * (dy + 8) + (dx + 8)
    BY <1>6
  <2> HIDE DEF n
  <2>2. QED
    BY <1>2, <1>8, <1>9, <2>1 DEF InnerBefore
<1>11. QED
  BY <1>4, <1>5, <1>6, <1>10 DEF i

-----------------------------------------------------------------------------
(* The codes of the vectors.                                               *)

LEMMA SpatialIs ==
  ASSUME NEW size, NEW i \in 0 .. 7
  PROVE  /\ SpatialAt(size, i).spatial = TRUE
         /\ SpatialIndex(size, SpatialAt(size, i)) \in 0 .. 7
         /\ SpatialAt(size, SpatialIndex(size, SpatialAt(size, i))) = SpatialAt(size, i)
<1>1. SpatialAt(size, i).spatial = TRUE
  BY DEF SpatialAt
<1> DEFINE v == SpatialAt(size, i)
           Has(j) == SpatialAt(size, j) = v
<1>2. SpatialIndex(size, v) = CHOOSE j \in 0 .. 7 : Has(j)
  BY DEF SpatialIndex
<1>3. Has(i)
  OBVIOUS
<1> HIDE DEF Has
<1>4. SpatialIndex(size, v) \in 0 .. 7 /\ Has(SpatialIndex(size, v))
  BY <1>2, <1>3
<1>5. QED
  BY <1>1, <1>4 DEF Has

VectorOf(t, size, family, index) ==
  IF t = 7 THEN VectorOf7(size, family, index) ELSE VectorOf19(size, family, index)

\* How many indices a family has.
Indices(t, family) == 0 .. 2 ^ IndexBits(t, family) - 1

\* A vector's code: the writer finds a family and an index of as many bits as
\* the reader takes, which mean the vector to the reader.
Coded(t, size, v, family, index) ==
  /\ family \in 0 .. 3 /\ index \in Indices(t, family)
  /\ WriteMotion(t, size, v) = Code(family, index, IndexBits(t, family))
  /\ t # 7 /\ family = 3 => index < FarSize
  /\ t = 7 => family # 0
  /\ VectorOf(t, size, family, index) = v
  /\ BodyBits(t, v) = 2 + IndexBits(t, family)

LEMMA IndexBitsAre ==
  /\ IndexBits(7, 0) = 0 /\ IndexBits(7, 1) = 4 /\ IndexBits(7, 2) = 3 /\ IndexBits(7, 3) = 6
  /\ \A t : t # 7 => /\ IndexBits(t, 0) = 3 /\ IndexBits(t, 1) = 5
                     /\ IndexBits(t, 2) = 4 /\ IndexBits(t, 3) = 8
BY DEF IndexBits

LEMMA IndicesAre ==
  /\ Indices(7, 1) = 0 .. 15 /\ Indices(7, 2) = 0 .. 7 /\ Indices(7, 3) = 0 .. 63
  /\ \A t : t # 7 => /\ Indices(t, 0) = 0 .. 7 /\ Indices(t, 1) = 0 .. 31
                     /\ Indices(t, 2) = 0 .. 15 /\ Indices(t, 3) = 0 .. 255
<1>1. 2 ^ 3 = 8 /\ 2 ^ 4 = 16 /\ 2 ^ 5 = 32 /\ 2 ^ 6 = 64 /\ 2 ^ 8 = 256
  OBVIOUS
<1> DEFINE p(n) == 2 ^ n
<1>2. p(3) - 1 = 7 /\ p(4) - 1 = 15 /\ p(5) - 1 = 31 /\ p(6) - 1 = 63 /\ p(8) - 1 = 255
  BY <1>1
<1>3. \A t, family : Indices(t, family) = 0 .. p(IndexBits(t, family)) - 1
  BY DEF Indices
<1> HIDE DEF p
<1>4. 0 .. p(3) - 1 = 0 .. 7 /\ 0 .. p(4) - 1 = 0 .. 15 /\ 0 .. p(5) - 1 = 0 .. 31
      /\ 0 .. p(6) - 1 = 0 .. 63 /\ 0 .. p(8) - 1 = 0 .. 255
  BY <1>2, Zenon
<1>5. Indices(7, 1) = 0 .. 15 /\ Indices(7, 2) = 0 .. 7 /\ Indices(7, 3) = 0 .. 63
  BY <1>3, <1>4, IndexBitsAre, Zenon
<1>6. ASSUME NEW t, t # 7
      PROVE  /\ Indices(t, 0) = 0 .. 7 /\ Indices(t, 1) = 0 .. 31
             /\ Indices(t, 2) = 0 .. 15 /\ Indices(t, 3) = 0 .. 255
  <2>1. /\ IndexBits(t, 0) = 3 /\ IndexBits(t, 1) = 5
        /\ IndexBits(t, 2) = 4 /\ IndexBits(t, 3) = 8
    BY <1>6, IndexBitsAre
  <2>2. Indices(t, 0) = 0 .. 7
    BY <1>3, <1>4, <2>1, Zenon
  <2>3. Indices(t, 1) = 0 .. 31
    BY <1>3, <1>4, <2>1, Zenon
  <2>4. Indices(t, 2) = 0 .. 15
    BY <1>3, <1>4, <2>1, Zenon
  <2>5. Indices(t, 3) = 0 .. 255
    <3>1. Indices(t, 3) = 0 .. p(IndexBits(t, 3)) - 1
      BY <1>3, Zenon
    <3>2. 0 .. p(IndexBits(t, 3)) - 1 = 0 .. p(8) - 1
      BY <2>1, Zenon
    <3>3. QED
      BY <1>4, <3>1, <3>2, Zenon
  <2>6. QED
    BY <2>2, <2>3, <2>4, <2>5
<1>7. QED
  BY <1>5, <1>6

LEMMA SpatialCoded ==
  ASSUME NEW t, NEW size, NEW i \in 0 .. 7
  PROVE  \E family, index : Coded(t, size, SpatialAt(size, i), family, index)
<1> DEFINE v == SpatialAt(size, i)
           j == SpatialIndex(size, v)
<1>1. v.spatial = TRUE /\ j \in 0 .. 7 /\ SpatialAt(size, j) = v
  BY SpatialIs
<1> HIDE DEF v, j
<1>2. CASE t = 7
  <2>1. WriteMotion(t, size, v) = Code(3, 56 + SpatialIndex(size, v), 6)
    BY <1>1, <1>2 DEF WriteMotion, WriteFormat7
  <2>2. BodyBits(t, v) = 8
    BY <1>1, <1>2 DEF BodyBits
  <2>3. VectorOf(t, size, 3, 56 + j) = SpatialAt(size, j)
    <3>1. 56 + j >= 56 /\ ~ (56 + j < 32) /\ 56 + j \notin 32 .. 55 /\ (56 + j) - 56 = j
      BY <1>1
    <3>2. QED
      BY <1>2, <3>1 DEF VectorOf, VectorOf7
  <2>4. 56 + j \in 0 .. 63 /\ IndexBits(t, 3) = 6
    BY <1>1, <1>2, IndexBitsAre
  <2>5. 56 + j \in Indices(t, 3)
    BY <1>2, <2>4, IndicesAre
  <2>6. Coded(t, size, v, 3, 56 + j)
    BY <1>1, <1>2, <2>1, <2>2, <2>3, <2>4, <2>5 DEF Coded, j
  <2>7. QED
    BY <2>6 DEF v
<1>3. CASE t # 7
  <2>1. WriteMotion(t, size, v) = Code(1, SpatialIndex(size, v), 5)
    BY <1>1, <1>3 DEF WriteMotion, WriteFormat19
  <2>2. BodyBits(t, v) = 7
    BY <1>1, <1>3 DEF BodyBits
  <2>3. VectorOf(t, size, 1, j) = SpatialAt(size, j)
    <3>1. j < 8 /\ ~ (j >= 8)
      BY <1>1
    <3>2. QED
      BY <1>3, <3>1 DEF VectorOf, VectorOf19
  <2>4. j \in 0 .. 31 /\ IndexBits(t, 1) = 5
    BY <1>1, <1>3, IndexBitsAre
  <2>5. j \in Indices(t, 1)
    BY <1>3, <2>4, IndicesAre
  <2>6. Coded(t, size, v, 1, j)
    BY <1>1, <1>3, <2>1, <2>2, <2>3, <2>4, <2>5 DEF Coded, j
  <2>7. QED
    BY <2>6 DEF v
<1>4. QED
  BY <1>2, <1>3

LEMMA RingCoded7 ==
  ASSUME NEW size, NEW dx \in -8 .. 8, NEW dy \in -8 .. 8,
         Radius(Vector(dx, dy)) \in 1 .. 4
  PROVE  \E family, index : Coded(7, size, Vector(dx, dy), family, index)
<1> DEFINE v == Vector(dx, dy)
           r == Radius(v)
           j == RingIndex(r, v)
<1>1. r \in Rings /\ j \in 0 .. 8 * r - 1 /\ RingVector(r, j) = v
  <2>1. r \in Rings
    BY DEF Rings
  <2>2. dx \in Int /\ dy \in Int
    OBVIOUS
  <2>3. QED
    BY <2>1, <2>2, RingIndexIs, Zenon
<1>2. v.spatial = FALSE
  BY VectorIs
<1> HIDE DEF v, j
<1>3. r \in 1 .. 4 /\ BodyBits(7, v) = <<2, 5, 6, 8, 8>>[r + 1]
  BY <1>2 DEF BodyBits, v
<1>4. /\ r = 1 => WriteMotion(7, size, v) = Code(2, RingIndex(1, v), 3)
      /\ r = 2 => WriteMotion(7, size, v) = Code(1, RingIndex(2, v), 4)
      /\ r = 3 => WriteMotion(7, size, v) = Code(3, 32 + RingIndex(3, v), 6)
      /\ r = 4 => WriteMotion(7, size, v) = Code(3, RingIndex(4, v), 6)
  BY <1>2 DEF WriteMotion, WriteFormat7
<1> HIDE DEF r
<1>5. CASE r = 1
  <2>1. j \in 0 .. 7 /\ j \in Indices(7, 2)
    BY <1>1, <1>5, IndicesAre
  <2>2. VectorOf(7, size, 2, j) = v
    BY <1>1, <1>5 DEF VectorOf, VectorOf7
  <2>3. BodyBits(7, v) = 2 + IndexBits(7, 2)
    BY <1>3, <1>5, IndexBitsAre
  <2>4. WriteMotion(7, size, v) = Code(2, j, IndexBits(7, 2))
    BY <1>4, <1>5, IndexBitsAre DEF j
  <2>5. Coded(7, size, v, 2, j)
    BY <2>1, <2>2, <2>3, <2>4 DEF Coded
  <2>6. QED
    BY <2>5 DEF v
<1>6. CASE r = 2
  <2>1. j \in 0 .. 15 /\ j \in Indices(7, 1)
    BY <1>1, <1>6, IndicesAre
  <2>2. VectorOf(7, size, 1, j) = v
    BY <1>1, <1>6 DEF VectorOf, VectorOf7
  <2>3. BodyBits(7, v) = 2 + IndexBits(7, 1)
    BY <1>3, <1>6, IndexBitsAre
  <2>4. WriteMotion(7, size, v) = Code(1, j, IndexBits(7, 1))
    BY <1>4, <1>6, IndexBitsAre DEF j
  <2>5. Coded(7, size, v, 1, j)
    BY <2>1, <2>2, <2>3, <2>4 DEF Coded
  <2>6. QED
    BY <2>5 DEF v
<1>7. CASE r = 3
  <2> DEFINE k == 32 + j
  <2>1. j \in 0 .. 23
    BY <1>1, <1>7
  <2>2. k \in 32 .. 55 /\ ~ (k < 32) /\ ~ (k >= 56) /\ k - 32 = j
    BY <2>1
  <2>3. k \in Indices(7, 3)
    BY <2>1, IndicesAre
  <2>4. WriteMotion(7, size, v) = Code(3, k, IndexBits(7, 3))
    BY <1>4, <1>7, IndexBitsAre DEF j
  <2> HIDE DEF k
  <2>5. VectorOf(7, size, 3, k) = v
    BY <1>1, <1>7, <2>2 DEF VectorOf, VectorOf7
  <2>6. BodyBits(7, v) = 2 + IndexBits(7, 3)
    BY <1>3, <1>7, IndexBitsAre
  <2>7. Coded(7, size, v, 3, k)
    BY <2>3, <2>4, <2>5, <2>6 DEF Coded
  <2>8. QED
    BY <2>7 DEF v
<1>8. CASE r = 4
  <2>1. j \in 0 .. 31 /\ j < 32 /\ j \notin 32 .. 55 /\ ~ (j >= 56)
    BY <1>1, <1>8
  <2>2. j \in Indices(7, 3)
    BY <2>1, IndicesAre
  <2>3. WriteMotion(7, size, v) = Code(3, j, IndexBits(7, 3))
    BY <1>4, <1>8, IndexBitsAre DEF j
  <2>4. VectorOf(7, size, 3, j) = v
    BY <1>1, <1>8, <2>1 DEF VectorOf, VectorOf7
  <2>5. BodyBits(7, v) = 2 + IndexBits(7, 3)
    BY <1>3, <1>8, IndexBitsAre
  <2>6. Coded(7, size, v, 3, j)
    BY <2>2, <2>3, <2>4, <2>5 DEF Coded
  <2>7. QED
    BY <2>6 DEF v
<1>9. QED
  BY <1>3, <1>5, <1>6, <1>7, <1>8

LEMMA WindowCoded19 ==
  ASSUME NEW t, t # 7, NEW size, NEW dx \in -8 .. 8, NEW dy \in -8 .. 8,
         Radius(Vector(dx, dy)) > 0
  PROVE  \E family, index : Coded(t, size, Vector(dx, dy), family, index)
<1> DEFINE v == Vector(dx, dy)
           r == Radius(v)
           j == RingIndex(r, v)
<1>1. r \in Nat /\ r > 0
  BY RadiusIs
<1>2. r \in 1 .. 4 => j \in 0 .. 8 * r - 1 /\ RingVector(r, j) = v
  <2>1. r \in 1 .. 4 => r \in Rings
    BY DEF Rings
  <2>2. dx \in Int /\ dy \in Int
    OBVIOUS
  <2>3. QED
    BY <2>1, <2>2, RingIndexIs, Zenon
<1>3. r > 3 => FarIndex(v) \in 0 .. 239 /\ FarVector(FarIndex(v)) = v
  BY FarIndexIs
<1>4. v.spatial = FALSE
  BY VectorIs
<1> HIDE DEF v, j
<1>5. BodyBits(t, v) = IF r <= 1 THEN 5 ELSE IF r = 2 THEN 6 ELSE IF r = 3 THEN 7 ELSE 10
  BY <1>4 DEF BodyBits
<1>6. /\ r = 1 => WriteMotion(t, size, v) = Code(0, RingIndex(1, v), 3)
      /\ r = 2 => WriteMotion(t, size, v) = Code(2, RingIndex(2, v), 4)
      /\ r = 3 => WriteMotion(t, size, v) = Code(1, 8 + RingIndex(3, v), 5)
      /\ r >= 4 => WriteMotion(t, size, v) = Code(3, FarIndex(v), 8)
  BY <1>1, <1>4 DEF WriteMotion, WriteFormat19
<1> HIDE DEF r
<1>7. /\ IndexBits(t, 0) = 3 /\ IndexBits(t, 1) = 5 /\ IndexBits(t, 2) = 4 /\ IndexBits(t, 3) = 8
      /\ Indices(t, 0) = 0 .. 7 /\ Indices(t, 1) = 0 .. 31
      /\ Indices(t, 2) = 0 .. 15 /\ Indices(t, 3) = 0 .. 255
  BY IndexBitsAre, IndicesAre
<1>8. CASE r = 1
  <2>1. j \in 0 .. 7 /\ j \in Indices(t, 0)
    BY <1>2, <1>7, <1>8
  <2>2. VectorOf(t, size, 0, j) = v
    BY <1>2, <1>8 DEF VectorOf, VectorOf19
  <2>3. BodyBits(t, v) = 2 + IndexBits(t, 0)
    BY <1>5, <1>7, <1>8
  <2>4. WriteMotion(t, size, v) = Code(0, j, IndexBits(t, 0))
    BY <1>6, <1>7, <1>8 DEF j
  <2>5. Coded(t, size, v, 0, j)
    BY <2>1, <2>2, <2>3, <2>4 DEF Coded
  <2>6. QED
    BY <2>5 DEF v
<1>9. CASE r = 2
  <2>1. j \in 0 .. 15 /\ j \in Indices(t, 2)
    BY <1>2, <1>7, <1>9
  <2>2. VectorOf(t, size, 2, j) = v
    BY <1>2, <1>9 DEF VectorOf, VectorOf19
  <2>3. BodyBits(t, v) = 2 + IndexBits(t, 2)
    BY <1>5, <1>7, <1>9
  <2>4. WriteMotion(t, size, v) = Code(2, j, IndexBits(t, 2))
    BY <1>6, <1>7, <1>9 DEF j
  <2>5. Coded(t, size, v, 2, j)
    BY <2>1, <2>2, <2>3, <2>4 DEF Coded
  <2>6. QED
    BY <2>5 DEF v
<1>10. CASE r = 3
  <2> DEFINE k == 8 + j
  <2>1. j \in 0 .. 23
    BY <1>2, <1>10
  <2>2. k >= 8 /\ ~ (k < 8) /\ k - 8 = j
    BY <2>1
  <2>3. k \in Indices(t, 1)
    BY <1>7, <2>1
  <2>4. WriteMotion(t, size, v) = Code(1, k, IndexBits(t, 1))
    BY <1>6, <1>7, <1>10 DEF j
  <2> HIDE DEF k
  <2>5. VectorOf(t, size, 1, k) = v
    BY <1>2, <1>10, <2>2 DEF VectorOf, VectorOf19
  <2>6. BodyBits(t, v) = 2 + IndexBits(t, 1)
    BY <1>5, <1>7, <1>10
  <2>7. Coded(t, size, v, 1, k)
    BY <2>3, <2>4, <2>5, <2>6 DEF Coded
  <2>8. QED
    BY <2>7 DEF v
<1>11. CASE r >= 4
  <2> DEFINE k == FarIndex(v)
  <2>1. k \in 0 .. 239 /\ FarVector(k) = v
    BY <1>1, <1>3, <1>11
  <2>2. WriteMotion(t, size, v) = Code(3, k, IndexBits(t, 3))
    BY <1>6, <1>7, <1>11
  <2> HIDE DEF k
  <2>3. k \in Indices(t, 3) /\ k < FarSize
    BY <1>7, <2>1 DEF FarSize
  <2>4. VectorOf(t, size, 3, k) = v
    BY <2>1, <2>3 DEF VectorOf, VectorOf19
  <2>5. BodyBits(t, v) = 2 + IndexBits(t, 3)
    BY <1>1, <1>5, <1>7, <1>11
  <2>6. Coded(t, size, v, 3, k)
    BY <2>2, <2>3, <2>4, <2>5 DEF Coded
  <2>7. QED
    BY <2>6 DEF v
<1>12. QED
  BY <1>1, <1>8, <1>9, <1>10, <1>11

\* The one vector without an index: type 7's way to say stationary.
IsHome(t, v) == t = 7 /\ v = Stationary

LEMMA HomeIs ==
  ASSUME NEW size
  PROVE  /\ WriteMotion(7, size, Stationary) = <<Field(0, 2)>>
         /\ BodyBits(7, Stationary) = 2 /\ ~ Stationary.spatial
<1>1. Radius(Stationary) = 0
  BY DEF Stationary, Radius, Vector, Magnitude
<1>2. Stationary.spatial = FALSE
  BY DEF Stationary, Vector
<1>3. WriteMotion(7, size, Stationary) = <<Field(0, 2)>>
  BY <1>1, <1>2 DEF WriteMotion, WriteFormat7
<1>4. BodyBits(7, Stationary) = 2
  BY <1>1, <1>2 DEF BodyBits
<1>5. QED
  BY <1>2, <1>3, <1>4

LEMMA MotionIsCoded ==
  ASSUME NEW t, NEW size, NEW v \in LegalVectors(t, size), ~ IsHome(t, v)
  PROVE  \E family, index : Coded(t, size, v, family, index)
<1>1. CASE \E i \in 0 .. 7 : v = SpatialAt(size, i)
  BY <1>1, SpatialCoded
<1>2. CASE ~ \E i \in 0 .. 7 : v = SpatialAt(size, i)
  <2>1. PICK dx \in -8 .. 8, dy \in -8 .. 8 :
          v = Vector(dx, dy) /\ (IF t = 7 THEN Radius(v) <= 4 ELSE Radius(v) > 0)
    BY <1>2 DEF LegalVectors, Window
  <2> DEFINE m == Radius(Vector(dx, dy))
  <2>2. /\ m \in Nat /\ dx <= m /\ -dx <= m /\ dy <= m /\ -dy <= m
    <3>1. dx \in Int /\ dy \in Int
      OBVIOUS
    <3>2. QED
      BY <3>1, RadiusIs
  <2>3. CASE t = 7
    <3>1. m <= 4
      BY <2>1, <2>3
    <3>2. m # 0
      <4>1. SUFFICES ASSUME m = 0 PROVE FALSE
        OBVIOUS
      <4> HIDE DEF m
      <4>2. dx = 0 /\ dy = 0
        BY <2>2, <4>1
      <4>3. QED
        BY <2>1, <2>3, <4>2 DEF IsHome, Stationary
    <3>3. m \in 1 .. 4
      <4> HIDE DEF m
      <4>1. QED
        BY <2>2, <3>1, <3>2
    <3>4. QED
      BY <2>1, <2>3, <3>3, RingCoded7
  <2>4. CASE t # 7
    BY <2>1, <2>4, WindowCoded19
  <2>5. QED
    BY <2>3, <2>4
<1>3. QED
  BY <1>1, <1>2

-----------------------------------------------------------------------------
(* What a copy costs.                                                      *)

\* An opcode with the fields after it.
TwoFields(a, b) == FlattenSeq(<<a>> \o <<b>>)
ThreeFields(a, b, c) == FlattenSeq(<<a>> \o <<b, c>>)

LEMMA FieldsJoin ==
  ASSUME NEW S, NEW a \in Seq(S), NEW b \in Seq(S), NEW c \in Seq(S)
  PROVE  /\ TwoFields(a, b) = a \o b /\ TwoFields(a, b) \in Seq(S)
         /\ Len(TwoFields(a, b)) = Len(a) + Len(b)
         /\ ThreeFields(a, b, c) \in Seq(S)
         /\ Len(ThreeFields(a, b, c)) = Len(a) + Len(b) + Len(c)
<1> DEFINE x == Append(<<>>, a)
           y == Append(x, b)
           z == Append(y, c)
           d == a \o b
<1>1. <<a>> \o <<b>> = y /\ <<a>> \o <<b, c>> = z
  OBVIOUS
<1>2. <<>> \in Seq(Seq(S)) /\ x \in Seq(Seq(S)) /\ y \in Seq(Seq(S))
  OBVIOUS
<1>3. FlattenSeq(x) = FlattenSeq(<<>>) \o a
  BY <1>2, FlattenAppend
<1>4. FlattenSeq(x) = a
  <2>1. <<>> \o a = a
    OBVIOUS
  <2>2. QED
    BY <1>3, <2>1, FlattenNothing
<1>5. FlattenSeq(y) = d
  <2> HIDE DEF x
  <2>1. FlattenSeq(y) = FlattenSeq(x) \o b
    BY <1>2, FlattenAppend
  <2>2. QED
    BY <1>4, <2>1
<1>6. FlattenSeq(z) = d \o c
  <2> HIDE DEF y, d
  <2>1. FlattenSeq(z) = FlattenSeq(y) \o c
    BY <1>2, FlattenAppend
  <2>2. QED
    BY <1>5, <2>1
<1>7. d \in Seq(S) /\ Len(d) = Len(a) + Len(b)
  BY JoinIs
<1>8. TwoFields(a, b) = d
  BY <1>1, <1>5, Zenon DEF TwoFields
<1>9. ThreeFields(a, b, c) = d \o c
  BY <1>1, <1>6, Zenon DEF ThreeFields
<1>10. d = a \o b
  OBVIOUS
<1> HIDE DEF d
<1>11. d \o c \in Seq(S) /\ Len(d \o c) = Len(d) + Len(c)
  BY <1>7, JoinIs
<1>12. QED
  BY <1>7, <1>8, <1>9, <1>10, <1>11

LEMMA ThreeFieldsJoin ==
  ASSUME NEW S, NEW a \in Seq(S), NEW b \in Seq(S), NEW c \in Seq(S)
  PROVE  ThreeFields(a, b, c) = TwoFields(a, b) \o c
<1> DEFINE x == Append(Append(<<>>, a), b)
<1>1. <<a>> \o <<b>> = x /\ <<a>> \o <<b, c>> = Append(x, c)
  OBVIOUS
<1>2. x \in Seq(Seq(S))
  OBVIOUS
<1> HIDE DEF x
<1>3. FlattenSeq(Append(x, c)) = FlattenSeq(x) \o c
  BY <1>2, FlattenAppend
<1>4. QED
  BY <1>1, <1>3, Zenon DEF TwoFields, ThreeFields

LEMMA CodeIs ==
  ASSUME NEW t, NEW size, NEW v, NEW family, NEW index, Coded(t, size, v, family, index)
  PROVE  /\ Field(family, 2) \in Seq(Bit) /\ Len(Field(family, 2)) = 2
         /\ Field(index, IndexBits(t, family)) \in Seq(Bit)
         /\ Len(Field(index, IndexBits(t, family))) = IndexBits(t, family)
         /\ IndexBits(t, family) \in 0 .. 8 /\ index \in Nat /\ family \in 0 .. 3
<1>1. family \in 0 .. 3 /\ index \in Indices(t, family)
  BY DEF Coded
<1>2. IndexBits(t, family) \in 0 .. 8
  <2>1. t = 7 => IndexBits(t, family) \in 0 .. 8
    BY <1>1, IndexBitsAre
  <2>2. t # 7 => IndexBits(t, family) \in 0 .. 8
    BY <1>1, IndexBitsAre
  <2>3. QED
    BY <2>1, <2>2
<1>3. index \in Nat
  BY <1>1 DEF Indices
<1>4. IndexBits(t, family) \in 0 .. 11 /\ 2 \in 0 .. 11 /\ family \in Nat
  BY <1>1, <1>2
<1>5. QED
  BY <1>1, <1>2, <1>3, <1>4, FieldIs

LEMMA OpcodeIs ==
  ASSUME NEW size \in {2, 4}
  PROVE  MoveOpcode(size) \in Seq(Bit) /\ Len(MoveOpcode(size)) = IF size = 4 THEN 2 ELSE 1
<1>1. /\ type = 7 /\ size = 4 => MoveOpcode(size) = Field(0, 2)
      /\ type = 7 /\ size = 2 => MoveOpcode(size) = Field(0, 1)
      /\ type # 7 /\ size = 4 => MoveOpcode(size) = Field(2, 2)
      /\ type # 7 /\ size = 2 => MoveOpcode(size) = Field(1, 1)
  BY DEF MoveOpcode
<1>2. ASSUME NEW v \in 0 .. 2, NEW n \in 1 .. 2
      PROVE  Field(v, n) \in Seq(Bit) /\ Len(Field(v, n)) = n
  <2>1. v \in Nat /\ n \in 0 .. 11
    OBVIOUS
  <2>2. QED
    BY <2>1, FieldIs
<1>3. QED
  BY <1>1, <1>2

\* The size reckoned with is the size spent.
LEMMA MoveCostIs ==
  ASSUME NEW size \in {2, 4}, NEW v \in LegalVectors(type, size)
  PROVE  MoveCost(size, v) = MotionBits(type, size, v)
<1> DEFINE o == MoveOpcode(size)
<1>1. o \in Seq(Bit) /\ Len(o) = IF size = 4 THEN 2 ELSE 1
  BY OpcodeIs
<1>2. MoveCost(size, v) = Len(FlattenSeq(<<o>> \o WriteMotion(type, size, v)))
  BY DEF MoveCost
<1>3. MotionBits(type, size, v) = BodyBits(type, v) + (IF size = 4 THEN 2 ELSE 1)
  BY DEF MotionBits
<1> HIDE DEF o
<1>4. CASE IsHome(type, v)
  <2>1. WriteMotion(type, size, v) = <<Field(0, 2)>> /\ BodyBits(type, v) = 2
    BY <1>4, HomeIs DEF IsHome
  <2>2. Field(0, 2) \in Seq(Bit) /\ Len(Field(0, 2)) = 2
    BY FieldIs
  <2> DEFINE f == Field(0, 2)
  <2> HIDE DEF f
  <2>3. f \in Seq(Bit) /\ Len(f) = 2
    BY <2>2 DEF f
  <2>4. MoveCost(size, v) = Len(TwoFields(o, f))
    BY <1>2, <2>1, Zenon DEF TwoFields, f
  <2>5. o \in Seq(Bit) /\ f \in Seq(Bit)
    BY <1>1, <2>3
  <2>6. Len(TwoFields(o, f)) = Len(o) + Len(f)
    BY <2>5, FieldsJoin
  <2>7. MoveCost(size, v) = Len(o) + 2
    BY <2>3, <2>4, <2>6
  <2>8. QED
    BY <1>1, <1>3, <2>1, <2>7
<1>5. CASE ~ IsHome(type, v)
  <2>1. PICK family, index : Coded(type, size, v, family, index)
    BY <1>5, MotionIsCoded
  <2> DEFINE f == Field(family, 2)
             g == Field(index, IndexBits(type, family))
             n == IndexBits(type, family)
  <2>2. f \in Seq(Bit) /\ Len(f) = 2 /\ g \in Seq(Bit) /\ Len(g) = n /\ n \in 0 .. 8
    BY <2>1, CodeIs
  <2>3. WriteMotion(type, size, v) = <<f, g>> /\ BodyBits(type, v) = 2 + n
    BY <2>1 DEF Coded, Code
  <2> HIDE DEF f, g, n
  <2>8. o \in Seq(Bit) /\ f \in Seq(Bit) /\ g \in Seq(Bit)
    BY <1>1, <2>2
  <2>4. MoveCost(size, v) = Len(ThreeFields(o, f, g))
    BY <1>2, <2>3, Zenon DEF ThreeFields
  <2>5. Len(ThreeFields(o, f, g)) = Len(o) + Len(f) + Len(g)
    BY <2>8, FieldsJoin
  <2>6. MoveCost(size, v) = Len(o) + 2 + n
    BY <2>2, <2>4, <2>5
  <2>9. QED
    BY <1>1, <1>3, <2>2, <2>3, <2>6
<1>6. QED
  BY <1>4, <1>5

\* The bits of the vectors in the order of the search.
BitsAt(t, i) ==
  IF i < 8 THEN 5 ELSE IF i < 24 THEN 6
  ELSE IF t = 7 THEN 8 ELSE IF i < 48 THEN 7 ELSE 10

LEMMA TemporalBits ==
  ASSUME NEW t, NEW i \in 0 .. TemporalCount(t) - 1
  PROVE  BodyBits(t, TemporalAt(t, i)) = BitsAt(t, i)
<1> DEFINE v == TemporalAt(t, i)
<1>1. i \in Nat /\ (t = 7 => i <= 79) /\ (t # 7 => i <= 287)
  BY DEF TemporalCount
<1>2. ASSUME NEW r \in Rings, NEW j \in 0 .. 8 * r - 1, v = RingVector(r, j)
      PROVE  Radius(v) = r /\ v.spatial = FALSE
  <2>1. Radius(RingVector(r, j)) = r /\ ~ RingVector(r, j).spatial
    BY RingRadius
  <2>2. \E dx, dy : RingVector(r, j) = Vector(dx, dy)
    BY RingVectorIs
  <2>3. QED
    BY <1>2, <2>1, <2>2, VectorIs
<1>3. CASE i < 8
  <2>1. v = RingVector(1, i) /\ 1 \in Rings /\ i \in 0 .. 8 * 1 - 1
    BY <1>1, <1>3 DEF TemporalAt, TemporalAt7, TemporalAt19, Rings
  <2>2. Radius(v) = 1 /\ v.spatial = FALSE
    BY <1>2, <2>1
  <2>3. QED
    BY <1>1, <1>3, <2>2 DEF BodyBits, BitsAt
<1>4. CASE i \in 8 .. 23
  <2>1. v = RingVector(2, i - 8) /\ 2 \in Rings /\ i - 8 \in 0 .. 8 * 2 - 1
    <3>1. ~ (i < 8) /\ ~ (i >= 24) /\ ~ (i >= 48) /\ ~ (i >= 56) /\ i \notin 24 .. 55 /\
            i \notin 24 .. 47
      BY <1>4
    <3>2. QED
      BY <1>4, <3>1 DEF TemporalAt, TemporalAt7, TemporalAt19, Rings
  <2>2. Radius(v) = 2 /\ v.spatial = FALSE
    BY <1>2, <2>1
  <2>3. QED
    BY <1>1, <1>4, <2>2 DEF BodyBits, BitsAt
<1>5. CASE t = 7 /\ i >= 24
  <2>1. CASE i \in 24 .. 55
    <3>1. v = RingVector(4, i - 24) /\ 4 \in Rings /\ i - 24 \in 0 .. 8 * 4 - 1
      <4>1. ~ (i < 8) /\ ~ (i >= 56) /\ i \notin 8 .. 23
        BY <2>1
      <4>2. QED
        BY <1>5, <2>1, <4>1 DEF TemporalAt, TemporalAt7, Rings
    <3>2. Radius(v) = 4 /\ v.spatial = FALSE
      BY <1>2, <3>1
    <3>3. QED
      BY <1>1, <1>5, <3>2 DEF BodyBits, BitsAt
  <2>2. CASE i >= 56
    <3>1. v = RingVector(3, i - 56) /\ 3 \in Rings /\ i - 56 \in 0 .. 8 * 3 - 1
      <4>1. ~ (i < 8) /\ i \notin 8 .. 23 /\ i \notin 24 .. 55
        BY <2>2
      <4>2. QED
        BY <1>1, <1>5, <2>2, <4>1 DEF TemporalAt, TemporalAt7, Rings
    <3>2. Radius(v) = 3 /\ v.spatial = FALSE
      BY <1>2, <3>1
    <3>3. QED
      BY <1>1, <1>5, <3>2 DEF BodyBits, BitsAt
  <2>3. QED
    BY <1>1, <1>5, <2>1, <2>2
<1>6. CASE t # 7 /\ i \in 24 .. 47
  <2>1. v = RingVector(3, i - 24) /\ 3 \in Rings /\ i - 24 \in 0 .. 8 * 3 - 1
    <3>1. ~ (i < 8) /\ ~ (i >= 48) /\ i \notin 8 .. 23
      BY <1>6
    <3>2. QED
      BY <1>6, <3>1 DEF TemporalAt, TemporalAt19, Rings
  <2>2. Radius(v) = 3 /\ v.spatial = FALSE
    BY <1>2, <2>1
  <2>3. QED
    BY <1>1, <1>6, <2>2 DEF BodyBits, BitsAt
<1>7. CASE t # 7 /\ i >= 48
  <2>1. v = FarVector(i - 48) /\ i - 48 \in 0 .. 239
    <3>1. ~ (i < 8) /\ i \notin 8 .. 23 /\ i \notin 24 .. 47
      BY <1>7
    <3>2. QED
      BY <1>1, <1>7, <3>1 DEF TemporalAt, TemporalAt19
  <2>2. PICK n \in 0 .. 288 : v = SquareCell(n) /\ Radius(v) > 3
    BY <2>1, FarVectorIs DEF IsFar
  <2>3. PICK dx \in -8 .. 8, dy \in -8 .. 8 : v = Vector(dx, dy)
    BY <2>2, CellIs
  <2>4. Radius(v) \in Nat /\ v.spatial = FALSE
    <3>1. dx \in Int /\ dy \in Int
      OBVIOUS
    <3>2. Radius(Vector(dx, dy)) \in Nat /\ Vector(dx, dy).spatial = FALSE
      BY <3>1, RadiusIs, VectorIs
    <3> HIDE DEF v
    <3>3. QED
      BY <2>3, <3>2
  <2> HIDE DEF v
  <2>5. ~ (Radius(v) <= 1) /\ Radius(v) # 2 /\ Radius(v) # 3
    BY <2>2, <2>4
  <2>6. BodyBits(t, v) = 10
    BY <1>7, <2>4, <2>5 DEF BodyBits
  <2>7. BitsAt(t, i) = 10
    BY <1>7 DEF BitsAt
  <2>8. QED
    BY <2>6, <2>7 DEF v
<1>8. QED
  BY <1>1, <1>3, <1>4, <1>5, <1>6, <1>7

\* The first of several equally good vectors is never dearer.
LEMMA EarlierIsCheaper ==
  ASSUME NEW t, NEW j \in 1 .. TemporalCount(t) - 1
  PROVE  MotionBits(t, 4, TemporalAt(t, j - 1)) <= MotionBits(t, 4, TemporalAt(t, j))
<1>1. TemporalCount(t) \in Nat
  BY DEF TemporalCount
<1>2. j \in 0 .. TemporalCount(t) - 1 /\ j - 1 \in 0 .. TemporalCount(t) - 1
  BY <1>1
<1>3. /\ BodyBits(t, TemporalAt(t, j - 1)) = BitsAt(t, j - 1)
      /\ BodyBits(t, TemporalAt(t, j)) = BitsAt(t, j)
  BY <1>2, TemporalBits
<1>4. BitsAt(t, j - 1) <= BitsAt(t, j) /\ BitsAt(t, j) \in Nat /\ BitsAt(t, j - 1) \in Nat
  BY <1>1 DEF BitsAt
<1>5. QED
  BY <1>3, <1>4 DEF MotionBits

LEMMA CostShown ==
  ASSUME SyntaxAssumption, ChromaInv
  PROVE  CostModel
<1>1. wanted \in Seq(LegalCodes(type))
  BY DEF ChromaInv, ChromaWritten
<1>2. SUFFICES ASSUME NEW i \in DOMAIN wanted, wanted[i].op = "motion"
               PROVE  LET v == wanted[i].vector
                      IN  /\ \A size \in (IF v.spatial THEN {4} ELSE {2, 4}) :
                               MoveCost(size, v) = MotionBits(type, size, v)
                          /\ ~v.spatial =>
                               \A j \in 1 .. TemporalCount(type) - 1 :
                                 TemporalAt(type, j) = v =>
                                   MotionBits(type, 4, TemporalAt(type, j - 1))
                                     <= MotionBits(type, 4, v)
  BY Zenon DEF CostModel
<1> DEFINE v == wanted[i].vector
<1>3. v \in LegalVectors(type, 4)
  <2>1. wanted[i] \in LegalCodes(type)
    BY <1>1
  <2>2. wanted[i] \in LegalCopies(type, 4)
    BY <1>2, <2>1 DEF LegalCodes, LegalData, Data, SplitCode
  <2>3. QED
    BY <1>2, <2>2, LegalCopyIs
<1> HIDE DEF v
<1>4. ~ v.spatial => v \in LegalVectors(type, 2)
  <2>1. \A k \in 0 .. 7 : SpatialAt(4, k).spatial
    BY SpatialIs
  <2>2. QED
    BY <1>3, <2>1 DEF LegalVectors
<1>5. ASSUME NEW size \in (IF v.spatial THEN {4} ELSE {2, 4})
      PROVE  MoveCost(size, v) = MotionBits(type, size, v)
  <2>1. size \in {2, 4} /\ v \in LegalVectors(type, size)
    BY <1>3, <1>4
  <2>2. QED
    BY <2>1, MoveCostIs
<1>6. ASSUME NEW j \in 1 .. TemporalCount(type) - 1, TemporalAt(type, j) = v
      PROVE  MotionBits(type, 4, TemporalAt(type, j - 1)) <= MotionBits(type, 4, v)
  BY <1>6, EarlierIsCheaper
<1>7. QED
  BY <1>5, <1>6 DEF v

\* The size the copy decision reckons with is the size the writer spends, for
\* every vector of the window, and the first of several equally good vectors
\* is never dearer than a later one (mb_encode.c:83-125 against
\* mb_motion.c:305-440).
THEOREM CostIsSpent ==
  ASSUME OffersAreLegal
  PROVE  Spec => []CostModel
<1>1. SyntaxAssumption
  BY SyntaxAssumption
<1>2. ChromaInv => CostModel
  BY <1>1, CostShown
<1>3. Spec => []ChromaInv
  BY ChromaKept
<1>4. QED
  BY <1>2, <1>3, PTL

-----------------------------------------------------------------------------
(* Parts of a bit string: Part(s, a, n) is what follows the first a of its *)
(* first n bits.                                                           *)

Part(s, a, n) == SubSeq(s, a + 1, n)

LEMMA PartHas ==
  ASSUME NEW S, NEW s \in Seq(S), NEW a \in 0 .. Len(s), NEW n \in a .. Len(s)
  PROVE  /\ Part(s, a, n) \in Seq(S)
         /\ Len(Part(s, a, n)) = n - a
         /\ \A i \in 1 .. n - a : Part(s, a, n)[i] = s[a + i]
BY PartIs, Zenon DEF Part

LEMMA PartOfAPart ==
  ASSUME NEW S, NEW s \in Seq(S), NEW a \in 0 .. Len(s), NEW n \in a .. Len(s),
         NEW c \in 0 .. n - a, NEW d \in c .. n - a
  PROVE  Part(Part(s, a, n), c, d) = Part(s, a + c, a + d)
<1>1. SubSeq(SubSeq(s, a + 1, n), c + 1, d) = SubSeq(s, (a + c) + 1, a + d)
  BY PartOfPart
<1>2. QED
  BY <1>1, Zenon DEF Part

LEMMA BitsOfPart ==
  ASSUME NEW s \in Seq(Bit), NEW a \in 0 .. Len(s), NEW n \in a .. Len(s),
         NEW c \in 0 .. n - a, NEW d \in c .. n - a
  PROVE  Part(Part(s, a, n), c, d) = Part(s, a + c, a + d)
BY PartOfAPart

LEMMA PartBits ==
  ASSUME NEW s \in Seq(Bit), NEW a \in 0 .. Len(s), NEW n \in a .. Len(s)
  PROVE  /\ Part(s, a, n) \in Seq(Bit)
         /\ Len(Part(s, a, n)) = n - a
         /\ \A i \in 1 .. n - a : Part(s, a, n)[i] = s[a + i]
BY PartHas

LEMMA PartOfLeft ==
  ASSUME NEW S, NEW s \in Seq(S), NEW t \in Seq(S),
         NEW a \in 0 .. Len(s), NEW n \in a .. Len(s)
  PROVE  Part(s \o t, a, n) = Part(s, a, n)
BY PartOfJoin, Zenon DEF Part

LEMMA PartOfRight ==
  ASSUME NEW S, NEW s \in Seq(S), NEW t \in Seq(S),
         NEW a \in 0 .. Len(t), NEW n \in a .. Len(t)
  PROVE  Part(s \o t, Len(s) + a, Len(s) + n) = Part(t, a, n)
<1> DEFINE y == s \o t
           k == Len(s)
<1>1. /\ y \in Seq(S) /\ Len(y) = k + Len(t) /\ k \in Nat /\ Len(t) \in Nat
      /\ \A i \in 1 .. Len(t) : y[k + i] = t[i]
  BY JoinIs
<1> HIDE DEF y, k
<1> DEFINE e == k + a
           f == k + n
<1>2. e \in 0 .. Len(y) /\ f \in e .. Len(y) /\ f - e = n - a
  BY <1>1
<1>3. /\ Part(y, e, f) \in Seq(S) /\ Len(Part(y, e, f)) = n - a
      /\ \A i \in 1 .. n - a : Part(y, e, f)[i] = y[(k + a) + i]
  <2>1. y \in Seq(S)
    BY <1>1
  <2>2. \A i : e + i = (k + a) + i
    OBVIOUS
  <2> HIDE DEF e, f
  <2>3. /\ Part(y, e, f) \in Seq(S) /\ Len(Part(y, e, f)) = f - e
        /\ \A i \in 1 .. f - e : Part(y, e, f)[i] = y[e + i]
    BY <1>2, <2>1, PartHas
  <2>4. QED
    BY <1>2, <2>2, <2>3
<1>4. /\ Part(t, a, n) \in Seq(S) /\ Len(Part(t, a, n)) = n - a
      /\ \A i \in 1 .. n - a : Part(t, a, n)[i] = t[a + i]
  BY PartHas
<1>5. ASSUME NEW i \in 1 .. n - a
      PROVE  y[(k + a) + i] = t[a + i]
  <2>1. a + i \in 1 .. Len(t) /\ (k + a) + i = k + (a + i)
    BY <1>1
  <2>2. QED
    BY <1>1, <2>1
<1> HIDE DEF e, f
<1>6. \A i \in 1 .. n - a : Part(y, e, f)[i] = Part(t, a, n)[i]
  BY <1>3, <1>4, <1>5
<1>7. Part(y, e, f) = Part(t, a, n)
  BY <1>3, <1>4, <1>6, SameParts
<1>8. QED
  BY <1>7 DEF y, k, e, f

LEMMA RestJoined ==
  ASSUME NEW S, NEW s \in Seq(S), NEW t \in Seq(S), NEW a \in 0 .. Len(s)
  PROVE  Part(s, a, Len(s)) \o t = Part(s \o t, a, Len(s \o t))
BY RestOfJoin, Zenon DEF Part

LEMMA PartsJoined ==
  ASSUME NEW S, NEW s \in Seq(S), NEW a \in 0 .. Len(s), NEW m \in a .. Len(s),
         NEW n \in m .. Len(s)
  PROVE  Part(s, a, m) \o Part(s, m, n) = Part(s, a, n)
BY PartsJoin, Zenon DEF Part

LEMMA WholePart ==
  ASSUME NEW S, NEW s \in Seq(S)
  PROVE  Part(s, 0, Len(s)) = s
<1> DEFINE n == Len(s)
<1>1. n \in Nat /\ 0 \in 0 .. n /\ n \in 0 .. n
  OBVIOUS
<1>2. /\ Part(s, 0, n) \in Seq(S) /\ Len(Part(s, 0, n)) = n - 0
      /\ \A i \in 1 .. n - 0 : Part(s, 0, n)[i] = s[0 + i]
  BY <1>1, PartHas
<1>3. n - 0 = n /\ \A i \in 1 .. n : 0 + i = i
  BY <1>1
<1> HIDE DEF n
<1>4. Len(Part(s, 0, n)) = n /\ \A i \in 1 .. n : Part(s, 0, n)[i] = s[i]
  BY <1>2, <1>3
<1>5. QED
  BY <1>2, <1>4, SameParts DEF n

LEMMA EmptyPart ==
  ASSUME NEW S, NEW s \in Seq(S), NEW a \in 0 .. Len(s)
  PROVE  Part(s, a, a) = <<>>
<1>1. a \in a .. Len(s) /\ a - a = 0
  OBVIOUS
<1>2. Part(s, a, a) \in Seq(S) /\ Len(Part(s, a, a)) = 0
  BY <1>1, PartHas
<1>3. QED
  BY <1>2

\* The whole bytes in n bits.
Eights(n) == n \div 8
LEMMA EightsIs ==
  ASSUME NEW n \in Nat
  PROVE  Eights(n) \in Nat /\ 8 * Eights(n) <= n /\ n < 8 * Eights(n) + 8
BY DEF Eights

LEMMA EightsOf ==
  ASSUME NEW n \in Nat, NEW q \in Nat, 8 * q <= n, n < 8 * q + 8
  PROVE  Eights(n) = q
BY DEF Eights

-----------------------------------------------------------------------------
(* The writer, as a function of the bits it was given.                     *)

WholeBytes(b) == [i \in 1 .. Eights(Len(b)) |-> Part(b, 8 * (i - 1), 8 * i)]
\* The bits of the last, unfinished byte, and the writer that was given b.
Remainder(b) == Part(b, 8 * Eights(Len(b)), Len(b))
WriterOf(b) == [bytes |-> WholeBytes(b), accumulator |-> Remainder(b), total |-> Len(b)]

LEMMA WholeBytesAre ==
  ASSUME NEW b \in Seq(Bit)
  PROVE  /\ WholeBytes(b) \in Seq(Seq(Bit)) /\ Len(WholeBytes(b)) = Eights(Len(b))
         /\ \A i \in 1 .. Eights(Len(b)) :
              /\ WholeBytes(b)[i] = Part(b, 8 * (i - 1), 8 * i)
              /\ 8 * (i - 1) \in 0 .. Len(b) /\ 8 * i \in 8 * (i - 1) .. Len(b)
<1> DEFINE q == Eights(Len(b))
<1>1. q \in Nat /\ 8 * q <= Len(b) /\ Len(b) \in Nat
  BY EightsIs
<1> HIDE DEF q
<1>2. ASSUME NEW i \in 1 .. q
      PROVE  /\ 8 * (i - 1) \in 0 .. Len(b) /\ 8 * i \in 8 * (i - 1) .. Len(b)
             /\ Part(b, 8 * (i - 1), 8 * i) \in Seq(Bit)
  <2> DEFINE k == 8 * (i - 1)
             m == 8 * i
  <2>1. k \in 0 .. Len(b) /\ m \in k .. Len(b)
    BY <1>1
  <2> HIDE DEF k, m
  <2>2. Part(b, k, m) \in Seq(Bit)
    BY <2>1, PartHas
  <2>3. QED
    BY <2>1, <2>2 DEF k, m
<1>3. WholeBytes(b) = [i \in 1 .. q |-> Part(b, 8 * (i - 1), 8 * i)]
  BY DEF WholeBytes, q
<1> DEFINE B == WholeBytes(b)
<1> HIDE DEF B
<1>4. \A i \in 1 .. q : B[i] = Part(b, 8 * (i - 1), 8 * i)
  BY <1>3, Zenon DEF B
<1>5. \A i \in 1 .. q : B[i] \in Seq(Bit)
  BY <1>2, <1>4
<1>6. B \in Seq(Seq(Bit)) /\ Len(B) = q
  <2>1. B = [i \in 1 .. q |-> B[i]]
    BY <1>3, <1>4, Zenon DEF B
  <2>2. QED
    BY <1>1, <1>5, <2>1
<1>7. QED
  BY <1>2, <1>4, <1>6, Zenon DEF q, B

LEMMA DrainIs ==
  ASSUME NEW b, NEW acc, NEW n
  PROVE  Drain([bytes |-> b, accumulator |-> acc, total |-> n])
         = [bytes |-> b \o WholeBytes(acc), accumulator |-> Remainder(acc), total |-> n]
<1> DEFINE before == [bytes |-> b, accumulator |-> acc, total |-> n]
           x == b \o WholeBytes(acc)
           y == Remainder(acc)
<1>1. before.accumulator = acc /\ before.bytes = b
  OBVIOUS
<1>2. before = [bytes |-> b, accumulator |-> acc, total |-> n]
  OBVIOUS
<1> HIDE DEF before
<1>3. WholeBytes(acc) = [i \in 1 .. Len(acc) \div 8 |-> SubSeq(acc, 8 * (i - 1) + 1, 8 * i)]
  BY DEF WholeBytes, Part, Eights
<1>4. y = Rest(acc, 8 * (Len(acc) \div 8))
  BY DEF Rest, Remainder, Part, Eights
<1>5. Drain(before) = PutDrained(before, x, y)
  BY <1>1, <1>3, <1>4, Zenon DEF Drain, ByteBits, PutDrained
<1> HIDE DEF x, y
<1>6. PutDrained(before, x, y) = [bytes |-> x, accumulator |-> y, total |-> n]
  BY <1>2, PutDrainedIs
<1>7. QED
  BY <1>5, <1>6 DEF x, y, before

\* What is written goes behind what was.
LEMMA WriteMore ==
  ASSUME NEW b \in Seq(Bit), NEW x \in Seq(Bit)
  PROVE  b \o x \in Seq(Bit) /\ Write(WriterOf(b), x) = WriterOf(b \o x)
<1> DEFINE y == b \o x
           m == Len(y)
           q == Eights(Len(b))
           a == 8 * q
           acc == Remainder(b) \o x
           w == Eights(Len(acc))
<1>1. y \in Seq(Bit) /\ m = Len(b) + Len(x) /\ Len(b) \in Nat /\ Len(x) \in Nat
  BY JoinIs
<1>2. q \in Nat /\ a <= Len(b) /\ a \in Nat /\ a \in 0 .. Len(b)
  <2>1. q \in Nat /\ 8 * q <= Len(b)
    BY <1>1, EightsIs
  <2> HIDE DEF q
  <2>2. QED
    BY <1>1, <2>1
<1>3. acc = Part(y, a, m)
  <2> HIDE DEF y, a
  <2>1. Part(b, a, Len(b)) \o x = Part(y, a, m)
    BY <1>2, RestJoined DEF y
  <2>2. QED
    BY <2>1 DEF Remainder, a
<1>4. acc \in Seq(Bit) /\ Len(acc) = m - a /\ a \in 0 .. m /\ m \in a .. m /\ m \in Nat
  <2>1. a \in 0 .. m /\ m \in a .. m /\ m \in Nat
    <3> HIDE DEF a, y
    <3>1. QED
      BY <1>1, <1>2
  <2>2. Part(y, a, m) \in Seq(Bit) /\ Len(Part(y, a, m)) = m - a
    <3> HIDE DEF a, y
    <3>1. m \in a .. Len(y) /\ a \in 0 .. Len(y)
      BY <2>1
    <3> HIDE DEF m
    <3>2. QED
      BY <1>1, <3>1, PartHas
  <2> HIDE DEF a, m, acc
  <2>3. QED
    BY <1>3, <2>1, <2>2
<1>5. w \in Nat /\ 8 * w <= m - a /\ Eights(m) = q + w
  <2>1. w \in Nat /\ 8 * w <= Len(acc) /\ Len(acc) < 8 * w + 8
    <3> HIDE DEF acc
    <3>1. Len(acc) \in Nat
      BY <1>4
    <3>2. QED
      BY <3>1, EightsIs
  <2> HIDE DEF acc, w, m
  <2>2. w \in Nat /\ 8 * w <= m - a /\ m - a < 8 * w + 8
    BY <1>4, <2>1
  <2>3. q + w \in Nat /\ 8 * (q + w) <= m /\ m < 8 * (q + w) + 8
    <3> HIDE DEF q
    <3>1. QED
      BY <1>2, <1>4, <2>2
  <2> HIDE DEF a, q
  <2>4. Eights(m) = q + w
    BY <1>4, <2>3, EightsOf
  <2>5. QED
    BY <2>2, <2>4
<1>6. WholeBytes(b) \o WholeBytes(acc) = WholeBytes(y)
  <2> DEFINE s == WholeBytes(b)
             u == WholeBytes(y)
             new == WholeBytes(acc)
             v == s \o new
  <2>1. /\ s \in Seq(Seq(Bit)) /\ Len(s) = q
        /\ \A i \in 1 .. q : s[i] = Part(b, 8 * (i - 1), 8 * i)
                             /\ 8 * (i - 1) \in 0 .. Len(b) /\ 8 * i \in 8 * (i - 1) .. Len(b)
    BY WholeBytesAre
  <2>2. /\ u \in Seq(Seq(Bit)) /\ Len(u) = Eights(m)
        /\ \A i \in 1 .. Eights(m) : u[i] = Part(y, 8 * (i - 1), 8 * i)
    <3> HIDE DEF y
    <3>1. QED
      BY <1>1, WholeBytesAre
  <2>3. /\ new \in Seq(Seq(Bit)) /\ Len(new) = w
        /\ \A i \in 1 .. w : new[i] = Part(acc, 8 * (i - 1), 8 * i)
    <3> HIDE DEF acc
    <3>1. QED
      BY <1>4, WholeBytesAre
  <2> HIDE DEF s, u, new, y, q, w, acc, m
  <2>4. /\ v \in Seq(Seq(Bit)) /\ Len(v) = q + w
        /\ \A i \in 1 .. q : v[i] = s[i]
        /\ \A i \in 1 .. w : v[q + i] = new[i]
    <3>1. s \in Seq(Seq(Bit)) /\ new \in Seq(Seq(Bit))
      BY <2>1, <2>3
    <3>2. /\ s \o new \in Seq(Seq(Bit)) /\ Len(s \o new) = Len(s) + Len(new)
          /\ \A i \in 1 .. Len(s) : (s \o new)[i] = s[i]
          /\ \A i \in 1 .. Len(new) : (s \o new)[Len(s) + i] = new[i]
      BY <3>1, JoinIs
    <3>3. QED
      BY <2>1, <2>3, <3>2
  <2> HIDE DEF v
  <2>5. Len(v) = Len(u)
    BY <1>5, <2>2, <2>4
  <2>6. ASSUME NEW i \in 1 .. q + w
        PROVE  v[i] = u[i]
    <3>1. u[i] = Part(y, 8 * (i - 1), 8 * i)
      BY <1>5, <2>2
    <3>2. CASE i <= q
      <4>1. i \in 1 .. q
        BY <1>2, <1>5, <3>2
      <4> DEFINE c == 8 * (i - 1)
                 d == 8 * i
      <4>2. v[i] = Part(b, c, d) /\ c \in 0 .. Len(b) /\ d \in c .. Len(b) /\ u[i] = Part(y, c, d)
        BY <2>1, <2>4, <3>1, <4>1
      <4> HIDE DEF c, d
      <4>3. Part(y, c, d) = Part(b, c, d)
        BY <4>2, PartOfLeft DEF y
      <4>4. QED
        BY <4>2, <4>3
    <3>3. CASE ~ (i <= q)
      <4> DEFINE j == i - q
                 c == 8 * (j - 1)
                 d == 8 * j
      <4>1. j \in 1 .. w /\ i = q + j
        BY <1>2, <1>5, <3>3
      <4>2. c \in 0 .. m - a /\ d \in c .. m - a
        <5> HIDE DEF a, j
        <5>1. QED
          BY <1>4, <1>5, <4>1
      <4>3. a + c = 8 * (i - 1) /\ a + d = 8 * i
        BY <1>2, <4>1
      <4>4. v[i] = Part(acc, c, d)
        <5> HIDE DEF j
        <5>1. QED
          BY <2>3, <2>4, <4>1
      <4> HIDE DEF a, j, c, d
      <4>5. Part(Part(y, a, m), c, d) = Part(y, a + c, a + d)
        <5>1. a \in 0 .. Len(y) /\ m \in a .. Len(y)
          BY <1>4 DEF m
        <5>2. QED
          BY <1>1, <4>2, <5>1, PartOfAPart
      <4>6. QED
        BY <1>3, <3>1, <4>3, <4>4, <4>5
    <3>4. QED
      BY <3>2, <3>3
  <2>7. v = u
    BY <2>2, <2>4, <2>5, <2>6, SameParts
  <2>8. QED
    BY <2>7 DEF v, u, s, new
<1>7. Remainder(acc) = Remainder(y)
  <2> DEFINE c == 8 * w
             d == m - a
  <2>1. c \in 0 .. m - a /\ d \in c .. m - a /\ a + c = 8 * Eights(m) /\ a + d = m
    <3> HIDE DEF m, w, q
    <3>1. QED
      BY <1>2, <1>4, <1>5
  <2>2. Remainder(acc) = Part(acc, c, d)
    <3> HIDE DEF acc
    <3>1. QED
      BY <1>4 DEF Remainder
  <2>3. Remainder(y) = Part(y, 8 * Eights(m), m)
    BY DEF Remainder
  <2> HIDE DEF a, c, d, y, acc, w, q
  <2>4. a \in 0 .. Len(y) /\ m \in a .. Len(y)
    BY <1>4 DEF m
  <2> HIDE DEF m
  <2>5. Part(Part(y, a, m), c, d) = Part(y, a + c, a + d)
    BY <1>1, <2>1, <2>4, PartOfAPart
  <2>6. QED
    BY <1>3, <2>1, <2>2, <2>3, <2>5
<1>8. Write(WriterOf(b), x)
      = Drain([bytes |-> WholeBytes(b), accumulator |-> acc, total |-> m])
  <2> DEFINE before == WriterOf(b)
             z == Len(b) + Len(x)
  <2>1. /\ before = [bytes |-> WholeBytes(b), accumulator |-> Remainder(b), total |-> Len(b)]
        /\ before.accumulator \o x = acc /\ before.total + Len(x) = z
    BY DEF WriterOf
  <2>2. Write(before, x) = Drain(PutWritten(before, acc, z))
    BY <2>1, Zenon DEF Write, PutWritten
  <2> HIDE DEF before, acc, z
  <2>3. PutWritten(before, acc, z) = [bytes |-> WholeBytes(b), accumulator |-> acc, total |-> z]
    BY <2>1, PutWrittenIs
  <2>4. z = m
    BY <1>1 DEF z
  <2> HIDE DEF m
  <2>5. QED
    BY <2>2, <2>3, <2>4 DEF before
<1>9. Drain([bytes |-> WholeBytes(b), accumulator |-> acc, total |-> m])
      = [bytes |-> WholeBytes(b) \o WholeBytes(acc), accumulator |-> Remainder(acc), total |-> m]
  BY DrainIs, Zenon
<1>10. QED
  BY <1>1, <1>6, <1>7, <1>8, <1>9, Zenon DEF WriterOf

-----------------------------------------------------------------------------
(* The reader, as a function of how many bits of a payload it has read.    *)

Payload(f) == f \in Seq(Bit) /\ 8 * Eights(Len(f)) = Len(f)

LEMMA BytesJoin ==
  ASSUME NEW f, Payload(f), NEW a \in Nat, NEW n \in Nat, a <= n, n <= Eights(Len(f))
  PROVE  FlattenSeq(SubSeq(WholeBytes(f), a + 1, n)) = Part(f, 8 * a, 8 * n)
<1> DEFINE B == WholeBytes(f)
           d == SubSeq(B, a + 1, n)
           m == Eights(Len(f))
           k == 8 * a
           g == [i \in 0 .. n - a |-> Part(f, k, k + 8 * i)]
<1>1. f \in Seq(Bit) /\ Len(f) \in Nat /\ m \in Nat /\ 8 * m = Len(f)
  BY EightsIs DEF Payload
<1>2. /\ B \in Seq(Seq(Bit)) /\ Len(B) = m
      /\ \A i \in 1 .. m : B[i] = Part(f, 8 * (i - 1), 8 * i)
  BY <1>1, WholeBytesAre
<1> HIDE DEF B, m
<1>3. /\ d \in Seq(Seq(Bit)) /\ Len(d) = n - a
      /\ \A i \in 1 .. n - a : d[i] = B[a + i]
  <2>1. a \in 0 .. Len(B) /\ n \in a .. Len(B)
    BY <1>2 DEF m
  <2>2. QED
    BY <1>2, <2>1, PartIs
<1> HIDE DEF d
<1>4. k \in 0 .. Len(f) /\ k \in Nat
  BY <1>1 DEF m
<1>5. ASSUME NEW i \in 0 .. n - a
      PROVE  /\ k + 8 * i \in k .. Len(f)
             /\ Part(f, k, k + 8 * i) \in Seq(Bit)
  <2> DEFINE j == k + 8 * i
  <2>1. j \in k .. Len(f)
    BY <1>1 DEF m
  <2> HIDE DEF j, k
  <2>2. Part(f, k, j) \in Seq(Bit)
    BY <1>1, <1>4, <2>1, PartHas
  <2>3. QED
    BY <2>1, <2>2 DEF j
<1>6. g[0] = <<>>
  <2>1. 0 \in 0 .. n - a /\ k + 8 * 0 = k
    BY <1>4
  <2> HIDE DEF k
  <2>2. Part(f, k, k) = <<>>
    BY <1>1, <1>4, EmptyPart
  <2>3. QED
    BY <2>1, <2>2
<1>7. ASSUME NEW i \in 1 .. n - a
      PROVE  g[i] = g[i - 1] \o d[i]
  <2> DEFINE c == k + 8 * (i - 1)
             e == k + 8 * i
  <2>1. i - 1 \in 0 .. n - a /\ i \in 0 .. n - a /\ a + i \in 1 .. m
    <3>1. n <= m /\ m \in Nat
      BY <1>1 DEF m
    <3>2. QED
      BY <3>1
  <2>2. c \in k .. Len(f) /\ e \in k .. Len(f)
    <3> HIDE DEF k
    <3>1. QED
      BY <1>5, <2>1
  <2>3. c = 8 * ((a + i) - 1) /\ e = 8 * (a + i) /\ c <= e
    BY <2>1
  <2>4. d[i] = Part(f, c, e)
    <3>1. d[i] = B[a + i]
      BY <1>3
    <3>2. B[a + i] = Part(f, 8 * ((a + i) - 1), 8 * (a + i))
      BY <1>2, <2>1
    <3> HIDE DEF c, e
    <3>3. QED
      BY <2>3, <3>1, <3>2
  <2>5. g[i] = Part(f, k, e) /\ g[i - 1] = Part(f, k, c)
    BY <2>1
  <2> HIDE DEF c, e, k, g
  <2>6. e \in c .. Len(f)
    BY <1>4, <2>2, <2>3
  <2>7. Part(f, k, c) \o Part(f, c, e) = Part(f, k, e)
    BY <1>1, <1>4, <2>2, <2>6, PartsJoined
  <2>8. QED
    BY <2>4, <2>5, <2>7
<1>8. g \in [0 .. n - a -> Seq(Bit)]
  <2> HIDE DEF k
  <2>1. QED
    BY <1>5
<1>9. Joins(g, d, Bit)
  <2> HIDE DEF g, k
  <2>1. QED
    BY <1>3, <1>6, <1>7, <1>8 DEF Joins
<1>10. FlattenSeq(d) = g[Len(d)]
  <2> HIDE DEF g
  <2>1. QED
    BY <1>3, <1>9, FlattenJoins
<1>11. n - a \in 0 .. n - a /\ k + 8 * (n - a) = 8 * n
  OBVIOUS
<1>12. g[n - a] = Part(f, k, 8 * n)
  <2> HIDE DEF k
  <2>1. QED
    BY <1>11
<1>13. QED
  BY <1>3, <1>10, <1>12 DEF d, B

\* BytesFor, for the bits that have been read.
LEMMA BytesForIs ==
  ASSUME NEW n \in Int
  PROVE  /\ BytesFor(n) \in Nat /\ n <= 8 * BytesFor(n)
         /\ n <= 0 => BytesFor(n) = 0
         /\ n > 0 => 8 * BytesFor(n) < n + 8
BY DEF BytesFor, ByteBits

LEMMA BytesForOf ==
  ASSUME NEW n \in Nat, NEW q \in Nat, n <= 8 * q, n > 0 => 8 * q < n + 8, n = 0 => q = 0
  PROVE  BytesFor(n) = q
BY DEF BytesFor, ByteBits

LEMMA MinOfTwo ==
  ASSUME NEW a \in Int, NEW b \in Int
  PROVE  Min({a, b}) = IF a <= b THEN a ELSE b
BY DEF Min

\* A reader that has the accumulator's bits from k to the end of byte q.
ReaderWith(f, k, q, ok) ==
  [bytes |-> WholeBytes(f), bytePos |-> q, accumulator |-> Part(f, k, 8 * q),
   total |-> k, ok |-> ok]
\* A reader that has taken k bits and refilled for no more.
ReaderAt(f, k) == ReaderWith(f, k, BytesFor(k), TRUE)

LEMMA RefillIs ==
  ASSUME NEW f, Payload(f), NEW k \in 0 .. Len(f), NEW n \in Nat
  PROVE  /\ k + n <= Len(f) =>
              Refill(ReaderAt(f, k), n) = ReaderWith(f, k, BytesFor(k + n), TRUE)
         /\ k + n > Len(f) =>
              Refill(ReaderAt(f, k), n) = ReaderWith(f, k, Eights(Len(f)), TRUE)
<1> DEFINE m == Eights(Len(f))
           q == BytesFor(k)
           acc == Part(f, k, 8 * q)
           t == BytesFor(n - Len(acc))
           left == m - q
           taken == IF t <= left THEN t ELSE left
           r == ReaderAt(f, k)
           q2 == q + taken
           acc2 == Part(f, k, 8 * q2)
<1>1. f \in Seq(Bit) /\ m \in Nat /\ 8 * m = Len(f) /\ k \in Nat /\ k <= 8 * m
  BY EightsIs DEF Payload
<1>2. q \in Nat /\ k <= 8 * q /\ (k = 0 => q = 0) /\ (k > 0 => 8 * q < k + 8)
  BY <1>1, BytesForIs
<1> HIDE DEF m, q
<1>3. q <= m /\ 8 * q \in k .. Len(f) /\ k \in 0 .. Len(f) /\ k <= 8 * q
  BY <1>1, <1>2
<1>4. Len(acc) = 8 * q - k
  <2> DEFINE e == 8 * q
  <2>1. e \in k .. Len(f)
    BY <1>3
  <2> HIDE DEF e
  <2>2. Len(Part(f, k, e)) = e - k
    BY <1>1, <1>3, <2>1, PartHas
  <2>3. QED
    BY <2>2 DEF e
<1>5. /\ t \in Nat /\ n - Len(acc) <= 8 * t
      /\ n - Len(acc) <= 0 => t = 0
      /\ n - Len(acc) > 0 => 8 * t < n - Len(acc) + 8
  <2> HIDE DEF acc
  <2>1. n - Len(acc) \in Int
    BY <1>2, <1>4
  <2>2. QED
    BY <2>1, BytesForIs
<1> HIDE DEF acc, t
<1>6. left \in Nat /\ taken \in Nat /\ q2 \in Nat /\ q <= q2 /\ q2 <= m
  BY <1>1, <1>2, <1>3, <1>5
<1>7. Min({t, left}) = taken
  <2>1. t \in Int /\ left \in Int
    BY <1>5, <1>6
  <2> HIDE DEF left
  <2>2. QED
    BY <2>1, MinOfTwo
<1>8. WholeBytes(f) \in Seq(Seq(Bit)) /\ Len(WholeBytes(f)) = m
  BY <1>1, WholeBytesAre DEF m
<1>9. FlattenSeq(SubSeq(WholeBytes(f), q + 1, q + taken)) = Part(f, 8 * q, 8 * q2)
  <2> HIDE DEF taken
  <2>1. q \in Nat /\ q2 \in Nat /\ q <= q2 /\ q2 <= Eights(Len(f))
    BY <1>2, <1>6 DEF m
  <2> HIDE DEF q2
  <2>2. FlattenSeq(SubSeq(WholeBytes(f), q + 1, q2)) = Part(f, 8 * q, 8 * q2)
    BY <2>1, BytesJoin
  <2>3. QED
    BY <2>2 DEF q2
<1>10. acc \o Part(f, 8 * q, 8 * q2) = acc2
  <2> DEFINE c == 8 * q
             e == 8 * q2
  <2>1. c \in k .. Len(f) /\ e \in c .. Len(f)
    <3> HIDE DEF q2
    <3>1. QED
      BY <1>1, <1>2, <1>3, <1>6
  <2> HIDE DEF c, e
  <2>2. Part(f, k, c) \o Part(f, c, e) = Part(f, k, e)
    BY <1>1, <1>3, <2>1, PartsJoined
  <2>3. QED
    BY <2>2 DEF c, e, acc
<1>11. r = [bytes |-> WholeBytes(f), bytePos |-> q, accumulator |-> acc, total |-> k, ok |-> TRUE]
  BY Zenon DEF ReaderAt, ReaderWith, q, acc
<1>12. /\ r.bytes = WholeBytes(f) /\ r.bytePos = q /\ r.accumulator = acc
  BY <1>11
<1> HIDE DEF r
<1>13. Refill(r, n) = PutFilled(r, acc2, q2)
  <2>1. BytesFor(n - Len(r.accumulator)) = t /\ Len(r.bytes) - r.bytePos = left
    BY <1>8, <1>12, Zenon DEF t
  <2> HIDE DEF left, taken
  <2>2. Refill(r, n) = [r EXCEPT
         !.accumulator = @ \o FlattenSeq(SubSeq(r.bytes, r.bytePos + 1, r.bytePos + taken)),
         !.bytePos = @ + taken]
    BY <1>7, <2>1, Zenon DEF Refill
  <2>3. r.accumulator \o FlattenSeq(SubSeq(r.bytes, r.bytePos + 1, r.bytePos + taken)) = acc2
    BY <1>9, <1>10, <1>12, Zenon
  <2>4. r.bytePos + taken = q2
    BY <1>12
  <2> HIDE DEF acc2, q2
  <2>5. QED
    BY <2>2, <2>3, <2>4, Zenon DEF PutFilled
<1>14. Refill(r, n) = ReaderWith(f, k, q2, TRUE)
  <2> DEFINE o == TRUE
             B == WholeBytes(f)
  <2>0. r = [bytes |-> B, bytePos |-> q, accumulator |-> acc, total |-> k, ok |-> o]
    BY <1>11
  <2> HIDE DEF acc2, q2, o, B
  <2>1. PutFilled(r, acc2, q2)
        = [bytes |-> B, bytePos |-> q2, accumulator |-> acc2, total |-> k, ok |-> o]
    BY <2>0, PutFilledIs
  <2>2. QED
    BY <1>13, <2>1, Zenon DEF ReaderWith, acc2, o, B
<1>15. ASSUME k + n <= Len(f) PROVE q2 = BytesFor(k + n)
  <2>1. /\ q2 \in Nat /\ k + n \in Nat /\ k + n <= 8 * q2
        /\ k + n > 0 => 8 * q2 < k + n + 8
        /\ k + n = 0 => q2 = 0
    BY <1>1, <1>2, <1>3, <1>4, <1>5, <1>6, <1>15
  <2> HIDE DEF q2
  <2>2. QED
    BY <2>1, BytesForOf
<1>16. ASSUME k + n > Len(f) PROVE q2 = m
  BY <1>1, <1>2, <1>3, <1>4, <1>5, <1>6, <1>16
<1>17. QED
  BY <1>14, <1>15, <1>16, Zenon DEF r, m

\* A read within the payload returns the bits that follow.
LEMMA ReadPart ==
  ASSUME NEW f, Payload(f), NEW k \in 0 .. Len(f), NEW n \in Nat, k + n <= Len(f)
  PROVE  Read(ReaderAt(f, k), n) = [field |-> Part(f, k, k + n), reader |-> ReaderAt(f, k + n)]
<1> DEFINE j == k + n
           q == BytesFor(j)
           acc == Part(f, k, 8 * q)
           r == ReaderWith(f, k, q, TRUE)
<1>1. f \in Seq(Bit) /\ j \in Nat /\ j \in k .. Len(f) /\ j \in 0 .. Len(f)
  BY DEF Payload
<1>2. q \in Nat /\ 8 * q \in j .. Len(f) /\ 8 * q \in k .. Len(f)
  <2> DEFINE m == Eights(Len(f))
  <2>1. m \in Nat /\ 8 * m = Len(f)
    BY <1>1, EightsIs DEF Payload
  <2>2. q \in Nat /\ j <= 8 * q /\ (j <= 0 => q = 0) /\ (j > 0 => 8 * q < j + 8)
    <3> HIDE DEF j
    <3>1. QED
      BY <1>1, BytesForIs
  <2> HIDE DEF m, q
  <2>3. QED
    BY <1>1, <2>1, <2>2
<1>3. Refill(ReaderAt(f, k), n) = r
  BY RefillIs
<1>4. /\ r = [bytes |-> WholeBytes(f), bytePos |-> q, accumulator |-> acc, total |-> k,
           ok |-> TRUE]
      /\ r.accumulator = acc /\ r.ok = TRUE /\ r.total = k
  BY DEF ReaderWith
<1>5. acc \in Seq(Bit) /\ Len(acc) = 8 * q - k
  <2> DEFINE e == 8 * q
  <2>1. e \in k .. Len(f)
    BY <1>2
  <2> HIDE DEF e
  <2>2. Part(f, k, e) \in Seq(Bit) /\ Len(Part(f, k, e)) = e - k
    BY <1>1, <2>1, PartHas
  <2>3. QED
    BY <2>2 DEF e
<1>6. n <= Len(acc) /\ n \in 0 .. Len(acc) /\ Len(acc) \in n .. Len(acc)
      /\ 0 \in 0 .. Len(acc) /\ n \in 0 .. 8 * q - k /\ 8 * q - k \in n .. 8 * q - k
      /\ 0 \in 0 .. 8 * q - k /\ k + (8 * q - k) = 8 * q /\ k + 0 = k
  <2> HIDE DEF q, acc
  <2>1. QED
    BY <1>2, <1>5
<1>7. SubSeq(acc, 1, n) = Part(f, k, j)
  <2> DEFINE e == 8 * q
             z == 0
  <2>1. z \in 0 .. e - k /\ n \in z .. e - k /\ e \in k .. Len(f) /\ k + z = k
    BY <1>2, <1>6
  <2>2. SubSeq(acc, 1, n) = Part(acc, z, n)
    BY DEF Part
  <2> HIDE DEF e, z
  <2>3. Part(Part(f, k, e), z, n) = Part(f, k + z, k + n)
    BY <1>1, <2>1, PartOfAPart
  <2>4. QED
    BY <2>1, <2>2, <2>3 DEF e
<1>8. Rest(acc, n) = Part(f, j, 8 * q)
  <2> DEFINE e == 8 * q
             d == e - k
  <2>1. n \in 0 .. e - k /\ d \in n .. e - k /\ e \in k .. Len(f) /\ k + d = e
    BY <1>2, <1>6
  <2>2. Rest(acc, n) = Part(acc, n, d)
    BY <1>5 DEF Part, Rest
  <2> HIDE DEF d
  <2>3. Part(acc, n, d) = Part(f, k + n, k + d)
    <3> HIDE DEF e
    <3>1. Part(Part(f, k, e), n, d) = Part(f, k + n, k + d)
      BY <1>1, <2>1, PartOfAPart
    <3>2. QED
      BY <3>1 DEF e
  <2>4. QED
    BY <2>1, <2>2, <2>3
<1> HIDE DEF r
<1>9. Take(r, n) = [field |-> SubSeq(acc, 1, n), reader |-> PutTaken(r, Rest(acc, n), j)]
  BY <1>4, <1>6, Zenon DEF Take, PutTaken
<1>10. PutTaken(r, Rest(acc, n), j)
       = [bytes |-> WholeBytes(f), bytePos |-> q, accumulator |-> Rest(acc, n), total |-> j,
         ok |-> TRUE]
  <2> DEFINE x == Rest(acc, n)
             o == TRUE
             B == WholeBytes(f)
  <2>1. r = [bytes |-> B, bytePos |-> q, accumulator |-> acc, total |-> k, ok |-> o]
    BY <1>4
  <2> HIDE DEF acc, x, j, q, o, B
  <2>2. PutTaken(r, x, j)
        = [bytes |-> B, bytePos |-> q, accumulator |-> x, total |-> j, ok |-> o]
    BY <2>1, PutTakenIs
  <2>3. QED
    BY <2>2 DEF o, B, x
<1>11. PutTaken(r, Rest(acc, n), j) = ReaderAt(f, j)
  BY <1>8, <1>10, Zenon DEF ReaderAt, ReaderWith
<1>12. QED
  BY <1>3, <1>7, <1>9, <1>11, Zenon DEF Read

-----------------------------------------------------------------------------
(* What lies ahead of a reader.                                            *)

\* The bits c follow the first k bits of a payload.
Ahead(f, k, c) ==
  /\ Payload(f) /\ c \in Seq(Bit)
  /\ k \in Nat /\ k + Len(c) <= Len(f)
  /\ Part(f, k, k + Len(c)) = c

LEMMA AheadIs ==
  ASSUME NEW f, NEW k, NEW c, Ahead(f, k, c)
  PROVE  /\ f \in Seq(Bit) /\ Payload(f) /\ c \in Seq(Bit) /\ Len(c) \in Nat /\ Len(f) \in Nat
         /\ k \in Nat /\ k \in 0 .. Len(f) /\ k + Len(c) <= Len(f)
         /\ k + Len(c) \in 0 .. Len(f) /\ k + Len(c) \in k .. Len(f)
         /\ k + Len(c) \in Nat
<1>1. /\ f \in Seq(Bit) /\ Payload(f) /\ c \in Seq(Bit) /\ k \in Nat /\ k + Len(c) <= Len(f)
  BY DEF Ahead, Payload
<1>2. Len(c) \in Nat /\ Len(f) \in Nat
  BY <1>1
<1> DEFINE m == Len(c)
           n == Len(f)
<1> HIDE DEF m, n
<1>3. k \in 0 .. n /\ k + m \in 0 .. n /\ k + m \in k .. n /\ k + m \in Nat
  BY <1>1, <1>2 DEF m, n
<1>4. QED
  BY <1>1, <1>2, <1>3 DEF m, n

LEMMA AheadRead ==
  ASSUME NEW f, NEW k, NEW c, Ahead(f, k, c), NEW n, n = Len(c)
  PROVE  Read(ReaderAt(f, k), n) = [field |-> c, reader |-> ReaderAt(f, k + n)]
<1>1. /\ Payload(f) /\ k \in 0 .. Len(f) /\ n \in Nat /\ k + n <= Len(f)
      /\ Part(f, k, k + n) = c
  BY AheadIs DEF Ahead
<1>2. QED
  BY <1>1, ReadPart

\* What lies ahead, piece by piece.
LEMMA AheadSplits ==
  ASSUME NEW f, NEW k, NEW a \in Seq(Bit), NEW b \in Seq(Bit), Ahead(f, k, a \o b)
  PROVE  Ahead(f, k, a) /\ Ahead(f, k + Len(a), b)
<1> DEFINE c == a \o b
           m == Len(a)
           n == Len(c)
           l == Len(b)
           d == k + m
           e == k + n
           z == 0
<1>1. m \in Nat /\ l \in Nat /\ n = m + l /\ c \in Seq(Bit)
  BY JoinIs
<1>2. /\ f \in Seq(Bit) /\ Payload(f) /\ k \in Nat /\ e <= Len(f) /\ Part(f, k, e) = c
      /\ k \in 0 .. Len(f) /\ e \in k .. Len(f) /\ Len(f) \in Nat
  <2> HIDE DEF c
  <2>1. QED
    BY AheadIs DEF Ahead, c
<1>3. /\ z \in 0 .. e - k /\ m \in z .. e - k /\ m \in 0 .. e - k /\ n \in m .. e - k
      /\ k + z = k /\ d \in Nat /\ d + l = e /\ d <= Len(f)
  <2> HIDE DEF m, n, l
  <2>1. QED
    BY <1>1, <1>2
<1>4. Part(Part(f, k, e), z, m) = Part(f, k + z, k + m) /\
        Part(Part(f, k, e), m, n) = Part(f, k + m, k + n)
  <2> HIDE DEF e, z, m, n
  <2>1. Part(Part(f, k, e), z, m) = Part(f, k + z, k + m)
    BY <1>2, <1>3, BitsOfPart
  <2>2. Part(Part(f, k, e), m, n) = Part(f, k + m, k + n)
    BY <1>2, <1>3, BitsOfPart
  <2>3. QED
    BY <2>1, <2>2
<1>5. Part(c, z, m) = a
  <2>1. z \in 0 .. Len(a) /\ m \in z .. Len(a)
    BY <1>1
  <2> HIDE DEF z, m
  <2>2. Part(a \o b, z, m) = Part(a, z, m)
    BY <2>1, PartOfLeft
  <2>3. Part(a, 0, Len(a)) = a
    BY WholePart
  <2>4. QED
    BY <2>2, <2>3 DEF z, m
<1>6. Part(c, m, n) = b
  <2>1. z \in 0 .. Len(b) /\ l \in z .. Len(b) /\ Len(a) + z = m /\ Len(a) + l = n
    BY <1>1
  <2> HIDE DEF z, l
  <2>2. Part(a \o b, Len(a) + z, Len(a) + l) = Part(b, z, l)
    BY <2>1, PartOfRight
  <2>3. Part(b, 0, Len(b)) = b
    BY WholePart
  <2> HIDE DEF n, m
  <2>4. QED
    BY <2>1, <2>2, <2>3 DEF z, l
<1> HIDE DEF c, n, e, z
<1>7. Part(f, k, k + m) = a /\ Part(f, d, d + l) = b
  <2>1. Part(f, k, k + m) = a
    BY <1>2, <1>3, <1>4, <1>5
  <2>2. Part(f, d, d + l) = b
    BY <1>2, <1>3, <1>4, <1>6 DEF e
  <2>3. QED
    BY <2>1, <2>2
<1>8. k + m <= Len(f) /\ d + l <= Len(f)
  BY <1>2, <1>3
<1>9. Ahead(f, k, a)
  <2> HIDE DEF l, d
  <2>1. QED
    BY <1>2, <1>7, <1>8 DEF Ahead, m
<1>10. Ahead(f, d, b)
  <2> HIDE DEF m, d
  <2>1. QED
    BY <1>2, <1>3, <1>7, <1>8 DEF Ahead, l
<1>11. QED
  BY <1>9, <1>10 DEF d, m

-----------------------------------------------------------------------------
(* The finished payload.                                                   *)

Zeros(n) == [i \in 1 .. n |-> 0]
\* The zeros a flush adds.
Padding(b) == Zeros(8 * BytesFor(Len(b)) - Len(b))
Padded(b) == b \o Padding(b)

LEMMA ZerosAre ==
  ASSUME NEW n \in Nat
  PROVE  Zeros(n) \in Seq(Bit) /\ Len(Zeros(n)) = n /\ \A i \in 1 .. n : Zeros(n)[i] = 0
BY DEF Zeros, Bit

LEMMA PaddedIs ==
  ASSUME NEW b \in Seq(Bit)
  PROVE  /\ Padded(b) \in Seq(Bit) /\ Padding(b) \in Seq(Bit)
         /\ Len(Padded(b)) = 8 * BytesFor(Len(b))
         /\ Len(Padding(b)) = 8 * BytesFor(Len(b)) - Len(b)
         /\ Len(Padding(b)) \in 0 .. 7
         /\ \A i \in 1 .. Len(Padding(b)) : Padding(b)[i] = 0
         /\ Payload(Padded(b))
         /\ Ahead(Padded(b), 0, b)
<1> DEFINE n == Len(b)
           q == BytesFor(n)
           l == 8 * q - n
           p == Padding(b)
           y == b \o p
<1>1. n \in Nat /\ q \in Nat /\ n <= 8 * q /\ (n <= 0 => q = 0) /\ (n > 0 => 8 * q < n + 8)
  <2>1. n \in Nat
    OBVIOUS
  <2>2. n \in Int
    BY <2>1
  <2> HIDE DEF n
  <2>3. QED
    BY <2>1, <2>2, BytesForIs, Zenon
<1>2. l \in Nat /\ l \in 0 .. 7
  <2> HIDE DEF n, q
  <2>1. QED
    BY <1>1
<1>3. p \in Seq(Bit) /\ Len(p) = l /\ \A i \in 1 .. l : p[i] = 0
  <2> HIDE DEF l
  <2>1. QED
    BY <1>2, ZerosAre DEF Padding, l
<1> HIDE DEF p
<1>4. y \in Seq(Bit) /\ Len(y) = n + l
  BY <1>3, JoinIs
<1>5. Len(y) = 8 * q
  <2> HIDE DEF n, q, y
  <2>1. QED
    BY <1>1, <1>4
<1>6. 8 * Eights(Len(y)) = Len(y)
  <2> HIDE DEF q, y
  <2>1. 8 * q \in Nat /\ 8 * q <= 8 * q /\ 8 * q < 8 * q + 8
    BY <1>1
  <2>2. Eights(8 * q) = q
    BY <1>1, <2>1, EightsOf
  <2>3. QED
    BY <1>5, <2>2
<1>7. Payload(y)
  BY <1>4, <1>6 DEF Payload
<1>8. Part(y, 0, 0 + n) = b
  <2> DEFINE z == 0
  <2>1. z \in 0 .. Len(b) /\ n \in z .. Len(b) /\ z + n = n
    BY <1>1
  <2> HIDE DEF z, n
  <2>2. Part(b \o p, z, n) = Part(b, z, n)
    BY <1>3, <2>1, PartOfLeft
  <2>3. Part(b, 0, Len(b)) = b
    BY WholePart
  <2>4. QED
    BY <2>1, <2>2, <2>3 DEF z, n
<1>9. Ahead(y, 0, b)
  <2>1. 0 \in Nat /\ 0 + n <= Len(y)
    <3> HIDE DEF n, y
    <3>1. QED
      BY <1>1, <1>2, <1>4
  <2> HIDE DEF y
  <2>2. QED
    BY <1>7, <1>8, <2>1 DEF Ahead
<1>10. Padded(b) = y
  BY DEF Padded, p
<1> HIDE DEF y
<1>11. QED
  BY <1>2, <1>3, <1>4, <1>5, <1>7, <1>9, <1>10 DEF p

\* Flushing pads the last byte with zeros.
LEMMA FlushIs ==
  ASSUME NEW b \in Seq(Bit)
  PROVE  FlushZero(WriterOf(b)).bytes = WholeBytes(Padded(b))
<1> DEFINE n == Len(b)
           q == Eights(n)
           acc == Remainder(b)
           f == Padded(b)
           r == WriterOf(b)
           last == [i \in 1 .. 8 |-> IF i <= Len(acc) THEN acc[i] ELSE 0]
<1>1. n \in Nat /\ q \in Nat /\ 8 * q <= n /\ n < 8 * q + 8
  <2>1. n \in Nat
    OBVIOUS
  <2> HIDE DEF n
  <2>2. QED
    BY <2>1, EightsIs
<1>2. acc \in Seq(Bit) /\ Len(acc) = n - 8 * q /\ \A i \in 1 .. n - 8 * q : acc[i] = b[8 * q + i]
  <2> DEFINE a == 8 * q
  <2>1. a \in 0 .. Len(b) /\ n \in a .. Len(b)
    <3> HIDE DEF q
    <3>1. QED
      BY <1>1
  <2> HIDE DEF a, n
  <2>2. /\ Part(b, a, n) \in Seq(Bit) /\ Len(Part(b, a, n)) = n - a
        /\ \A i \in 1 .. n - a : Part(b, a, n)[i] = b[a + i]
    BY <2>1, PartHas
  <2>3. acc = Part(b, a, n)
    BY DEF Remainder, a, n
  <2> HIDE DEF acc
  <2>4. QED
    BY <2>2, <2>3 DEF a
<1>3. /\ f \in Seq(Bit) /\ Len(f) = 8 * BytesFor(n) /\ Len(f) \in Nat
      /\ \A i \in 1 .. n : f[i] = b[i]
      /\ \A i \in 1 .. Len(Padding(b)) : f[n + i] = 0
      /\ Len(Padding(b)) = 8 * BytesFor(n) - n
  <2>1. /\ Padded(b) \in Seq(Bit) /\ Padding(b) \in Seq(Bit) /\ Len(Padded(b)) = 8 * BytesFor(n)
        /\ \A i \in 1 .. Len(Padding(b)) : Padding(b)[i] = 0
        /\ Len(Padding(b)) = 8 * BytesFor(n) - n
    BY PaddedIs
  <2>2. /\ \A i \in 1 .. Len(b) : (b \o Padding(b))[i] = b[i]
        /\ \A i \in 1 .. Len(Padding(b)) : (b \o Padding(b))[Len(b) + i] = Padding(b)[i]
    BY <2>1, JoinIs
  <2>3. QED
    BY <2>1, <2>2 DEF Padded
<1>4. BytesFor(n) = IF n = 8 * q THEN q ELSE q + 1
  <2> DEFINE w == IF n = 8 * q THEN q ELSE q + 1
  <2>1. w \in Nat /\ n <= 8 * w /\ (n > 0 => 8 * w < n + 8) /\ (n = 0 => w = 0)
    <3> HIDE DEF n, q
    <3>1. QED
      BY <1>1
  <2> HIDE DEF w, n
  <2>2. BytesFor(n) = w
    BY <1>1, <2>1, BytesForOf
  <2>3. QED
    BY <2>2 DEF w
<1>5. /\ WholeBytes(f) \in Seq(Seq(Bit)) /\ Len(WholeBytes(f)) = BytesFor(n)
      /\ \A i \in 1 .. BytesFor(n) : WholeBytes(f)[i] = Part(f, 8 * (i - 1), 8 * i)
  <2>1. Eights(Len(f)) = BytesFor(n)
    <3> DEFINE w == BytesFor(n)
    <3>1. w \in Nat
      <4> HIDE DEF n, q
      <4>1. QED
        BY <1>1, <1>4
    <3> HIDE DEF w
    <3>2. 8 * w \in Nat /\ 8 * w <= 8 * w /\ 8 * w < 8 * w + 8
      BY <3>1
    <3>3. Eights(8 * w) = w
      BY <3>1, <3>2, EightsOf
    <3>4. QED
      BY <1>3, <3>3 DEF w
  <2> HIDE DEF f
  <2>2. QED
    BY <1>3, <2>1, WholeBytesAre
<1>6. /\ r.bytes = WholeBytes(b) /\ r.accumulator = acc
      /\ r = [bytes |-> WholeBytes(b), accumulator |-> acc, total |-> n]
  BY DEF WriterOf
<1>7. CASE acc = <<>>
  <2>1. n = 8 * q
    <3>1. Len(acc) = 0
      BY <1>7
    <3> HIDE DEF acc, n, q
    <3>2. QED
      BY <1>1, <1>2, <3>1
  <2>2. f = b
    <3>1. Len(f) = n
      <4> HIDE DEF n, q, f
      <4>1. QED
        BY <1>3, <1>4, <2>1
    <3> HIDE DEF f
    <3>2. QED
      BY <1>3, <3>1, SameParts DEF n
  <2>3. FlushZero(r) = r
    BY <1>6, <1>7, Zenon DEF FlushZero
  <2>4. QED
    BY <1>6, <2>2, <2>3
<1>8. CASE acc # <<>>
  <2>1. n # 8 * q /\ BytesFor(n) = q + 1
    <3>1. Len(acc) # 0
      <4> HIDE DEF acc
      <4>1. QED
        BY <1>2, <1>8
    <3> HIDE DEF acc, n, q
    <3>2. QED
      BY <1>1, <1>2, <1>4, <3>1
  <2>2. FlushZero(r).bytes = Append(WholeBytes(b), last)
    <3> DEFINE u == Append(WholeBytes(b), last)
               v == <<>>
    <3>1. FlushZero(r) = PutDrained(r, u, v)
      BY <1>6, <1>8, Zenon DEF FlushZero, PutDrained, ByteBits
    <3> DEFINE w == WholeBytes(b)
    <3>2. r = [bytes |-> w, accumulator |-> acc, total |-> n]
      BY <1>6
    <3> HIDE DEF u, v, w, acc, n, r
    <3>3. PutDrained(r, u, v) = [bytes |-> u, accumulator |-> v, total |-> n]
      BY <3>2, PutDrainedIs
    <3>4. FlushZero(r).bytes = u
      BY <3>1, <3>3
    <3>5. QED
      BY <3>4 DEF u
  <2>3. last \in Seq(Bit) /\ Len(last) = 8 /\ \A i \in 1 .. 8 : last[i] = f[8 * q + i]
    <3>1. ASSUME NEW i \in 1 .. 8
          PROVE  last[i] \in Bit /\ last[i] = f[8 * q + i]
      <4>1. CASE i <= Len(acc)
        <5>1. i \in 1 .. Len(acc) /\ i \in 1 .. n - 8 * q /\ 8 * q + i \in 1 .. n
          <6> HIDE DEF acc, n, q
          <6>1. QED
            BY <1>1, <1>2, <4>1
        <5>2. last[i] = acc[i] /\ acc[i] \in Bit
          <6>1. last[i] = acc[i]
            BY <4>1
          <6> HIDE DEF acc, last
          <6>2. QED
            BY <1>2, <5>1, <6>1
        <5> HIDE DEF acc, f, last, n, q
        <5>3. QED
          BY <1>2, <1>3, <5>1, <5>2
      <4>2. CASE ~ (i <= Len(acc))
        <5> DEFINE j == 8 * q + i - n
        <5>1. j \in 1 .. Len(Padding(b)) /\ n + j = 8 * q + i
          <6> HIDE DEF acc, n, q
          <6>1. QED
            BY <1>1, <1>2, <1>3, <2>1, <4>2
        <5>2. last[i] = 0
          BY <4>2
        <5> HIDE DEF acc, f, last, n, q, j
        <5>3. QED
          BY <1>3, <5>1, <5>2 DEF Bit
      <4>3. QED
        BY <4>1, <4>2
    <3>2. last = [i \in 1 .. 8 |-> last[i]]
      OBVIOUS
    <3> HIDE DEF last, f
    <3>3. QED
      BY <3>1, <3>2
  <2>4. WholeBytes(f)[q + 1] = last
    <3> DEFINE a == 8 * q
               e == 8 * (q + 1)
    <3>1. a \in 0 .. Len(f) /\ e \in a .. Len(f) /\ e - a = 8
      <4> HIDE DEF q, f
      <4>1. QED
        BY <1>1, <1>3, <2>1
    <3>2. WholeBytes(f)[q + 1] = Part(f, a, e)
      <4>1. q + 1 \in 1 .. BytesFor(n) /\ 8 * ((q + 1) - 1) = a
        <5> HIDE DEF q, f
        <5>1. QED
          BY <1>1, <2>1
      <4> HIDE DEF q, f, a
      <4>2. QED
        BY <1>5, <4>1
    <3> HIDE DEF a, e, f
    <3>3. /\ Part(f, a, e) \in Seq(Bit) /\ Len(Part(f, a, e)) = e - a
          /\ \A i \in 1 .. e - a : Part(f, a, e)[i] = f[a + i]
      BY <1>3, <3>1, PartBits
    <3> HIDE DEF last
    <3>4. Len(Part(f, a, e)) = Len(last) /\
            \A i \in 1 .. Len(Part(f, a, e)) : Part(f, a, e)[i] = last[i]
      BY <2>3, <3>1, <3>3 DEF a
    <3>5. Part(f, a, e) = last
      BY <2>3, <3>3, <3>4, SameParts
    <3>6. QED
      BY <3>2, <3>5
  <2>5. Append(WholeBytes(b), last) = WholeBytes(f)
    <3> DEFINE s == WholeBytes(b)
               u == WholeBytes(f)
    <3>1. /\ s \in Seq(Seq(Bit)) /\ Len(s) = q
          /\ \A i \in 1 .. q : /\ s[i] = Part(b, 8 * (i - 1), 8 * i)
                               /\ 8 * (i - 1) \in 0 .. Len(b) /\ 8 * i \in 8 * (i - 1) .. Len(b)
      BY WholeBytesAre
    <3>2. /\ u \in Seq(Seq(Bit)) /\ Len(u) = q + 1 /\ u[q + 1] = last
          /\ \A i \in 1 .. q : u[i] = Part(f, 8 * (i - 1), 8 * i)
      <4>1. BytesFor(n) = q + 1 /\ \A i \in 1 .. q : i \in 1 .. q + 1
        BY <1>1, <2>1
      <4> HIDE DEF q, last
      <4>2. QED
        BY <1>5, <2>4, <4>1
    <3>3. ASSUME NEW i \in 1 .. q
          PROVE  s[i] = u[i]
      <4> DEFINE c == 8 * (i - 1)
                 d == 8 * i
      <4>1. s[i] = Part(b, c, d) /\ u[i] = Part(f, c, d) /\ c \in 0 .. Len(b) /\ d \in c .. Len(b)
        BY <3>1, <3>2
      <4>2. Padding(b) \in Seq(Bit)
        BY PaddedIs
      <4> HIDE DEF c, d
      <4>3. Part(b \o Padding(b), c, d) = Part(b, c, d)
        BY <4>1, <4>2, PartOfLeft
      <4>4. QED
        BY <4>1, <4>3 DEF Padded
    <3> HIDE DEF s, u, last, q
    <3> DEFINE x == Append(s, last)
    <3>4. /\ x \in Seq(Seq(Bit)) /\ Len(x) = Len(s) + 1
          /\ \A i \in 1 .. Len(s) : x[i] = s[i]
          /\ x[Len(s) + 1] = last
      <4> DEFINE T == Seq(Bit)
      <4>1. s \in Seq(T) /\ last \in T
        BY <2>3, <3>1
      <4> HIDE DEF T
      <4>2. QED
        BY <4>1 DEF T
    <3> HIDE DEF x
    <3>7. q \in Nat /\ Len(x) = q + 1 /\ x[q + 1] = last /\ \A i \in 1 .. q : x[i] = s[i]
      BY <1>1, <3>1, <3>4
    <3>8. \A i \in 1 .. Len(u) : x[i] = u[i]
      BY <3>2, <3>3, <3>7
    <3>5. x = u
      BY <3>2, <3>4, <3>7, <3>8, SameParts
    <3>6. QED
      BY <3>5 DEF s, u, x
  <2>6. QED
    BY <2>2, <2>5
<1>9. QED
  BY <1>7, <1>8

-----------------------------------------------------------------------------
(* The folds of the model as chains of states.                             *)

\* Moving a candidate.
LEMMA MoveIsChain ==
  ASSUME NEW w, NEW bytes, NEW bits \in Nat
  PROVE  \E chain : /\ chain[0] = [reader |-> NewReader(bytes), writer |-> w]
                    /\ \A i \in 1 .. (bits + WordBits - 1) \div WordBits :
                         chain[i] = MovePiece(bits, chain[i - 1], i)
                    /\ AppendCandidate(w, bytes, bits)
                         = chain[(bits + WordBits - 1) \div WordBits].writer
<1> DEFINE env == [fold |-> "pieces", bits |-> bits]
           seq == [i \in 1 .. (bits + WordBits - 1) \div WordBits |-> i]
           base == [reader |-> NewReader(bytes), writer |-> w]
           it == CHOOSE f : f = [s \in SUBSET DOMAIN seq |->
                    IF s = {} THEN base
                    ELSE MovePiece(bits, f[s \ {Max(s)}], seq[Max(s)])]
           n == (bits + WordBits - 1) \div WordBits
<1>1. \A a, x : Step(env, a, x) = MovePiece(bits, a, x)
  BY DEF Step
<1>2. \A s : LastIn(env, s) = Max(s)
  BY DEF LastIn
<1>3. n \in Nat /\ DOMAIN seq = 1 .. n /\ \A i \in 1 .. n : seq[i] = i
  BY DEF WordBits
<1>4. AppendCandidate(w, bytes, bits) = it[DOMAIN seq].writer
  BY Zenon DEF AppendCandidate, MovePiece, PieceBits, FoldLeft, MapThenFoldSet
<1>5. env.fold # "value"
  BY DEF env
<1> HIDE DEF env, seq, base, n
<1>6. \A f : Unfolds(f, env, base, seq) <=> f = [s \in SUBSET DOMAIN seq |->
                    IF s = {} THEN base
                    ELSE MovePiece(bits, f[s \ {Max(s)}], seq[Max(s)])]
  <2>1. TAKE f
  <2>2. [s \in SUBSET DOMAIN seq |->
           IF s = {} THEN base
           ELSE Step(env, f[s \ {LastIn(env, s)}], seq[LastIn(env, s)])]
        = [s \in SUBSET DOMAIN seq |->
                    IF s = {} THEN base
                    ELSE MovePiece(bits, f[s \ {Max(s)}], seq[Max(s)])]
    BY <1>1, <1>2
  <2>3. QED
    BY <2>2, Zenon DEF Unfolds
<1>7. \E f : Unfolds(f, env, base, seq)
  BY <1>3, FoldExists, Zenon
<1>8. Unfolds(it, env, base, seq)
  BY <1>6, <1>7, Zenon
<1> HIDE DEF it
<1>9. PICK chain : Chain(chain, env, base, seq, n) /\ chain[n] = it[DOMAIN seq]
  BY <1>3, <1>5, <1>8, FoldIsChain
<1>10. \A i \in 1 .. n : chain[i] = MovePiece(bits, chain[i - 1], i)
  BY <1>1, <1>3, <1>9, Zenon DEF Chain
<1>11. QED
  BY <1>4, <1>9, <1>10, Zenon DEF Chain, base, n

\* Reading a Huffman code.
LEMMA CodeIsChain ==
  ASSUME NEW t \in AllTypes, NEW reader, reader.ok
  PROVE  \E chain : /\ chain[0] = [reader |-> reader, bits |-> <<>>, symbol |-> NoSymbol]
                    /\ \A i \in 1 .. LongestCode(t) : chain[i] = ExtendCode(t, chain[i - 1])
                    /\ HuffmanRead(t, reader) = IfFound(chain[LongestCode(t)])
<1> DEFINE env == [fold |-> "code", type |-> t]
           seq == [i \in 1 .. LongestCode(t) |-> i]
           base == [reader |-> reader, bits |-> <<>>, symbol |-> NoSymbol]
           it == CHOOSE f : f = [s \in SUBSET DOMAIN seq |->
                    IF s = {} THEN base
                    ELSE ExtendCode(t, f[s \ {Max(s)}])]
           n == LongestCode(t)
<1>1. \A a, x : Step(env, a, x) = ExtendCode(t, a)
  BY DEF Step
<1>2. \A s : LastIn(env, s) = Max(s)
  BY DEF LastIn
<1>3. n \in Nat /\ DOMAIN seq = 1 .. n
  BY DEF LongestCode
<1>4. HuffmanRead(t, reader) = IfFound(it[DOMAIN seq])
  BY Zenon DEF HuffmanRead, ExtendCode, FoldLeft, MapThenFoldSet
<1>5. env.fold # "value"
  BY DEF env
<1> HIDE DEF env, seq, base, n
<1>6. \A f : Unfolds(f, env, base, seq) <=> f = [s \in SUBSET DOMAIN seq |->
                    IF s = {} THEN base
                    ELSE ExtendCode(t, f[s \ {Max(s)}])]
  <2>1. TAKE f
  <2>2. [s \in SUBSET DOMAIN seq |->
           IF s = {} THEN base
           ELSE Step(env, f[s \ {LastIn(env, s)}], seq[LastIn(env, s)])]
        = [s \in SUBSET DOMAIN seq |->
                    IF s = {} THEN base
                    ELSE ExtendCode(t, f[s \ {Max(s)}])]
    BY <1>1, <1>2
  <2>3. QED
    BY <2>2, Zenon DEF Unfolds
<1>7. \E f : Unfolds(f, env, base, seq)
  BY <1>3, FoldExists, Zenon
<1>8. Unfolds(it, env, base, seq)
  BY <1>6, <1>7, Zenon
<1> HIDE DEF it
<1>9. PICK chain : Chain(chain, env, base, seq, n) /\ chain[n] = it[DOMAIN seq]
  BY <1>3, <1>5, <1>8, FoldIsChain
<1>10. \A i \in 1 .. n : chain[i] = ExtendCode(t, chain[i - 1])
  BY <1>1, <1>3, <1>9, Zenon DEF Chain
<1>11. QED
  BY <1>4, <1>9, <1>10, Zenon DEF Chain, base, n

\* Writing the residuals.
ResidualsChain(chain, w, t, size, p, block) ==
  /\ chain[0] = w
  /\ \A i \in 1 .. size * size :
       chain[i] = HuffmanWrite(chain[i - 1], t,
         Residuals(block.luma, size, p.luma, Levels(t))[Raster(size)[i]])
  /\ EncodeResiduals(w, t, size, p, block) = chain[size * size]

LEMMA ResidualsIsChain ==
  ASSUME NEW w, NEW t, NEW size \in {2, 4}, NEW p, NEW block
  PROVE  \E chain : ResidualsChain(chain, w, t, size, p, block)
<1> DEFINE env == [fold |-> "residuals", type |-> t,
             residuals |-> Residuals(block.luma, size, p.luma, Levels(t))]
           seq == Raster(size)
           base == w
           it == CHOOSE f : f = [s \in SUBSET DOMAIN seq |->
                    IF s = {} THEN base
                    ELSE HuffmanWrite(f[s \ {Max(s)}], t,
                      Residuals(block.luma, size, p.luma, Levels(t))[seq[Max(s)]])]
           n == size * size
<1>1. \A a, x : Step(env, a, x)
        = HuffmanWrite(a, t, Residuals(block.luma, size, p.luma, Levels(t))[x])
  BY DEF Step
<1>2. \A s : LastIn(env, s) = Max(s)
  BY DEF LastIn
<1>3. n \in Nat /\ DOMAIN seq = 1 .. n /\ \A i \in 1 .. n : seq[i] = Raster(size)[i]
  BY DEF Raster
<1>4. EncodeResiduals(w, t, size, p, block) = it[DOMAIN seq]
  BY Zenon DEF EncodeResiduals, FoldLeft, MapThenFoldSet
<1>5. env.fold # "value"
  BY DEF env
<1> HIDE DEF env, seq, base, n
<1>6. \A f : Unfolds(f, env, base, seq) <=> f = [s \in SUBSET DOMAIN seq |->
                    IF s = {} THEN base
                    ELSE HuffmanWrite(f[s \ {Max(s)}], t,
                      Residuals(block.luma, size, p.luma, Levels(t))[seq[Max(s)]])]
  <2>1. TAKE f
  <2>2. [s \in SUBSET DOMAIN seq |->
           IF s = {} THEN base
           ELSE Step(env, f[s \ {LastIn(env, s)}], seq[LastIn(env, s)])]
        = [s \in SUBSET DOMAIN seq |->
                    IF s = {} THEN base
                    ELSE HuffmanWrite(f[s \ {Max(s)}], t,
                      Residuals(block.luma, size, p.luma, Levels(t))[seq[Max(s)]])]
    BY <1>1, <1>2
  <2>3. QED
    BY <2>2, Zenon DEF Unfolds
<1>7. \E f : Unfolds(f, env, base, seq)
  BY <1>3, FoldExists, Zenon
<1>8. Unfolds(it, env, base, seq)
  BY <1>6, <1>7, Zenon
<1> HIDE DEF it
<1>9. PICK chain : Chain(chain, env, base, seq, n) /\ chain[n] = it[DOMAIN seq]
  BY <1>3, <1>5, <1>8, FoldIsChain
<1>10. ASSUME NEW i \in 1 .. n
       PROVE  chain[i] = HuffmanWrite(chain[i - 1], t,
                           Residuals(block.luma, size, p.luma, Levels(t))[Raster(size)[i]])
  <2>1. chain[i] = Step(env, chain[i - 1], seq[i])
    BY <1>9, Zenon DEF Chain
  <2>2. seq[i] = Raster(size)[i]
    BY <1>3
  <2>3. QED
    BY <1>1, <2>1, <2>2, Zenon
<1>11. ResidualsChain(chain, w, t, size, p, block)
  BY <1>4, <1>9, <1>10, Zenon DEF Chain, ResidualsChain, base, n
<1>12. QED
  BY <1>11

\* Reading fields.
ValuesChain(chain, reader, count, bits) ==
  /\ chain[0] = [reader |-> reader, values |-> <<>>]
  /\ \A i \in 1 .. count : chain[i] = ReadValue(chain[i - 1], bits)
  /\ ReadFields(reader, count, bits) = chain[count]

LEMMA ValuesAreChain ==
  ASSUME NEW reader, NEW count \in Nat, NEW bits
  PROVE  \E chain : ValuesChain(chain, reader, count, bits)
<1> DEFINE env == [fold |-> "values", bits |-> bits]
           seq == [i \in 1 .. count |-> i]
           base == [reader |-> reader, values |-> <<>>]
           it == CHOOSE f : f = [s \in SUBSET DOMAIN seq |->
                    IF s = {} THEN base
                    ELSE ReadValue(f[s \ {Max(s)}], bits)]
           n == count
<1>1. \A a, x : Step(env, a, x) = ReadValue(a, bits)
  BY DEF Step
<1>2. \A s : LastIn(env, s) = Max(s)
  BY DEF LastIn
<1>3. n \in Nat /\ DOMAIN seq = 1 .. n
  OBVIOUS
<1>4. ReadFields(reader, count, bits) = it[DOMAIN seq]
  BY Zenon DEF ReadFields, ReadValue, FoldLeft, MapThenFoldSet
<1>5. env.fold # "value"
  BY DEF env
<1> HIDE DEF env, seq, base, n
<1>6. \A f : Unfolds(f, env, base, seq) <=> f = [s \in SUBSET DOMAIN seq |->
                    IF s = {} THEN base
                    ELSE ReadValue(f[s \ {Max(s)}], bits)]
  <2>1. TAKE f
  <2>2. [s \in SUBSET DOMAIN seq |->
           IF s = {} THEN base
           ELSE Step(env, f[s \ {LastIn(env, s)}], seq[LastIn(env, s)])]
        = [s \in SUBSET DOMAIN seq |->
                    IF s = {} THEN base
                    ELSE ReadValue(f[s \ {Max(s)}], bits)]
    BY <1>1, <1>2
  <2>3. QED
    BY <2>2, Zenon DEF Unfolds
<1>7. \E f : Unfolds(f, env, base, seq)
  BY <1>3, FoldExists, Zenon
<1>8. Unfolds(it, env, base, seq)
  BY <1>6, <1>7, Zenon
<1> HIDE DEF it
<1>9. PICK chain : Chain(chain, env, base, seq, n) /\ chain[n] = it[DOMAIN seq]
  BY <1>3, <1>5, <1>8, FoldIsChain
<1>10. \A i \in 1 .. n : chain[i] = ReadValue(chain[i - 1], bits)
  BY <1>1, <1>3, <1>9, Zenon DEF Chain
<1>11. ValuesChain(chain, reader, count, bits)
  BY <1>4, <1>9, <1>10, Zenon DEF Chain, ValuesChain, base, n
<1>12. QED
  BY <1>11

\* Reading residuals.
SymbolsChain(chain, reader, t, size, p, u, v) ==
  /\ chain[0] = [reader |-> reader, values |-> <<>>]
  /\ \A i \in 1 .. size * size : chain[i] = ReadSymbol(t, chain[i - 1])
  /\ DecodeResiduals(reader, t, size, p, u, v)
       = DecodedData(t, size, chain[size * size].reader, p,
           DecodedLuma(AsBlock(chain[size * size].values, size), size, p.luma, Levels(t)), u, v)

LEMMA SymbolsAreChain ==
  ASSUME NEW reader, NEW t, NEW size \in {2, 4}, NEW p, NEW u, NEW v
  PROVE  \E chain : SymbolsChain(chain, reader, t, size, p, u, v)
<1> DEFINE env == [fold |-> "symbols", type |-> t]
           seq == Raster(size)
           base == [reader |-> reader, values |-> <<>>]
           it == CHOOSE f : f = [s \in SUBSET DOMAIN seq |->
                    IF s = {} THEN base
                    ELSE ReadSymbol(t, f[s \ {Max(s)}])]
           n == size * size
<1>1. \A a, x : Step(env, a, x) = ReadSymbol(t, a)
  BY DEF Step
<1>2. \A s : LastIn(env, s) = Max(s)
  BY DEF LastIn
<1>3. n \in Nat /\ DOMAIN seq = 1 .. n
  BY DEF Raster
<1>4. DecodeResiduals(reader, t, size, p, u, v)
                         = DecodedData(t, size, it[DOMAIN seq].reader, p,
                             DecodedLuma(AsBlock(it[DOMAIN seq].values, size), size, p.luma,
                               Levels(t)), u, v)
  BY Zenon DEF DecodeResiduals, ReadSymbol, FoldLeft, MapThenFoldSet
<1>5. env.fold # "value"
  BY DEF env
<1> HIDE DEF env, seq, base, n
<1>6. \A f : Unfolds(f, env, base, seq) <=> f = [s \in SUBSET DOMAIN seq |->
                    IF s = {} THEN base
                    ELSE ReadSymbol(t, f[s \ {Max(s)}])]
  <2>1. TAKE f
  <2>2. [s \in SUBSET DOMAIN seq |->
           IF s = {} THEN base
           ELSE Step(env, f[s \ {LastIn(env, s)}], seq[LastIn(env, s)])]
        = [s \in SUBSET DOMAIN seq |->
                    IF s = {} THEN base
                    ELSE ReadSymbol(t, f[s \ {Max(s)}])]
    BY <1>1, <1>2
  <2>3. QED
    BY <2>2, Zenon DEF Unfolds
<1>7. \E f : Unfolds(f, env, base, seq)
  BY <1>3, FoldExists, Zenon
<1>8. Unfolds(it, env, base, seq)
  BY <1>6, <1>7, Zenon
<1> HIDE DEF it
<1>9. PICK chain : Chain(chain, env, base, seq, n) /\ chain[n] = it[DOMAIN seq]
  BY <1>3, <1>5, <1>8, FoldIsChain
<1>10. \A i \in 1 .. n : chain[i] = ReadSymbol(t, chain[i - 1])
  BY <1>1, <1>3, <1>9, Zenon DEF Chain
<1>11. SymbolsChain(chain, reader, t, size, p, u, v)
  BY <1>4, <1>9, <1>10, Zenon DEF Chain, SymbolsChain, base, n
<1>12. QED
  BY <1>11

\* Reading a split.
SplitChain(chain, state, reader) ==
  /\ chain[0] = [state EXCEPT !.reader = reader, !.codes = <<>>]
  /\ \A i \in 1 .. 4 : chain[i] = NextChild(chain[i - 1])
  /\ ReadSplit(state, reader)
       = [chain[4] EXCEPT !.codes = Append(state.codes, SplitCode(chain[4].codes))]

LEMMA ReadSplitIsChain ==
  ASSUME NEW state, NEW reader
  PROVE  \E chain : SplitChain(chain, state, reader)
<1> DEFINE env == [fold |-> "split"]
           seq == <<1, 2, 3, 4>>
           base == [state EXCEPT !.reader = reader, !.codes = <<>>]
           it == CHOOSE f : f = [s \in SUBSET DOMAIN seq |->
                    IF s = {} THEN base
                    ELSE NextChild(f[s \ {Max(s)}])]
           n == 4
<1>1. \A a, x : Step(env, a, x) = NextChild(a)
  BY DEF Step
<1>2. \A s : LastIn(env, s) = Max(s)
  BY DEF LastIn
<1>3. n \in Nat /\ DOMAIN seq = 1 .. n
  OBVIOUS
<1>4. ReadSplit(state, reader)
                         = [it[DOMAIN seq] EXCEPT !.codes =
                            Append(state.codes, SplitCode(it[DOMAIN seq].codes))]
  BY Zenon DEF ReadSplit, NextChild, FoldLeft, MapThenFoldSet
<1>5. env.fold # "value"
  BY DEF env
<1> HIDE DEF env, seq, base, n
<1>6. \A f : Unfolds(f, env, base, seq) <=> f = [s \in SUBSET DOMAIN seq |->
                    IF s = {} THEN base
                    ELSE NextChild(f[s \ {Max(s)}])]
  <2>1. TAKE f
  <2>2. [s \in SUBSET DOMAIN seq |->
           IF s = {} THEN base
           ELSE Step(env, f[s \ {LastIn(env, s)}], seq[LastIn(env, s)])]
        = [s \in SUBSET DOMAIN seq |->
                    IF s = {} THEN base
                    ELSE NextChild(f[s \ {Max(s)}])]
    BY <1>1, <1>2
  <2>3. QED
    BY <2>2, Zenon DEF Unfolds
<1>7. \E f : Unfolds(f, env, base, seq)
  BY <1>3, FoldExists, Zenon
<1>8. Unfolds(it, env, base, seq)
  BY <1>6, <1>7, Zenon
<1> HIDE DEF it
<1>9. PICK chain : Chain(chain, env, base, seq, n) /\ chain[n] = it[DOMAIN seq]
  BY <1>3, <1>5, <1>8, FoldIsChain
<1>10. \A i \in 1 .. n : chain[i] = NextChild(chain[i - 1])
  BY <1>1, <1>3, <1>9, Zenon DEF Chain
<1>11. SplitChain(chain, state, reader)
  BY <1>4, <1>9, <1>10, Zenon DEF Chain, SplitChain, base, n
<1>12. QED
  BY <1>11

\* Reading a frame.
FrameChain(chain, bytes, blocks) ==
  /\ chain[0] = [reader |-> NewReader(bytes), predictor |-> NewPredictor, codes |-> <<>>]
  /\ \A i \in 1 .. blocks : chain[i] = NextBlock(chain[i - 1])
  /\ Verified(bytes, blocks)
       = [ok |-> chain[blocks].reader.ok /\ Framed(chain[blocks].reader),
          codes |-> chain[blocks].codes,
          predictor |-> chain[blocks].predictor, used |-> chain[blocks].reader.total]

LEMMA VerifiedIsChain ==
  ASSUME NEW bytes, NEW blocks \in Nat
  PROVE  \E chain : FrameChain(chain, bytes, blocks)
<1> DEFINE env == [fold |-> "frame"]
           seq == [i \in 1 .. blocks |-> i]
           base == [reader |-> NewReader(bytes), predictor |-> NewPredictor, codes |-> <<>>]
           it == CHOOSE f : f = [s \in SUBSET DOMAIN seq |->
                    IF s = {} THEN base
                    ELSE NextBlock(f[s \ {Max(s)}])]
           n == blocks
<1>1. \A a, x : Step(env, a, x) = NextBlock(a)
  BY DEF Step
<1>2. \A s : LastIn(env, s) = Max(s)
  BY DEF LastIn
<1>3. n \in Nat /\ DOMAIN seq = 1 .. n
  OBVIOUS
<1>4. Verified(bytes, blocks)
                         = [ok |-> it[DOMAIN seq].reader.ok /\ Framed(it[DOMAIN seq].reader),
                            codes |-> it[DOMAIN seq].codes,
                            predictor |-> it[DOMAIN seq].predictor,
                            used |-> it[DOMAIN seq].reader.total]
  BY Zenon DEF Verified, NextBlock, FoldLeft, MapThenFoldSet
<1>5. env.fold # "value"
  BY DEF env
<1> HIDE DEF env, seq, base, n
<1>6. \A f : Unfolds(f, env, base, seq) <=> f = [s \in SUBSET DOMAIN seq |->
                    IF s = {} THEN base
                    ELSE NextBlock(f[s \ {Max(s)}])]
  <2>1. TAKE f
  <2>2. [s \in SUBSET DOMAIN seq |->
           IF s = {} THEN base
           ELSE Step(env, f[s \ {LastIn(env, s)}], seq[LastIn(env, s)])]
        = [s \in SUBSET DOMAIN seq |->
                    IF s = {} THEN base
                    ELSE NextBlock(f[s \ {Max(s)}])]
    BY <1>1, <1>2
  <2>3. QED
    BY <2>2, Zenon DEF Unfolds
<1>7. \E f : Unfolds(f, env, base, seq)
  BY <1>3, FoldExists, Zenon
<1>8. Unfolds(it, env, base, seq)
  BY <1>6, <1>7, Zenon
<1> HIDE DEF it
<1>9. PICK chain : Chain(chain, env, base, seq, n) /\ chain[n] = it[DOMAIN seq]
  BY <1>3, <1>5, <1>8, FoldIsChain
<1>10. \A i \in 1 .. n : chain[i] = NextBlock(chain[i - 1])
  BY <1>1, <1>3, <1>9, Zenon DEF Chain
<1>11. FrameChain(chain, bytes, blocks)
  BY <1>4, <1>9, <1>10, Zenon DEF Chain, FrameChain, base, n
<1>12. QED
  BY <1>11

-----------------------------------------------------------------------------
(* Induction along an interval.                                            *)

LEMMA Climbs ==
  ASSUME NEW n \in Nat, NEW G, 0 \in G, \A i \in 1 .. n : i - 1 \in G => i \in G
  PROVE  \A i \in 0 .. n : i \in G
<1> DEFINE Bad == {i \in 0 .. n : i \notin G}
<1>1. SUFFICES ASSUME Bad # {} PROVE FALSE
  OBVIOUS
<1>2. Bad \in SUBSET Nat
  OBVIOUS
<1> HIDE DEF Bad
<1>3. PICK m \in Bad : \A i \in Bad : m <= i
  BY <1>1, <1>2, LeastNat
<1>4. m \in 0 .. n /\ m \notin G
  BY <1>3 DEF Bad
<1>5. m \in 1 .. n
  BY <1>4
<1>6. m - 1 \in 0 .. n /\ ~ (m <= m - 1)
  BY <1>5
<1>7. m - 1 \in G
  BY <1>3, <1>6 DEF Bad
<1>8. QED
  BY <1>4, <1>5, <1>7

-----------------------------------------------------------------------------
(* Writing fields, and moving a candidate.                                 *)

LEMMA NewWriterIs ==
  /\ NewWriter = WriterOf(<<>>)
  /\ \A f : Payload(f) => NewReader(WholeBytes(f)) = ReaderAt(f, 0)
<1> DEFINE e == <<>>
<1>1. e \in Seq(Bit) /\ Len(e) = 0 /\ 0 \in 0 .. Len(e) /\ Eights(0) = 0
  BY DEF Eights
<1>2. Part(e, 0, 0) = <<>>
  <2> HIDE DEF e
  <2>1. QED
    BY <1>1, EmptyPart
<1>3. WholeBytes(e) = <<>> /\ Remainder(e) = <<>>
  <2>1. 8 * 0 = 0
    OBVIOUS
  <2> HIDE DEF e
  <2>2. Remainder(e) = <<>>
    BY <1>1, <1>2, <2>1 DEF Remainder
  <2>3. WholeBytes(e) = [i \in 1 .. 0 |-> Part(e, 8 * (i - 1), 8 * i)]
    BY <1>1 DEF WholeBytes
  <2>4. QED
    BY <2>2, <2>3
<1>4. NewWriter = WriterOf(e)
  <2> HIDE DEF e
  <2>1. QED
    BY <1>1, <1>3 DEF NewWriter, WriterOf
<1>5. ASSUME NEW f, Payload(f)
      PROVE  NewReader(WholeBytes(f)) = ReaderAt(f, 0)
  <2>1. BytesFor(0) = 0 /\ 8 * 0 = 0
    BY DEF BytesFor
  <2>2. f \in Seq(Bit) /\ 0 \in 0 .. Len(f)
    BY <1>5 DEF Payload
  <2>3. Part(f, 0, 0) = <<>>
    BY <2>2, EmptyPart
  <2>4. QED
    BY <2>1, <2>3 DEF NewReader, ReaderAt, ReaderWith
<1>6. QED
  BY <1>4, <1>5

LEMMA WritesAlong ==
  ASSUME NEW b \in Seq(Bit), NEW d \in Seq(Seq(Bit)), NEW chain,
         chain[0] = WriterOf(b), \A i \in 1 .. Len(d) : chain[i] = Write(chain[i - 1], d[i])
  PROVE  /\ FlattenSeq(d) \in Seq(Bit) /\ b \o FlattenSeq(d) \in Seq(Bit)
         /\ chain[Len(d)] = WriterOf(b \o FlattenSeq(d))
<1> DEFINE n == Len(d)
<1>1. n \in Nat /\ DOMAIN d = 1 .. n /\ \A i \in 1 .. n : d[i] \in Seq(Bit)
  <2> DEFINE T == Seq(Bit)
  <2>1. d \in Seq(T)
    OBVIOUS
  <2> HIDE DEF T
  <2>2. n \in Nat /\ DOMAIN d = 1 .. n /\ \A i \in 1 .. n : d[i] \in T
    BY <2>1
  <2>3. QED
    BY <2>2 DEF T
<1>2. PICK g : Joins(g, d, Bit)
  BY JoinExists
<1>3. g \in [0 .. n -> Seq(Bit)] /\ g[0] = <<>> /\ \A i \in 1 .. n : g[i] = g[i - 1] \o d[i]
  BY <1>2 DEF Joins
<1>4. FlattenSeq(d) = g[n]
  BY <1>2, FlattenJoins
<1> HIDE DEF n
<1>5. chain[0] = WriterOf(b) /\ \A i \in 1 .. n : chain[i] = Write(chain[i - 1], d[i])
  BY DEF n
<1> DEFINE G == {i \in 0 .. n : b \o g[i] \in Seq(Bit) /\ chain[i] = WriterOf(b \o g[i])}
<1>6. 0 \in G
  <2>1. 0 \in 0 .. n /\ b \o <<>> = b
    BY <1>1
  <2>2. QED
    BY <1>3, <1>5, <2>1
<1>7. ASSUME NEW i \in 1 .. n, i - 1 \in G
      PROVE  i \in G
  <2>1. i \in 0 .. n /\ i - 1 \in 0 .. n
    BY <1>1
  <2>2. g[i - 1] \in Seq(Bit) /\ d[i] \in Seq(Bit) /\ g[i] = g[i - 1] \o d[i]
    BY <1>1, <1>3, <2>1
  <2> DEFINE x == b \o g[i - 1]
  <2>3. x \in Seq(Bit) /\ chain[i - 1] = WriterOf(x)
    BY <1>7
  <2>4. x \o d[i] = b \o g[i]
    <3> DEFINE s == g[i - 1]
               t == d[i]
    <3>1. s \in Seq(Bit) /\ t \in Seq(Bit) /\ g[i] = s \o t
      BY <2>2
    <3> HIDE DEF s, t
    <3>2. (b \o s) \o t = b \o (s \o t)
      BY <3>1, BitsAssociate, Zenon
    <3>3. (b \o s) \o t = b \o g[i]
      BY <3>1, <3>2
    <3>4. QED
      BY <3>3, Zenon DEF s, t
  <2> HIDE DEF x
  <2>5. x \o d[i] \in Seq(Bit) /\ Write(WriterOf(x), d[i]) = WriterOf(x \o d[i])
    BY <2>2, <2>3, WriteMore
  <2>6. chain[i] = Write(chain[i - 1], d[i])
    BY <1>5
  <2>7. QED
    BY <2>1, <2>3, <2>4, <2>5, <2>6
<1>8. n \in G
  <2>1. 0 \in G /\ n \in Nat /\ \A i \in 1 .. n : i - 1 \in G => i \in G
    BY <1>1, <1>6, <1>7, Zenon
  <2> HIDE DEF G
  <2>2. \A i \in 0 .. n : i \in G
    BY <2>1, Climbs, Zenon
  <2>3. n \in 0 .. n
    BY <2>1
  <2>4. QED
    BY <2>2, <2>3
<1>9. n \in 0 .. n /\ g[n] \in Seq(Bit)
  BY <1>1, <1>3
<1>10. b \o g[n] \in Seq(Bit) /\ chain[n] = WriterOf(b \o g[n])
  BY <1>8
<1>11. QED
  BY <1>4, <1>9, <1>10 DEF n

LEMMA WritesFields ==
  ASSUME NEW b \in Seq(Bit), NEW d \in Seq(Seq(Bit))
  PROVE  /\ FlattenSeq(d) \in Seq(Bit) /\ b \o FlattenSeq(d) \in Seq(Bit)
         /\ WriteAll(WriterOf(b), d) = WriterOf(b \o FlattenSeq(d))
<1> DEFINE n == Len(d)
<1>1. n \in Nat /\ DOMAIN d = 1 .. n
  <2> DEFINE T == Seq(Bit)
  <2>1. d \in Seq(T)
    OBVIOUS
  <2> HIDE DEF T
  <2>2. QED
    BY <2>1
<1> HIDE DEF n
<1>2. PICK chain : Writes(chain, WriterOf(b), d, n)
  BY <1>1, WriteAllIsChain, Zenon
<1>3. /\ chain[0] = WriterOf(b) /\ WriteAll(WriterOf(b), d) = chain[n]
      /\ \A i \in 1 .. n : chain[i] = Write(chain[i - 1], d[i])
  BY <1>2, Zenon DEF Writes
<1>4. /\ FlattenSeq(d) \in Seq(Bit) /\ b \o FlattenSeq(d) \in Seq(Bit)
      /\ chain[n] = WriterOf(b \o FlattenSeq(d))
  BY <1>3, WritesAlong DEF n
<1>5. QED
  BY <1>3, <1>4

\* A candidate's bits go behind what the frame has, wherever that is.
LEMMA CandidateMoves ==
  ASSUME NEW b \in Seq(Bit), NEW c \in Seq(Bit)
  PROVE  /\ b \o c \in Seq(Bit)
         /\ AppendCandidate(WriterOf(b), FlushZero(WriterOf(c)).bytes, Len(c)) = WriterOf(b \o c)
<1> DEFINE n == Len(c)
           f == Padded(c)
           p == (n + WordBits - 1) \div WordBits
           at(i) == IF i = p THEN n ELSE 32 * i
<1>1. n \in Nat /\ p \in Nat /\ n <= 32 * p /\ (n = 0 => p = 0) /\ (p > 0 => 32 * (p - 1) < n)
  <2>1. n \in Nat
    OBVIOUS
  <2>2. p = (n + 31) \div 32
    BY <2>1 DEF WordBits
  <2> HIDE DEF n, p
  <2>3. QED
    BY <2>1, <2>2
<1>2. /\ f \in Seq(Bit) /\ Payload(f) /\ Ahead(f, 0, c) /\ Padding(c) \in Seq(Bit)
      /\ f = c \o Padding(c)
  BY PaddedIs DEF Padded
<1>3. FlushZero(WriterOf(c)).bytes = WholeBytes(f)
  BY FlushIs
<1> HIDE DEF n, f, p
<1>4. PICK chain : /\ chain[0] = [reader |-> NewReader(WholeBytes(f)), writer |-> WriterOf(b)]
                   /\ \A i \in 1 .. p : chain[i] = MovePiece(n, chain[i - 1], i)
                   /\ AppendCandidate(WriterOf(b), WholeBytes(f), n) = chain[p].writer
  BY <1>1, MoveIsChain DEF p
<1>5. n <= Len(f) /\ Len(f) \in Nat
  <2>1. 0 + Len(c) <= Len(f) /\ Len(f) \in Nat
    BY <1>2, AheadIs
  <2>2. QED
    BY <1>1, <2>1 DEF n
<1>6. ASSUME NEW i \in 0 .. p
      PROVE  at(i) \in Nat /\ at(i) <= n /\ at(i) \in 0 .. n /\ (i # p => at(i) = 32 * i)
  BY <1>1
<1>7. ASSUME NEW i \in 1 .. p
      PROVE  /\ i \in 0 .. p /\ i - 1 \in 0 .. p
             /\ PieceBits(n, i) \in Nat /\ at(i - 1) + PieceBits(n, i) = at(i)
             /\ at(i - 1) <= at(i)
  <2>1. PieceBits(n, i) = IF i = p THEN n - 32 * (i - 1) ELSE 32
    BY Zenon DEF PieceBits, p, WordBits
  <2>2. QED
    BY <1>1, <2>1
<1> DEFINE S(i) == [reader |-> ReaderAt(f, at(i)), writer |-> WriterOf(b \o Part(c, 0, at(i)))]
           G == {i \in 0 .. p : b \o Part(c, 0, at(i)) \in Seq(Bit) /\ chain[i] = S(i)}
<1>8. 0 \in G
  <2>1. at(0) = 0 /\ 0 \in 0 .. p
    BY <1>1
  <2>2. Part(c, 0, 0) = <<>> /\ b \o <<>> = b
    <3>1. 0 \in 0 .. Len(c)
      BY <1>1 DEF n
    <3>2. QED
      BY <3>1, EmptyPart
  <2>3. NewReader(WholeBytes(f)) = ReaderAt(f, 0)
    BY <1>2, NewWriterIs
  <2> HIDE DEF at
  <2>4. QED
    BY <1>4, <2>1, <2>2, <2>3
<1>9. ASSUME NEW i \in 1 .. p, i - 1 \in G
      PROVE  i \in G
  <2> DEFINE k == at(i - 1)
             m == at(i)
             l == PieceBits(n, i)
             x == b \o Part(c, 0, k)
             y == Part(c, k, m)
             z == 0
  <2>1. /\ i \in 0 .. p /\ i - 1 \in 0 .. p /\ l \in Nat /\ k + l = m /\ k <= m
        /\ k \in Nat /\ m \in Nat /\ m <= n
    <3> HIDE DEF at
    <3>1. QED
      BY <1>6, <1>7
  <2>2. x \in Seq(Bit) /\ chain[i - 1] = [reader |-> ReaderAt(f, k), writer |-> WriterOf(x)]
    BY <1>9
  <2>3. chain[i] = MovePiece(n, chain[i - 1], i)
    BY <1>4
  <2> HIDE DEF k, m, l
  <2>4. /\ k \in 0 .. Len(f) /\ k + l <= Len(f) /\ k \in z .. Len(c) /\ m \in k .. Len(c)
        /\ z \in 0 .. Len(c) /\ k \in 0 .. Len(c)
    BY <1>1, <1>5, <2>1 DEF n
  <2> HIDE DEF z
  <2>5. Read(ReaderAt(f, k), l) = [field |-> Part(f, k, m), reader |-> ReaderAt(f, m)]
    BY <1>2, <2>1, <2>4, ReadPart
  <2>6. Part(f, k, m) = y
    BY <1>2, <2>4, PartOfLeft
  <2>7. y \in Seq(Bit) /\ Part(c, z, k) \in Seq(Bit)
    BY <2>4, PartBits
  <2>8. Part(c, z, k) \o y = Part(c, z, m)
    BY <2>4, PartsJoined
  <2>9. x \o y = b \o Part(c, z, m)
    <3>1. x = b \o Part(c, z, k)
      BY DEF z
    <3> HIDE DEF x, y
    <3>2. (b \o Part(c, z, k)) \o y = b \o (Part(c, z, k) \o y)
      BY <2>7, BitsAssociate, Zenon
    <3>3. QED
      BY <2>8, <3>1, <3>2
  <2> HIDE DEF x, y
  <2>10. x \o y \in Seq(Bit) /\ Write(WriterOf(x), y) = WriterOf(x \o y)
    BY <2>2, <2>7, WriteMore
  <2>11. MovePiece(n, chain[i - 1], i) = [reader |-> ReaderAt(f, m), writer |-> WriterOf(x \o y)]
    <3> DEFINE st == chain[i - 1]
    <3>1. st.reader = ReaderAt(f, k) /\ st.writer = WriterOf(x)
      BY <2>2
    <3>2. MovePiece(n, st, i) = [reader |-> Read(st.reader, l).reader,
                                 writer |-> Write(st.writer, Read(st.reader, l).field)]
      BY Zenon DEF MovePiece, l
    <3> HIDE DEF st
    <3>3. Read(st.reader, l).reader = ReaderAt(f, m) /\ Read(st.reader, l).field = y
      BY <2>5, <2>6, <3>1
    <3>4. QED
      BY <2>10, <3>1, <3>2, <3>3, Zenon DEF st
  <2>12. QED
    BY <2>1, <2>3, <2>9, <2>10, <2>11 DEF m, z
<1>10. p \in G
  <2>1. 0 \in G /\ p \in Nat /\ \A i \in 1 .. p : i - 1 \in G => i \in G
    BY <1>1, <1>8, <1>9, Zenon
  <2> HIDE DEF G
  <2>2. \A i \in 0 .. p : i \in G
    BY <2>1, Climbs, Zenon
  <2>3. p \in 0 .. p
    BY <2>1
  <2>4. QED
    BY <2>2, <2>3
<1>11. chain[p].writer = WriterOf(b \o Part(c, 0, n)) /\ b \o Part(c, 0, n) \in Seq(Bit)
  <2>1. at(p) = n
    OBVIOUS
  <2> HIDE DEF at
  <2>2. QED
    BY <1>10, <2>1
<1>12. Part(c, 0, n) = c
  BY WholePart DEF n
<1>13. QED
  BY <1>3, <1>4, <1>11, <1>12 DEF n

-----------------------------------------------------------------------------
(* Vectors: what is written is read back.                                  *)

LEMMA BitFields ==
  ASSUME NEW a \in Seq(Bit), NEW b \in Seq(Bit), NEW c \in Seq(Bit)
  PROVE  /\ TwoFields(a, b) = a \o b
         /\ ThreeFields(a, b, c) = a \o (b \o c)
<1>1. TwoFields(a, b) = a \o b
  BY FieldsJoin
<1>4. ThreeFields(a, b, c) = TwoFields(a, b) \o c
  BY ThreeFieldsJoin
<1>2. (a \o b) \o c = a \o (b \o c)
  BY BitsAssociate
<1>3. QED
  BY <1>1, <1>2, <1>4, Zenon

\* The bits of a vector: a family's code and the place in it.
MotionBody(t, size, v, body) ==
  /\ body \in Seq(Bit)
  /\ \A op \in Seq(Bit) :
       /\ <<op>> \o WriteMotion(t, size, v) \in Seq(Seq(Bit))
       /\ FlattenSeq(<<op>> \o WriteMotion(t, size, v)) = op \o body
  /\ \A f, k :
       Ahead(f, k, body) =>
         ReadMotion(t, size, ReaderAt(f, k))
           = [reader |-> ReaderAt(f, k + Len(body)), vector |-> v]

\* A reader that has not failed.
LEMMA ReaderIs ==
  \A f, k : ReaderAt(f, k).ok = TRUE /\ ReaderAt(f, k).total = k
            /\ ReaderAt(f, k).bytes = WholeBytes(f)
BY DEF ReaderAt, ReaderWith

LEMMA ReadFamilyIs ==
  ASSUME NEW t, NEW size, NEW f, NEW k, NEW m, NEW n, NEW a, NEW c,
         NEW family, NEW index, ValueOf(a) = family, ValueOf(c) = index,
         Read(ReaderAt(f, k), 2) = [field |-> a, reader |-> ReaderAt(f, m)],
         Read(ReaderAt(f, m), IndexBits(t, family)) = [field |-> c, reader |-> ReaderAt(f, n)],
         t # 7 /\ family = 3 => index < FarSize
  PROVE  ReadMotion(t, size, ReaderAt(f, k))
         = [reader |-> ReaderAt(f, n), vector |-> VectorOf(t, size, family, index)]
<1> DEFINE first == [field |-> a, reader |-> ReaderAt(f, m)]
           second == [field |-> c, reader |-> ReaderAt(f, n)]
<1>1. /\ first.field = a /\ first.reader = ReaderAt(f, m)
      /\ second.field = c /\ second.reader = ReaderAt(f, n)
  OBVIOUS
<1>2. Read(ReaderAt(f, k), 2) = first /\ Read(ReaderAt(f, m), IndexBits(t, family)) = second
  OBVIOUS
<1> HIDE DEF first, second
<1>3. ReadMotion(t, size, ReaderAt(f, k)) = ReadFamily(t, size, first)
  BY <1>2, Zenon DEF ReadMotion
<1>4. ReadFamily(t, size, first) = ReadIndex(t, size, family, second)
  BY <1>1, <1>2, Zenon DEF ReadFamily
<1>5. second.reader.ok
  BY <1>1, ReaderIs, Zenon
<1>6. ReadIndex(t, size, family, second)
      = [reader |-> second.reader, vector |-> VectorOf(t, size, family, index)]
  BY <1>1, <1>5, Zenon DEF ReadIndex, VectorOf
<1>7. QED
  BY <1>1, <1>3, <1>4, <1>6, Zenon

LEMMA HomeReads ==
  ASSUME NEW size
  PROVE  MotionBody(7, size, Stationary, Field(0, 2))
<1> DEFINE body == Field(0, 2)
<1>1. body \in Seq(Bit) /\ Len(body) = 2 /\ ValueOf(body) = 0
  <2>1. 0 \in Nat /\ 2 \in 0 .. 11 /\ 0 \in 0 .. 2 ^ 2 - 1
    OBVIOUS
  <2>2. QED
    BY <2>1, FieldIs, FieldValue
<1>2. WriteMotion(7, size, Stationary) = <<body>>
  BY HomeIs
<1> HIDE DEF body
<1>3. ASSUME NEW op \in Seq(Bit)
      PROVE  /\ <<op>> \o WriteMotion(7, size, Stationary) \in Seq(Seq(Bit))
             /\ FlattenSeq(<<op>> \o WriteMotion(7, size, Stationary)) = op \o body
  <2> DEFINE T == Seq(Bit)
  <2>1. op \in T /\ body \in T
    BY <1>1
  <2>2. TwoFields(op, body) = op \o body
    BY <1>1, BitFields
  <2>3. FlattenSeq(<<op>> \o <<body>>) = op \o body
    BY <2>2, Zenon DEF TwoFields
  <2> HIDE DEF T
  <2>4. <<op>> \o <<body>> \in Seq(T)
    BY <2>1
  <2>5. QED
    BY <1>2, <2>3, <2>4, Zenon DEF T
<1>4. ASSUME NEW f, NEW k, Ahead(f, k, body)
      PROVE  ReadMotion(7, size, ReaderAt(f, k))
             = [reader |-> ReaderAt(f, k + Len(body)), vector |-> Stationary]
  <2>1. Read(ReaderAt(f, k), 2) = [field |-> body, reader |-> ReaderAt(f, k + 2)]
    <3> DEFINE n == 2
    <3>1. n = Len(body)
      BY <1>1
    <3> HIDE DEF n
    <3>2. Read(ReaderAt(f, k), n) = [field |-> body, reader |-> ReaderAt(f, k + n)]
      BY <1>4, <3>1, AheadRead
    <3>3. QED
      BY <3>2 DEF n
  <2>2. Payload(f) /\ k + 2 \in 0 .. Len(f) /\ Len(f) \in Nat /\ k \in Nat
    BY <1>1, <1>4, AheadIs
  <2> DEFINE m == k + 2
  <2>3. m + 0 = m /\ m \in 0 .. Len(f) /\ 0 \in Nat /\ m + 0 <= Len(f)
    BY <2>2
  <2> HIDE DEF m
  <2>4. Read(ReaderAt(f, m), 0) = [field |-> Part(f, m, m), reader |-> ReaderAt(f, m)]
    BY <2>2, <2>3, ReadPart
  <2>5. IndexBits(7, 0) = 0
    BY IndexBitsAre
  <2>6. ReadMotion(7, size, ReaderAt(f, k))
        = [reader |-> ReaderAt(f, m), vector |-> VectorOf(7, size, 0, ValueOf(Part(f, m, m)))]
    <3> DEFINE c == Part(f, m, m)
               z == 0
    <3>1. /\ ValueOf(body) = z /\ z # 3
          /\ Read(ReaderAt(f, k), 2) = [field |-> body, reader |-> ReaderAt(f, m)]
          /\ Read(ReaderAt(f, m), IndexBits(7, z)) = [field |-> c, reader |-> ReaderAt(f, m)]
      BY <1>1, <2>1, <2>4, <2>5 DEF m
    <3> HIDE DEF c, z
    <3>2. ReadMotion(7, size, ReaderAt(f, k))
          = [reader |-> ReaderAt(f, m), vector |-> VectorOf(7, size, z, ValueOf(c))]
      BY <3>1, ReadFamilyIs
    <3>3. QED
      BY <3>2 DEF c, z
  <2>7. \A i : VectorOf(7, size, 0, i) = Stationary
    BY DEF VectorOf, VectorOf7
  <2>8. QED
    BY <1>1, <2>6, <2>7 DEF m
<1>5. QED
  BY <1>1, <1>3, <1>4, Zenon DEF MotionBody, body

LEMMA CodedReads ==
  ASSUME NEW t, NEW size, NEW v, NEW family, NEW index, Coded(t, size, v, family, index)
  PROVE  MotionBody(t, size, v, Field(family, 2) \o Field(index, IndexBits(t, family)))
<1> DEFINE l == IndexBits(t, family)
           a == Field(family, 2)
           c == Field(index, l)
           body == a \o c
<1>1. /\ a \in Seq(Bit) /\ Len(a) = 2 /\ c \in Seq(Bit) /\ Len(c) = l
      /\ l \in 0 .. 8 /\ index \in Nat /\ family \in 0 .. 3
  BY CodeIs
<1>2. /\ WriteMotion(t, size, v) = <<a, c>> /\ VectorOf(t, size, family, index) = v
      /\ t # 7 /\ family = 3 => index < FarSize
  BY Zenon DEF Coded, Code
<1>3. ValueOf(a) = family /\ ValueOf(c) = index
  <2>1. 2 \in 0 .. 11 /\ family \in 0 .. 2 ^ 2 - 1 /\ l \in 0 .. 11
    BY <1>1
  <2>2. index \in 0 .. 2 ^ l - 1
    BY DEF Coded, Indices
  <2> HIDE DEF l
  <2>3. QED
    BY <2>1, <2>2, FieldValue
<1> HIDE DEF l, a, c
<1>4. body \in Seq(Bit) /\ Len(body) = 2 + l
  BY <1>1, BitsJoin
<1>5. ASSUME NEW op \in Seq(Bit)
      PROVE  /\ <<op>> \o WriteMotion(t, size, v) \in Seq(Seq(Bit))
             /\ FlattenSeq(<<op>> \o WriteMotion(t, size, v)) = op \o body
  <2> DEFINE T == Seq(Bit)
  <2>1. op \in T /\ a \in T /\ c \in T
    BY <1>1
  <2>2. ThreeFields(op, a, c) = op \o (a \o c)
    BY <1>1, BitFields
  <2>4. FlattenSeq(<<op>> \o <<a, c>>) = op \o body
    BY <2>2, Zenon DEF ThreeFields
  <2> HIDE DEF T
  <2>5. <<op>> \o <<a, c>> \in Seq(T)
    BY <2>1
  <2> HIDE DEF body
  <2>6. QED
    BY <1>2, <2>4, <2>5, Zenon DEF T
<1>6. ASSUME NEW f, NEW k, Ahead(f, k, body)
      PROVE  ReadMotion(t, size, ReaderAt(f, k))
             = [reader |-> ReaderAt(f, k + Len(body)), vector |-> v]
  <2>1. Ahead(f, k, a) /\ Ahead(f, k + 2, c)
    BY <1>1, <1>6, AheadSplits
  <2>2. k \in Nat
    BY <2>1, AheadIs
  <2> DEFINE m == k + 2
             n == m + l
  <2>3. n = k + Len(body) /\ m = k + 2
    BY <1>1, <1>4, <2>2
  <2>4. Read(ReaderAt(f, k), 2) = [field |-> a, reader |-> ReaderAt(f, m)]
    <3> DEFINE j == 2
    <3>1. j = Len(a)
      BY <1>1
    <3> HIDE DEF j, m
    <3>2. Read(ReaderAt(f, k), j) = [field |-> a, reader |-> ReaderAt(f, k + j)]
      BY <2>1, <3>1, AheadRead
    <3>3. QED
      BY <2>3, <3>2 DEF j
  <2> HIDE DEF m, body
  <2>5. Read(ReaderAt(f, m), l) = [field |-> c, reader |-> ReaderAt(f, n)]
    BY <1>1, <2>1, <2>3, AheadRead
  <2> HIDE DEF n
  <2>6. ReadMotion(t, size, ReaderAt(f, k))
        = [reader |-> ReaderAt(f, n), vector |-> VectorOf(t, size, family, index)]
    BY <1>2, <1>3, <2>4, <2>5, ReadFamilyIs DEF l
  <2>7. QED
    BY <1>2, <2>3, <2>6
<1>7. MotionBody(t, size, v, body)
  <2> HIDE DEF body
  <2>1. QED
    BY <1>4, <1>5, <1>6, Zenon DEF MotionBody
<1>8. QED
  BY <1>7 DEF body, a, c, l

LEMMA MotionHasBody ==
  ASSUME NEW t, NEW size, NEW v \in LegalVectors(t, size)
  PROVE  \E body : MotionBody(t, size, v, body)
<1>1. CASE IsHome(t, v)
  BY <1>1, HomeReads DEF IsHome
<1>2. CASE ~ IsHome(t, v)
  BY <1>2, MotionIsCoded, CodedReads
<1>3. QED
  BY <1>1, <1>2

-----------------------------------------------------------------------------
(* Huffman codes: the reader, bit by bit, finds the symbol and no other.   *)

Residual(t) == 0 .. Levels(t) - 1

LEMMA TablesArePairs ==
  /\ DOMAIN LumaCodes32 = 1 .. 32 /\ DOMAIN LumaCodes64 = 1 .. 64
  /\ \A i \in 1 .. 32 : LumaCodes32[i] \in Nat \X Nat
  /\ \A i \in 1 .. 64 : LumaCodes64[i] \in Nat \X Nat
<1>1. DOMAIN LumaCodes32 = 1 .. 32 /\ \A i \in 1 .. 32 : LumaCodes32[i] \in Nat \X Nat
  BY DEF LumaCodes32
<1>2. DOMAIN LumaCodes64 = 1 .. 64
  BY DEF LumaCodes64
<1>3. \A i \in 1 .. 64 : LumaCodes64[i] \in Nat \X Nat
  BY DEF LumaCodes64
<1>4. QED
  BY <1>1, <1>2, <1>3

\* A Huffman table of so many codes, none longer than longest.
CodeTable(table, count, longest) ==
  /\ DOMAIN table = 1 .. count
  /\ \A i \in 1 .. count : table[i] \in Nat \X Nat
  /\ IsValidTable(table, longest)

LEMMA TableIs ==
  ASSUME NEW t \in AllTypes \ {7}
  PROVE  /\ CodeTable(HuffmanTable(t), Levels(t), LongestCode(t))
         /\ HuffmanSymbols(t) = SymbolsOf(HuffmanTable(t))
         /\ LongestCode(t) \in 1 .. 11 /\ Levels(t) \in {32, 64}
<1>1. CodeTable(LumaCodes32, 32, 9) /\ CodeTable(LumaCodes64, 64, 11)
  BY TablesArePairs, TablesAreValid DEF CodeTable
<1>2. CASE t = 17
  <2>1. /\ HuffmanTable(t) = LumaCodes32 /\ LongestCode(t) = 9 /\ Levels(t) = 32
        /\ HuffmanSymbols(t) = SymbolsOf(LumaCodes32)
    BY <1>2, Zenon DEF HuffmanTable, LongestCode, Levels, HuffmanSymbols, LumaSymbols32
  <2>2. QED
    BY <1>1, <2>1
<1>3. CASE t # 17
  <2>1. /\ HuffmanTable(t) = LumaCodes64 /\ LongestCode(t) = 11
        /\ HuffmanSymbols(t) = SymbolsOf(LumaCodes64)
    BY <1>3, Zenon DEF HuffmanTable, LongestCode, HuffmanSymbols, LumaSymbols64
  <2>2. Levels(t) = 64
    BY <1>3 DEF Levels
  <2>3. QED
    BY <1>1, <2>1, <2>2
<1>4. QED
  BY <1>2, <1>3

LEMMA CodeTableIs ==
  ASSUME NEW table, NEW count \in Nat, NEW longest \in 1 .. 11,
         CodeTable(table, count, longest), NEW i \in 1 .. count
  PROVE  /\ table[i] = <<table[i][1], table[i][2]>>
         /\ table[i][1] \in Nat /\ table[i][2] \in 1 .. longest
         /\ table[i][1] < 2 ^ table[i][2]
         /\ \A j \in 1 .. count :
              i # j /\ table[i][2] <= table[j][2] =>
                table[j][1] % 2 ^ table[i][2] # table[i][1]
<1>1. table[i] \in Nat \X Nat
  BY DEF CodeTable
<1>2. i \in DOMAIN table /\ DOMAIN table = 1 .. count
  BY DEF CodeTable
<1>3. IsValidTable(table, longest)
  BY DEF CodeTable
<1>4. table[i][2] \in 1 .. longest /\ table[i][1] < 2 ^ table[i][2]
  BY <1>2, <1>3, Zenon DEF IsValidTable
<1>5. ASSUME NEW j \in 1 .. count, i # j, table[i][2] <= table[j][2]
      PROVE  table[j][1] % 2 ^ table[i][2] # table[i][1]
  BY <1>2, <1>3, <1>5, Zenon DEF IsValidTable
<1>6. table[i] = <<table[i][1], table[i][2]>> /\ table[i][1] \in Nat
  BY <1>1
<1>7. QED
  BY <1>4, <1>5, <1>6

\* A number below a power of two is its own remainder.
LEMMA FitsItself ==
  ASSUME NEW n \in 0 .. 11, NEW v \in Nat, v < 2 ^ n
  PROVE  v % 2 ^ n = v
<1>1. PICK p : Powers(p)
  BY PowersOfTwo
<1>2. 2 ^ n = p[n] /\ p[n] \in Nat \ {0}
  BY <1>1 DEF Powers
<1> DEFINE q == 2 ^ n
<1>3. q \in Nat \ {0} /\ v < q
  BY <1>2
<1> HIDE DEF q
<1>4. v % q = v
  BY <1>3
<1>5. QED
  BY <1>4 DEF q

LEMMA SymbolsAre ==
  ASSUME NEW table, NEW count \in Nat, NEW longest \in 1 .. 11,
         CodeTable(table, count, longest)
  PROVE  /\ \A code : (\A i \in 1 .. count : table[i] # code)
              => SymbolOf(SymbolsOf(table), code) = NoSymbol
         /\ \A i \in 1 .. count : SymbolOf(SymbolsOf(table), table[i]) = i - 1
<1> DEFINE symbols == SymbolsOf(table)
<1>1. DOMAIN table = 1 .. count
  BY DEF CodeTable
<1>2. /\ DOMAIN symbols = {table[i] : i \in 1 .. count}
      /\ \A code \in DOMAIN symbols :
           symbols[code] = (CHOOSE i \in 1 .. count : table[i] = code) - 1
  BY <1>1, Zenon DEF SymbolsOf, Range
<1> HIDE DEF symbols
<1>3. ASSUME NEW code, \A i \in 1 .. count : table[i] # code
      PROVE  SymbolOf(symbols, code) = NoSymbol
  <2>1. code \notin DOMAIN symbols
    BY <1>2, <1>3
  <2>2. QED
    BY <2>1, Zenon DEF SymbolOf
<1>4. ASSUME NEW i \in 1 .. count
      PROVE  SymbolOf(symbols, table[i]) = i - 1
  <2>1. table[i] \in DOMAIN symbols
    BY <1>2
  <2> DEFINE j == CHOOSE j \in 1 .. count : table[j] = table[i]
  <2>2. j \in 1 .. count /\ table[j] = table[i]
    BY Zenon
  <2>3. symbols[table[i]] = j - 1
    BY <1>2, <2>1, Zenon
  <2> HIDE DEF j
  <2>4. j = i
    <3> SUFFICES ASSUME j # i PROVE FALSE
      OBVIOUS
    <3> DEFINE c == table[i][1]
               l == table[i][2]
    <3>1. c \in Nat /\ l \in 1 .. longest /\ c < 2 ^ l
      BY CodeTableIs
    <3>2. \A h \in 1 .. count : i # h /\ l <= table[h][2] => table[h][1] % 2 ^ l # c
      BY CodeTableIs, Zenon
    <3>3. table[j][1] = c /\ table[j][2] = l
      BY <2>2
    <3> HIDE DEF c, l
    <3>4. c % 2 ^ l = c
      <4>1. l \in 0 .. 11
        BY <3>1
      <4>2. QED
        BY <3>1, <4>1, FitsItself
    <3>5. l <= l
      BY <3>1
    <3>6. QED
      BY <2>2, <3>2, <3>3, <3>4, <3>5
  <2>5. QED
    BY <2>1, <2>3, <2>4, Zenon DEF SymbolOf
<1>5. QED
  BY <1>3, <1>4, Zenon DEF symbols

\* c, in l bits, is the code of s, and none of its beginnings is a code.
CodeWord(t, s, c, l) ==
  /\ c \in Nat /\ l \in 1 .. LongestCode(t) /\ l \in 1 .. 11
  /\ HuffmanField(t, s) = Field(c, l) /\ HuffmanField(t, s) \in Seq(Bit)
  /\ Len(HuffmanField(t, s)) = l
  /\ SymbolOf(HuffmanSymbols(t), <<c % 2 ^ l, l>>) = s
  /\ \A j \in 1 .. l - 1 : SymbolOf(HuffmanSymbols(t), <<c % 2 ^ j, j>>) = NoSymbol

LEMMA CodeFieldIs ==
  ASSUME NEW t \in AllTypes \ {7}, NEW s \in Residual(t)
  PROVE  \E c, l : CodeWord(t, s, c, l)
<1> DEFINE table == HuffmanTable(t)
           n == Levels(t)
           m == LongestCode(t)
           i == s + 1
           c == table[i][1]
           l == table[i][2]
<1>1. /\ CodeTable(table, n, m) /\ m \in 1 .. 11 /\ n \in Nat
      /\ HuffmanSymbols(t) = SymbolsOf(table)
  BY TableIs
<1>2. i \in 1 .. n /\ i - 1 = s
  BY <1>1 DEF Residual
<1>3. HuffmanField(t, s) = Field(c, l)
  BY Zenon DEF HuffmanField
<1> HIDE DEF table, n, m, i
<1>4. table[i] = <<c, l>> /\ c \in Nat /\ l \in 1 .. m /\ c < 2 ^ l
  BY <1>1, <1>2, CodeTableIs
<1>5. l \in 1 .. 11 /\ l \in 0 .. 11 /\ l \in Nat
  BY <1>1, <1>4
<1>6. Field(c, l) \in Seq(Bit) /\ Len(Field(c, l)) = l
  BY <1>4, <1>5, FieldIs
<1> HIDE DEF c, l
<1>7. SymbolOf(SymbolsOf(table), <<c % 2 ^ l, l>>) = s
  <2>1. c % 2 ^ l = c
    BY <1>4, <1>5, FitsItself
  <2>2. SymbolOf(SymbolsOf(table), table[i]) = i - 1
    BY <1>1, <1>2, SymbolsAre
  <2>3. QED
    BY <1>2, <1>4, <2>1, <2>2
<1>8. ASSUME NEW j \in 1 .. l - 1
      PROVE  SymbolOf(SymbolsOf(table), <<c % 2 ^ j, j>>) = NoSymbol
  <2> DEFINE code == <<c % 2 ^ j, j>>
  <2>1. ASSUME NEW h \in 1 .. n
        PROVE  table[h] # code
    <3> SUFFICES ASSUME table[h] = code PROVE FALSE
      OBVIOUS
    <3>1. table[h][1] = c % 2 ^ j /\ table[h][2] = j
      OBVIOUS
    <3>2. h # i
      <4>1. l # j
        BY <1>5
      <4>2. QED
        BY <1>4, <3>1, <4>1
    <3>3. \A g \in 1 .. n : h # g /\ table[h][2] <= table[g][2] =>
                              table[g][1] % 2 ^ table[h][2] # table[h][1]
      BY <1>1, CodeTableIs, Zenon
    <3>4. table[i][1] = c /\ table[i][2] = l /\ j <= l
      BY <1>4, <1>5
    <3>5. QED
      BY <1>2, <3>1, <3>2, <3>3, <3>4, Zenon
  <2> HIDE DEF code
  <2>2. SymbolOf(SymbolsOf(table), code) = NoSymbol
    BY <1>1, <2>1, SymbolsAre
  <2>3. QED
    BY <2>2 DEF code
<1>9. CodeWord(t, s, c, l)
  BY <1>1, <1>3, <1>4, <1>5, <1>6, <1>7, <1>8, Zenon DEF m, table, CodeWord
<1>10. QED
  BY <1>9

\* The reader inside a code, bit by bit.
CodeState(f, k, bits, symbol) == [reader |-> ReaderAt(f, k), bits |-> bits, symbol |-> symbol]
ReadsBit(f, k, j, c) == Read(ReaderAt(f, k), 1) = [field |-> c, reader |-> ReaderAt(f, j)]

LEMMA ExtendIs ==
  ASSUME NEW t, NEW f, NEW k, NEW j, NEW bits, NEW c, ReadsBit(f, k, j, c)
  PROVE  ExtendCode(t, CodeState(f, k, bits, NoSymbol))
         = CodeState(f, j, bits \o c,
                     SymbolOf(HuffmanSymbols(t), <<ValueOf(bits \o c), Len(bits \o c)>>))
<1> DEFINE read == [field |-> c, reader |-> ReaderAt(f, j)]
           state == CodeState(f, k, bits, NoSymbol)
<1>1. read.field = c /\ read.reader = ReaderAt(f, j)
  OBVIOUS
<1>2. state.symbol = NoSymbol /\ state.reader = ReaderAt(f, k) /\ state.bits = bits
  BY DEF CodeState
<1>3. Read(state.reader, 1) = read
  BY <1>2 DEF ReadsBit
<1> HIDE DEF read, state
<1>4. state.reader.ok = TRUE /\ read.reader.ok = TRUE
  BY <1>1, <1>2, ReaderIs, Zenon
<1>5. ExtendCode(t, state) = WithBit(t, bits, read)
  BY <1>2, <1>3, <1>4, Zenon DEF ExtendCode
<1>6. WithBit(t, bits, read)
      = [reader |-> read.reader, bits |-> bits \o read.field,
         symbol |-> SymbolOf(HuffmanSymbols(t),
           <<ValueOf(bits \o read.field), Len(bits \o read.field)>>)]
  BY <1>4, Zenon DEF WithBit
<1>7. QED
  BY <1>1, <1>5, <1>6, Zenon DEF state, CodeState

LEMMA StillReaderIs ==
  ASSUME NEW f, NEW k
  PROVE  [ReaderAt(f, k) EXCEPT !.ok = TRUE] = ReaderAt(f, k)
<1> DEFINE b == WholeBytes(f)
           q == BytesFor(k)
           a == Part(f, k, 8 * q)
           r == ReaderAt(f, k)
           o == TRUE
<1>1. r = [bytes |-> b, bytePos |-> q, accumulator |-> a, total |-> k, ok |-> o]
  BY Zenon DEF ReaderAt, ReaderWith
<1> HIDE DEF b, q, a, r, o
<1>2. [r EXCEPT !.ok = o] = r
  BY <1>1
<1>3. QED
  BY <1>2 DEF r, o

LEMMA HuffmanReads ==
  ASSUME NEW t \in AllTypes \ {7}, NEW s \in Residual(t), NEW f, NEW k,
         Ahead(f, k, HuffmanField(t, s))
  PROVE  HuffmanRead(t, ReaderAt(f, k))
         = [symbol |-> s, reader |-> ReaderAt(f, k + Len(HuffmanField(t, s)))]
<1> DEFINE F == HuffmanField(t, s)
           m == LongestCode(t)
           start == [reader |-> ReaderAt(f, k), bits |-> <<>>, symbol |-> NoSymbol]
<1>1. PICK c \in Nat, l \in 1 .. m :
        /\ F = Field(c, l) /\ F \in Seq(Bit) /\ Len(F) = l /\ l \in 1 .. 11
        /\ SymbolOf(HuffmanSymbols(t), <<c % 2 ^ l, l>>) = s
        /\ \A j \in 1 .. l - 1 : SymbolOf(HuffmanSymbols(t), <<c % 2 ^ j, j>>) = NoSymbol
  <2>1. PICK c, l : CodeWord(t, s, c, l)
    BY CodeFieldIs
  <2>2. QED
    BY <2>1, Zenon DEF CodeWord
<1>2. m \in 1 .. 11
  BY TableIs
<1> HIDE DEF F, m
<1>3. /\ f \in Seq(Bit) /\ Payload(f) /\ k \in Nat /\ Len(f) \in Nat /\ k + l <= Len(f)
      /\ Part(f, k, k + l) = F
  <2>1. Ahead(f, k, F)
    BY DEF F
  <2>2. /\ f \in Seq(Bit) /\ Payload(f) /\ k \in Nat /\ Len(f) \in Nat /\ k + Len(F) <= Len(f)
    BY <2>1, AheadIs
  <2>3. Part(f, k, k + Len(F)) = F
    BY <2>1, Zenon DEF Ahead
  <2>4. QED
    BY <1>1, <2>2, <2>3
<1>4. s \in Nat /\ s # NoSymbol
  <2>1. Levels(t) \in Nat
    BY TableIs
  <2>2. QED
    BY <2>1 DEF Residual, NoSymbol
<1>5. PICK chain : /\ chain[0] = start
                   /\ \A i \in 1 .. m : chain[i] = ExtendCode(t, chain[i - 1])
                   /\ HuffmanRead(t, ReaderAt(f, k)) = IfFound(chain[m])
  <2>1. t \in AllTypes /\ ReaderAt(f, k).ok
    BY ReaderIs
  <2>2. QED
    BY <2>1, CodeIsChain DEF m, start
<1> DEFINE S(j) == [reader |-> ReaderAt(f, k + j), bits |-> Part(f, k, k + j),
                    symbol |-> IF j = l THEN s ELSE NoSymbol]
           G == {i \in 0 .. m : chain[i] = S(IF i <= l THEN i ELSE l)}
<1>6. 0 \in G
  <2>1. 0 \in 0 .. m /\ 0 <= l /\ k + 0 = k /\ 0 # l
    BY <1>1, <1>2, <1>3
  <2>2. Part(f, k, k) = <<>>
    <3>1. k \in 0 .. Len(f)
      BY <1>1, <1>3
    <3>2. QED
      BY <1>3, <3>1, EmptyPart
  <2>3. S(0) = start
    BY <2>1, <2>2, Zenon
  <2>4. QED
    BY <1>5, <2>1, <2>3
<1>7. ASSUME NEW i \in 1 .. m, i - 1 \in G
      PROVE  i \in G
  <2>1. chain[i] = ExtendCode(t, chain[i - 1]) /\ i \in 0 .. m
    BY <1>2, <1>5
  <2>2. CASE i <= l
    <3> DEFINE h == i - 1
               a == k + h
               b == k + i
               now == Part(f, k, b)
    <3>1. h \in Nat /\ h < l /\ h <= l /\ h + 1 = i /\ i \in 0 .. l /\ i \in 1 .. 11
      BY <1>1, <1>2, <2>2
    <3>2. /\ a \in Nat /\ b \in Nat /\ a + 1 = b /\ a \in 0 .. Len(f) /\ b <= Len(f)
          /\ a \in k .. Len(f) /\ b \in a .. Len(f) /\ b \in k .. Len(f) /\ k \in 0 .. Len(f)
          /\ b \in 0 .. Len(f)
      <4> HIDE DEF h
      <4>1. QED
        BY <1>1, <1>3, <3>1
    <3>3. chain[h] = [reader |-> ReaderAt(f, a), bits |-> Part(f, k, a), symbol |-> NoSymbol]
      <4>1. chain[h] = S(h) /\ h # l
        BY <1>1, <1>7, <3>1
      <4> HIDE DEF h
      <4>2. QED
        BY <4>1
    <3> HIDE DEF h, a, b
    <3>4. Read(ReaderAt(f, a), 1) = [field |-> Part(f, a, b), reader |-> ReaderAt(f, b)]
      <4> DEFINE one == 1
      <4>1. one \in Nat /\ a + one = b
        BY <3>2
      <4> HIDE DEF one
      <4>2. Read(ReaderAt(f, a), one) = [field |-> Part(f, a, b), reader |-> ReaderAt(f, b)]
        BY <1>3, <3>2, <4>1, ReadPart
      <4>3. QED
        BY <4>2 DEF one
    <3>5. Part(f, k, a) \o Part(f, a, b) = now
      BY <1>3, <3>2, PartsJoined
    <3>6. now \in Seq(Bit) /\ Len(now) = i
      <4>1. Len(now) = b - k /\ now \in Seq(Bit)
        BY <1>3, <3>2, PartBits
      <4>2. b - k = i
        BY <1>3 DEF b
      <4>3. QED
        BY <4>1, <4>2
    <3>7. now = SubSeq(Field(c, l), 1, i)
      <4>1. Part(Part(f, k, k + l), 0, i) = Part(f, k + 0, k + i)
        <5> DEFINE z == 0
                   n == k + l
        <5>1. /\ k \in 0 .. Len(f) /\ n \in k .. Len(f) /\ z \in 0 .. n - k /\ i \in z .. n - k
          BY <1>1, <1>3, <3>1, <3>2
        <5> HIDE DEF z, n
        <5>2. Part(Part(f, k, n), z, i) = Part(f, k + z, k + i)
          BY <1>3, <5>1, BitsOfPart
        <5>3. QED
          BY <5>2 DEF z, n
      <4>2. k + 0 = k /\ 0 + 1 = 1
        BY <1>3
      <4>3. Part(F, 0, i) = SubSeq(F, 1, i)
        BY <4>2 DEF Part
      <4>4. QED
        BY <1>1, <1>3, <4>1, <4>2, <4>3 DEF b
    <3>8. ValueOf(now) = c % 2 ^ i
      <4>1. l \in 0 .. 11 /\ i \in 0 .. l
        BY <1>1, <3>1
      <4>2. QED
        BY <3>7, <4>1, PrefixValue
    <3>9. SymbolOf(HuffmanSymbols(t), <<c % 2 ^ i, i>>) = IF i = l THEN s ELSE NoSymbol
      <4>1. CASE i = l
        BY <1>1, <4>1
      <4>2. CASE i # l
        <5>1. i \in 1 .. l - 1
          BY <1>1, <2>2, <4>2
        <5>2. QED
          BY <1>1, <4>2, <5>1
      <4>3. QED
        BY <4>1, <4>2
    <3>10. ExtendCode(t, chain[h])
           = CodeState(f, b, now, SymbolOf(HuffmanSymbols(t), <<ValueOf(now), Len(now)>>))
      <4> DEFINE d == Part(f, k, a)
                 e == Part(f, a, b)
                 state == chain[h]
      <4>1. state = CodeState(f, a, d, NoSymbol) /\ ReadsBit(f, a, b, e)
        BY <3>3, <3>4, Zenon DEF CodeState, ReadsBit
      <4> HIDE DEF d, e, state
      <4>2. ExtendCode(t, CodeState(f, a, d, NoSymbol))
            = CodeState(f, b, d \o e,
              SymbolOf(HuffmanSymbols(t), <<ValueOf(d \o e), Len(d \o e)>>))
        BY <4>1, ExtendIs
      <4>3. QED
        BY <3>5, <4>1, <4>2, Zenon DEF state, d, e
    <3>11. ExtendCode(t, chain[h])
           = [reader |-> ReaderAt(f, b), bits |-> now, symbol |-> IF i = l THEN s ELSE NoSymbol]
      BY <3>6, <3>8, <3>9, <3>10, Zenon DEF CodeState
    <3>12. chain[i] = S(i)
      <4>1. chain[i] = ExtendCode(t, chain[h])
        BY <2>1 DEF h
      <4>2. QED
        BY <3>11, <4>1, Zenon DEF b
    <3> HIDE DEF S
    <3>13. QED
      BY <2>1, <2>2, <3>12
  <2>3. CASE ~ (i <= l)
    <3>1. i - 1 \in Nat /\ (i - 1 <= l => i - 1 = l)
      BY <1>1, <2>3
    <3>2. chain[i - 1] = S(l)
      <4> HIDE DEF S
      <4>1. QED
        BY <1>7, <3>1
    <3>3. ExtendCode(t, S(l)) = S(l)
      <4> DEFINE last == S(l)
      <4>1. last.symbol = s
        OBVIOUS
      <4> HIDE DEF last
      <4>2. ExtendCode(t, last) = last
        BY <1>4, <4>1, Zenon DEF ExtendCode
      <4>3. QED
        BY <4>2 DEF last
    <3> HIDE DEF S
    <3>4. QED
      BY <2>1, <2>3, <3>2, <3>3
  <2>4. QED
    BY <2>2, <2>3
<1>8. m \in G
  <2> HIDE DEF G
  <2>1. 0 \in G /\ m \in Nat /\ \A i \in 1 .. m : i - 1 \in G => i \in G
    BY <1>2, <1>6, <1>7
  <2>2. \A i \in 0 .. m : i \in G
    BY <2>1, Climbs, Zenon
  <2>3. m \in 0 .. m
    BY <2>1
  <2>4. QED
    BY <2>2, <2>3
<1>9. chain[m] = S(l)
  <2>1. m <= l => m = l
    BY <1>1, <1>2
  <2> HIDE DEF S
  <2>2. QED
    BY <1>8, <2>1
<1>10. IfFound(S(l)) = [symbol |-> s, reader |-> ReaderAt(f, k + l)]
  <2> DEFINE last == S(l)
             r == ReaderAt(f, k + l)
  <2>1. last.symbol = s /\ last.reader = r
    OBVIOUS
  <2>2. [r EXCEPT !.ok = TRUE] = r
    BY StillReaderIs
  <2>3. r.ok = TRUE
    BY ReaderIs
  <2> HIDE DEF last, r
  <2>4. (last.reader.ok /\ last.symbol # NoSymbol) = TRUE
    BY <1>4, <2>1, <2>3
  <2>5. [last.reader EXCEPT !.ok = last.reader.ok /\ last.symbol # NoSymbol]
        = [last.reader EXCEPT !.ok = TRUE]
    BY <2>4
  <2>6. IfFound(last) = [symbol |-> last.symbol, reader |-> [last.reader EXCEPT !.ok = TRUE]]
    BY <2>5, Zenon DEF IfFound
  <2>7. IfFound(last) = [symbol |-> s, reader |-> r]
    BY <2>1, <2>2, <2>6
  <2>8. QED
    BY <2>7 DEF last, r
<1>11. QED
  BY <1>1, <1>5, <1>9, <1>10 DEF F

-----------------------------------------------------------------------------
(* Luma: sums, and residuals against their prediction.                     *)

(***************************************************************************)
(* A sum of integers is an integer.  The fold is a recursion over subsets: *)
(* a solution for those of n members extends to those of n + 1, so that    *)
(* there is one for all of them.                                           *)
(***************************************************************************)
LEMMA SumIsInt ==
  ASSUME NEW S, IsFiniteSet(S), NEW f \in [S -> Int]
  PROVE  MapThenSumSet(LAMBDA o : f[o], S) \in Int
<1> DEFINE One(s) == CHOOSE x \in s : TRUE
           Body(g, s) == IF s = {} THEN 0 ELSE f[One(s)] + g[s \ {One(s)}]
           IsSum(g) == g = [s \in SUBSET S |-> Body(g, s)]
           Sums == [SUBSET S -> Int]
           UpTo(n, g) == \A s \in SUBSET S : Cardinality(s) <= n => g[s] = Body(g, s)
           Lacking == {n \in Nat : ~ \E g \in Sums : UpTo(n, g)}
           total == CHOOSE g : IsSum(g)
<1>1. \A s \in SUBSET S : IsFiniteSet(s) /\ Cardinality(s) \in Nat
                            /\ Cardinality(s) <= Cardinality(S)
  BY FS_Subset, FS_CardinalityType
<1>2. Cardinality(S) \in Nat
  BY FS_CardinalityType
<1>3. ASSUME NEW s \in SUBSET S, s # {}
      PROVE  /\ One(s) \in S /\ s \ {One(s)} \in SUBSET S
             /\ Cardinality(s \ {One(s)}) = Cardinality(s) - 1
             /\ Cardinality(s) >= 1
  <2>1. One(s) \in s
    BY <1>3
  <2>2. IsFiniteSet(s) /\ Cardinality(s) \in Nat /\ Cardinality(s) # 0
    BY <1>1, <1>3, FS_EmptySet
  <2>3. Cardinality(s \ {One(s)}) = Cardinality(s) - 1
    BY <2>1, <2>2, FS_RemoveElement
  <2>4. QED
    BY <2>1, <2>2, <2>3
<1>4. ASSUME NEW g \in Sums, NEW s \in SUBSET S
      PROVE  Body(g, s) \in Int
  BY <1>3
<1>5. Lacking = {}
  <2>1. SUFFICES ASSUME Lacking # {} PROVE FALSE
    OBVIOUS
  <2>2. PICK n \in Lacking : \A k \in Lacking : n <= k
    <3>1. Lacking \in SUBSET Nat
      OBVIOUS
    <3> HIDE DEF Lacking
    <3>2. QED
      BY <2>1, <3>1, LeastNat
  <2>3. n \in Nat /\ ~ \E g \in Sums : UpTo(n, g)
    OBVIOUS
  <2>4. CASE n = 0
    <3> DEFINE g == [s \in SUBSET S |-> 0]
    <3>1. g \in Sums
      OBVIOUS
    <3>2. ASSUME NEW s \in SUBSET S, Cardinality(s) <= 0
          PROVE  s = {}
      <4>1. Cardinality(s) \in Nat
        BY <1>1
      <4>2. s # {} => Cardinality(s) >= 1
        BY <1>3
      <4>3. QED
        BY <3>2, <4>1, <4>2
    <3>3. UpTo(0, g)
      BY <3>2
    <3>4. QED
      BY <2>3, <2>4, <3>1, <3>3
  <2>5. CASE n # 0
    <3>1. n - 1 \in Nat /\ ~ (n <= n - 1)
      BY <2>3, <2>5
    <3>2. PICK g \in Sums : UpTo(n - 1, g)
      BY <2>2, <3>1
    <3> DEFINE h == [s \in SUBSET S |-> Body(g, s)]
    <3>3. h \in Sums
      BY <1>4
    <3>4. ASSUME NEW s \in SUBSET S, Cardinality(s) <= n
          PROVE  h[s] = Body(h, s)
      <4>1. CASE s = {}
        BY <4>1
      <4>2. CASE s # {}
        <5> DEFINE rest == s \ {One(s)}
        <5>1. rest \in SUBSET S /\ Cardinality(rest) <= n - 1
          BY <1>1, <1>3, <2>3, <3>4, <4>2
        <5>2. g[rest] = Body(g, rest)
          BY <3>2, <5>1
        <5>3. h[rest] = Body(g, rest) /\ h[s] = Body(g, s)
          BY <5>1
        <5> HIDE DEF h
        <5>4. QED
          BY <4>2, <5>2, <5>3
      <4>3. QED
        BY <4>1, <4>2
    <3>5. UpTo(n, h)
      BY <3>4
    <3>6. QED
      BY <2>3, <3>3, <3>5
  <2>6. QED
    BY <2>4, <2>5
<1>6. PICK g \in Sums : UpTo(Cardinality(S), g)
  BY <1>2, <1>5
<1>7. IsSum(g)
  <2>1. \A s \in SUBSET S : g[s] = Body(g, s)
    BY <1>1, <1>6
  <2>2. QED
    BY <2>1, Zenon
<1>8. IsSum(total)
  BY <1>7, Zenon
<1>9. \A s \in SUBSET S : total[s] = Body(total, s)
  BY <1>8, Zenon
<1> DEFINE Wrong == {k \in Nat : \E s \in SUBSET S : Cardinality(s) = k
                                                       /\ total[s] \notin Int}
<1>10. Wrong = {}
  <2>1. SUFFICES ASSUME Wrong # {} PROVE FALSE
    OBVIOUS
  <2>2. PICK k \in Wrong : \A l \in Wrong : k <= l
    <3>1. Wrong \in SUBSET Nat
      OBVIOUS
    <3> HIDE DEF Wrong
    <3>2. QED
      BY <2>1, <3>1, LeastNat
  <2>3. PICK s \in SUBSET S : Cardinality(s) = k /\ total[s] \notin Int
    OBVIOUS
  <2> HIDE DEF total
  <2>4. s # {}
    BY <1>9, <2>3
  <2>5. /\ One(s) \in S /\ s \ {One(s)} \in SUBSET S
        /\ Cardinality(s \ {One(s)}) = k - 1 /\ k \in Nat /\ k - 1 \in Nat
    BY <1>1, <1>3, <2>3, <2>4
  <2>6. k - 1 \notin Wrong
    BY <2>2, <2>5
  <2>7. total[s \ {One(s)}] \in Int
    BY <2>5, <2>6
  <2>8. f[One(s)] \in Int
    BY <2>5
  <2>9. total[s] = f[One(s)] + total[s \ {One(s)}]
    BY <1>9, <2>4
  <2>10. QED
    BY <2>3, <2>7, <2>8, <2>9
<1>11. total[S] \in Int
  BY <1>2, <1>10
<1>12. MapThenSumSet(LAMBDA o : f[o], S) = total[S]
  BY Zenon DEF MapThenSumSet, MapThenFoldSet
<1>13. QED
  BY <1>11, <1>12

LEMMA ResidualUndone ==
  ASSUME NEW L \in Nat \ {0}, NEW b \in 0 .. L - 1, NEW p \in Int
  PROVE  (p + ((b - p) % L)) % L = b
<1> DEFINE d == b - p
           q == d \div L
<1>1. d \in Int
  OBVIOUS
<1> HIDE DEF d
<1>2. d = L * q + (d % L) /\ q \in Int /\ d % L \in Int
  BY <1>1
<1> HIDE DEF q
<1>3. -q \in Int /\ L * (-q) = -(L * q) /\ L * q \in Int
  BY <1>2
<1>4. p + (d % L) = b + L * (-q)
  <2>1. PICK x \in Int : x = L * q
    BY <1>3
  <2>2. PICK r \in Int : r = d % L
    BY <1>2
  <2>3. b - p = x + r
    BY <1>2, <2>1, <2>2 DEF d
  <2>4. p + r = b + (-x)
    BY <2>3
  <2>5. QED
    BY <1>3, <2>1, <2>2, <2>4
<1>5. (b + L * (-q)) % L = b
  BY <1>3, DivisionIs
<1>6. QED
  BY <1>4, <1>5 DEF d

(***************************************************************************)
(* The residuals of a block have one solution, the block: the pixel        *)
(* nearest the corner at which another solution differed would be          *)
(* predicted from pixels at which it does not.                             *)
(***************************************************************************)
LEMMA DecodeUndoes ==
  ASSUME NEW L \in Nat \ {0}, NEW size \in Nat, NEW carried \in Int,
         NEW block \in [Span(size) -> 0 .. L - 1]
  PROVE  DecodedLuma(Residuals(block, size, carried, L),
                     size, carried, L) = block
<1> DEFINE residuals == Residuals(block, size, carried, L)
           Body(luma, o) == (Prediction(luma, o, carried) + residuals[o]) % L
           IsDrawn(luma) == luma = [o \in Span(size) |-> Body(luma, o)]
           shown == CHOOSE luma : IsDrawn(luma)
           Near(n) == \E o \in Span(size) : o[1] + o[2] = n /\ shown[o] # block[o]
           Wrong == {n \in Nat : Near(n)}
<1>1. L \in Nat \ {0}
  OBVIOUS
<1>2. ASSUME NEW o \in Span(size)
      PROVE  /\ o = <<o[1], o[2]>> /\ o[1] \in Nat /\ o[2] \in Nat
             /\ o[1] > 0 => <<o[1] - 1, o[2]>> \in Span(size)
             /\ o[2] > 0 => <<o[1], o[2] - 1>> \in Span(size)
             /\ o = <<0, 0>> <=> o[1] = 0 /\ o[2] = 0
  BY DEF Span
<1>3. ASSUME NEW o \in Span(size)
      PROVE  Prediction(block, o, carried) \in Int
  <2>1. \A u \in Span(size) : block[u] \in Int
    BY <1>1
  <2>2. QED
    BY <1>2, <2>1 DEF Prediction
<1>4. ASSUME NEW o \in Span(size)
      PROVE  Body(block, o) = block[o]
  <2>1. residuals[o] = (block[o] - Prediction(block, o, carried)) % L
    BY DEF Residuals
  <2>2. block[o] \in 0 .. L - 1
    OBVIOUS
  <2> HIDE DEF residuals
  <2>3. PICK q \in Int : q = Prediction(block, o, carried)
    BY <1>3
  <2>4. (q + ((block[o] - q) % L)) % L = block[o]
    BY <1>1, <2>2, ResidualUndone
  <2>5. QED
    BY <2>1, <2>3, <2>4
<1>5. IsDrawn(block)
  <2>1. block = [o \in Span(size) |-> block[o]]
    OBVIOUS
  <2>2. QED
    BY <1>4, <2>1, Zenon
<1>6. IsDrawn(shown)
  BY <1>5, Zenon
<1>7. \A o \in Span(size) : shown[o] = Body(shown, o)
  BY <1>6, Zenon
<1>8. shown = [o \in Span(size) |-> shown[o]]
  BY <1>6, Zenon
<1> HIDE DEF shown, residuals
<1>9. Wrong = {}
  <2>1. SUFFICES ASSUME Wrong # {} PROVE FALSE
    OBVIOUS
  <2>2. PICK n \in Wrong : \A k \in Wrong : n <= k
    <3>1. Wrong \in SUBSET Nat
      OBVIOUS
    <3> HIDE DEF Wrong
    <3>2. QED
      BY <2>1, <3>1, LeastNat
  <2>3. PICK o \in Span(size) : o[1] + o[2] = n /\ shown[o] # block[o]
    OBVIOUS
  <2>4. o[1] \in Nat /\ o[2] \in Nat /\ n \in Nat
    BY <1>2
  <2>5. ASSUME NEW u \in Span(size), u[1] + u[2] = n - 1, n >= 1
        PROVE  shown[u] = block[u]
    <3>1. n - 1 \in Nat /\ ~ (n <= n - 1)
      BY <2>4, <2>5
    <3>2. n - 1 \notin Wrong
      BY <2>2, <3>1
    <3>3. QED
      BY <2>5, <3>1, <3>2
  <2>6. o[1] > 0 => shown[<<o[1] - 1, o[2]>>] = block[<<o[1] - 1, o[2]>>]
    <3>1. SUFFICES ASSUME o[1] > 0
                   PROVE  shown[<<o[1] - 1, o[2]>>] = block[<<o[1] - 1, o[2]>>]
      OBVIOUS
    <3>2. <<o[1] - 1, o[2]>> \in Span(size)
      BY <1>2, <3>1
    <3>3. (o[1] - 1) + o[2] = n - 1 /\ n >= 1
      BY <2>3, <2>4, <3>1
    <3>4. QED
      BY <2>5, <3>2, <3>3
  <2>7. o[2] > 0 => shown[<<o[1], o[2] - 1>>] = block[<<o[1], o[2] - 1>>]
    <3>1. SUFFICES ASSUME o[2] > 0
                   PROVE  shown[<<o[1], o[2] - 1>>] = block[<<o[1], o[2] - 1>>]
      OBVIOUS
    <3>2. <<o[1], o[2] - 1>> \in Span(size)
      BY <1>2, <3>1
    <3>3. o[1] + (o[2] - 1) = n - 1 /\ n >= 1
      BY <2>3, <2>4, <3>1
    <3>4. QED
      BY <2>5, <3>2, <3>3
  <2>8. Prediction(shown, o, carried) = Prediction(block, o, carried)
    <3>1. CASE o[1] = 0 /\ o[2] = 0
      BY <1>2, <3>1 DEF Prediction
    <3>2. CASE o[1] > 0 /\ o[2] = 0
      BY <1>2, <2>6, <3>2 DEF Prediction
    <3>3. CASE o[1] = 0 /\ o[2] > 0
      BY <1>2, <2>7, <3>3 DEF Prediction
    <3>4. CASE o[1] > 0 /\ o[2] > 0
      BY <1>2, <2>6, <2>7, <3>4 DEF Prediction
    <3>5. QED
      BY <2>4, <3>1, <3>2, <3>3, <3>4
  <2>9. Body(shown, o) = Body(block, o)
    BY <2>8
  <2>10. QED
    BY <1>4, <1>7, <2>3, <2>9
<1>10. \A o \in Span(size) : shown[o] = block[o]
  <2>1. TAKE o \in Span(size)
  <2>2. o[1] \in Nat /\ o[2] \in Nat
    BY <1>2
  <2>3. o[1] + o[2] \in Nat
    BY <2>2
  <2>4. QED
    BY <1>9, <2>3
<1>11. shown = block
  <2>1. block = [o \in Span(size) |-> block[o]]
    OBVIOUS
  <2>2. QED
    BY <1>8, <1>10, <2>1, Zenon
<1>12. DecodedLuma(residuals, size, carried, L) = shown
  BY Zenon DEF DecodedLuma, shown
<1>13. QED
  BY <1>11, <1>12 DEF residuals

LEMMA AverageIs ==
  ASSUME NEW size \in {2, 4}, NEW luma \in [Span(size) -> Nat]
  PROVE  Average(luma, size) \in Int
<1>1. IsFiniteSet(Span(size))
  <2>1. IsFiniteSet(0 .. size - 1)
    BY FS_Interval
  <2>2. QED
    BY <2>1, FS_Product DEF Span
<1>2. luma \in [Span(size) -> Int]
  OBVIOUS
<1>3. MapThenSumSet(LAMBDA o : luma[o], Span(size)) \in Int
  BY <1>1, <1>2, SumIsInt
<1> DEFINE total == MapThenSumSet(LAMBDA o : luma[o], Span(size))
<1>4. Average(luma, size) = total \div (size * size)
  BY Zenon DEF Average
<1>5. total \in Int
  BY <1>3
<1> HIDE DEF total
<1>6. total \div 4 \in Int /\ total \div 16 \in Int
  BY <1>5
<1>7. QED
  BY <1>4, <1>6

-----------------------------------------------------------------------------
(* Fields one after another.                                               *)

\* Where each of the fields d begins and ends when they lie at k.
Along(at, f, k, d) ==
  /\ at[0] = k /\ at[Len(d)] = k + Len(FlattenSeq(d))
  /\ \A i \in 1 .. Len(d) : Ahead(f, at[i - 1], d[i]) /\ at[i] = at[i - 1] + Len(d[i])

LEMMA FieldsOf ==
  ASSUME NEW d \in Seq(Seq(Bit))
  PROVE  Len(d) \in Nat /\ DOMAIN d = 1 .. Len(d) /\ \A i \in 1 .. Len(d) : d[i] \in Seq(Bit)
<1> DEFINE T == Seq(Bit)
<1>1. d \in Seq(T)
  OBVIOUS
<1> HIDE DEF T
<1>2. Len(d) \in Nat /\ DOMAIN d = 1 .. Len(d) /\ \A i \in 1 .. Len(d) : d[i] \in T
  BY <1>1
<1>3. QED
  BY <1>2 DEF T

LEMMA FieldsLieAhead ==
  ASSUME NEW d \in Seq(Seq(Bit)), NEW f, NEW k, Ahead(f, k, FlattenSeq(d))
  PROVE  \E at : Along(at, f, k, d)
<1> DEFINE n == Len(d)
<1>1. n \in Nat /\ \A i \in 1 .. n : d[i] \in Seq(Bit)
  BY FieldsOf
<1>2. PICK g : Joins(g, d, Bit)
  BY JoinExists
<1>3. g \in [0 .. n -> Seq(Bit)] /\ g[0] = <<>> /\ \A i \in 1 .. n : g[i] = g[i - 1] \o d[i]
  BY <1>2 DEF Joins
<1>4. FlattenSeq(d) = g[n]
  BY <1>2, FlattenJoins
<1> HIDE DEF n
<1>5. ASSUME NEW i \in 1 .. n, Ahead(f, k, g[i])
      PROVE  /\ Ahead(f, k, g[i - 1]) /\ Ahead(f, k + Len(g[i - 1]), d[i])
             /\ Len(g[i]) = Len(g[i - 1]) + Len(d[i])
  <2> DEFINE a == g[i - 1]
             b == d[i]
  <2>1. a \in Seq(Bit) /\ b \in Seq(Bit) /\ g[i] = a \o b
    <3>1. i - 1 \in 0 .. n
      BY <1>1
    <3>2. QED
      BY <1>1, <1>3, <3>1
  <2> HIDE DEF a, b
  <2>2. Ahead(f, k, a) /\ Ahead(f, k + Len(a), b) /\ Len(g[i]) = Len(a) + Len(b)
    <3>1. Ahead(f, k, a \o b)
      BY <1>5, <2>1
    <3>2. Ahead(f, k, a) /\ Ahead(f, k + Len(a), b)
      BY <2>1, <3>1, AheadSplits
    <3>3. Len(a \o b) = Len(a) + Len(b)
      BY <2>1, BitsJoin
    <3>4. QED
      BY <2>1, <3>2, <3>3
  <2>3. QED
    BY <2>2 DEF a, b
<1> DEFINE G == {j \in 0 .. n : Ahead(f, k, g[n - j])}
<1>6. 0 \in G /\ \A j \in 1 .. n : j - 1 \in G => j \in G
  <2>1. 0 \in G
    <3>1. n - 0 = n /\ 0 \in 0 .. n
      BY <1>1
    <3>2. QED
      BY <1>4, <3>1
  <2>2. ASSUME NEW j \in 1 .. n, j - 1 \in G
        PROVE  j \in G
    <3> DEFINE i == n - (j - 1)
    <3>1. i \in 1 .. n /\ i - 1 = n - j /\ j \in 0 .. n
      BY <1>1
    <3>2. Ahead(f, k, g[i])
      BY <2>2
    <3> HIDE DEF i
    <3>3. Ahead(f, k, g[i - 1])
      BY <1>5, <3>1, <3>2
    <3>4. QED
      BY <3>1, <3>3
  <2> HIDE DEF G
  <2>3. QED
    BY <2>1, <2>2
<1>7. ASSUME NEW i \in 0 .. n
      PROVE  Ahead(f, k, g[i])
  <2>1. \A j \in 0 .. n : j \in G
    <3> HIDE DEF G
    <3>1. QED
      BY <1>1, <1>6, Climbs
  <2>2. n - i \in 0 .. n /\ n - (n - i) = i
    BY <1>1
  <2>3. QED
    BY <2>1, <2>2
<1> DEFINE at == [i \in 0 .. n |-> k + Len(g[i])]
<1>8. ASSUME NEW i \in 0 .. n
      PROVE  Len(g[i]) \in Nat /\ k \in Nat /\ at[i] = k + Len(g[i])
  <2>1. Ahead(f, k, g[i])
    BY <1>7
  <2>2. QED
    BY <2>1, AheadIs
<1>9. at[0] = k
  <2>1. 0 \in 0 .. n /\ Len(g[0]) = 0
    BY <1>1, <1>3
  <2>2. QED
    BY <1>8, <2>1
<1>10. ASSUME NEW i \in 1 .. n
       PROVE  Ahead(f, at[i - 1], d[i]) /\ at[i] = at[i - 1] + Len(d[i])
  <2>1. i \in 0 .. n /\ i - 1 \in 0 .. n
    BY <1>1
  <2>2. Ahead(f, k, g[i])
    BY <1>7, <2>1
  <2>3. Ahead(f, k + Len(g[i - 1]), d[i]) /\ Len(g[i]) = Len(g[i - 1]) + Len(d[i])
    BY <1>5, <2>2
  <2>4. at[i] = k + Len(g[i]) /\ at[i - 1] = k + Len(g[i - 1]) /\ k \in Nat
        /\ Len(g[i - 1]) \in Nat
    BY <1>8, <2>1
  <2>5. Len(d[i]) \in Nat
    BY <1>1
  <2> DEFINE x == Len(g[i - 1])
             y == Len(d[i])
             z == Len(g[i])
  <2>6. /\ z = x + y /\ at[i] = k + z /\ at[i - 1] = k + x /\ k \in Nat /\ x \in Nat /\ y \in Nat
        /\ Ahead(f, k + x, d[i])
    BY <2>3, <2>4, <2>5, Zenon
  <2> HIDE DEF at, x, y, z
  <2>7. at[i] = at[i - 1] + y
    BY <2>6
  <2>8. Ahead(f, at[i - 1], d[i])
    BY <2>6, Zenon
  <2>9. QED
    BY <2>7, <2>8, Zenon DEF y
<1>11. at[n] = k + Len(FlattenSeq(d))
  <2>1. n \in 0 .. n
    BY <1>1
  <2>2. QED
    BY <1>4, <1>8, <2>1
<1> HIDE DEF at
<1>12. Along(at, f, k, d)
  BY <1>9, <1>10, <1>11, Zenon DEF Along, n
<1>13. QED
  BY <1>12

\* Values read one after another.
Firsts(vals, n) == [i \in 1 .. n |-> vals[i]]
\* The reader after some values.
ValuesState(f, k, values) == [reader |-> ReaderAt(f, k), values |-> values]

LEMMA FirstsGrow ==
  ASSUME NEW vals, NEW i \in Nat, i >= 1
  PROVE  Append(Firsts(vals, i - 1), vals[i]) = Firsts(vals, i)
<1> DEFINE s == Firsts(vals, i - 1)
           S == {vals[j] : j \in 1 .. i}
<1>1. s = [j \in 1 .. i - 1 |-> vals[j]] /\ i - 1 \in Nat
  BY DEF Firsts
<1>2. \A j \in 1 .. i : vals[j] \in S
  OBVIOUS
<1> HIDE DEF S
<1>3. \A j \in 1 .. i - 1 : s[j] = vals[j] /\ s[j] \in S
  BY <1>1, <1>2
<1>4. s \in Seq(S) /\ Len(s) = i - 1
  BY <1>1, <1>3
<1> HIDE DEF s
<1>5. /\ Append(s, vals[i]) \in Seq(S) /\ Len(Append(s, vals[i])) = i
      /\ \A j \in 1 .. i : Append(s, vals[i])[j] = vals[j]
  <2>1. vals[i] \in S
    BY <1>2
  <2>2. QED
    BY <1>3, <1>4, <2>1
<1>6. Append(s, vals[i]) = [j \in 1 .. i |-> vals[j]]
  <2>1. Firsts(vals, i) \in Seq(S) /\ Len(Firsts(vals, i)) = i
        /\ \A j \in 1 .. i : Firsts(vals, i)[j] = vals[j]
    BY <1>2 DEF Firsts
  <2>2. Append(s, vals[i]) = Firsts(vals, i)
    <3> DEFINE a == Append(s, vals[i])
               b == Firsts(vals, i)
    <3> HIDE DEF a, b
    <3>1. a \in Seq(S) /\ b \in Seq(S) /\ Len(a) = Len(b) /\ \A j \in 1 .. Len(a) : a[j] = b[j]
      BY <1>5, <2>1 DEF a, b
    <3>2. a = b
      BY <3>1, SameParts
    <3>3. QED
      BY <3>2 DEF a, b
  <2>3. QED
    BY <2>2 DEF Firsts
<1>7. QED
  BY <1>6 DEF s, Firsts

\* Each state of the chain reads one value more, at the next place.
ReadsOn(chain, n, f, at, vals) ==
  /\ chain[0] = ValuesState(f, at[0], <<>>)
  /\ \A i \in 1 .. n : \A values :
       chain[i - 1] = ValuesState(f, at[i - 1], values) =>
         chain[i] = ValuesState(f, at[i], Append(values, vals[i]))

LEMMA ReadsValues ==
  ASSUME NEW n \in Nat, NEW f, NEW at, NEW vals, NEW chain, ReadsOn(chain, n, f, at, vals)
  PROVE  chain[n] = ValuesState(f, at[n], Firsts(vals, n))
<1>0. /\ chain[0] = ValuesState(f, at[0], <<>>)
      /\ \A i \in 1 .. n : \A values :
           chain[i - 1] = ValuesState(f, at[i - 1], values) =>
             chain[i] = ValuesState(f, at[i], Append(values, vals[i]))
  BY Zenon DEF ReadsOn
<1> DEFINE G == {i \in 0 .. n : chain[i] = ValuesState(f, at[i], Firsts(vals, i))}
<1>1. 0 \in G
  <2>1. Firsts(vals, 0) = <<>>
    BY DEF Firsts
  <2>2. QED
    BY <1>0, <2>1
<1>2. ASSUME NEW i \in 1 .. n, i - 1 \in G
      PROVE  i \in G
  <2>1. chain[i - 1] = ValuesState(f, at[i - 1], Firsts(vals, i - 1))
    BY <1>2
  <2>2. chain[i] = ValuesState(f, at[i], Append(Firsts(vals, i - 1), vals[i]))
    BY <1>0, <2>1
  <2>3. Append(Firsts(vals, i - 1), vals[i]) = Firsts(vals, i)
    BY FirstsGrow
  <2>4. i \in 0 .. n
    OBVIOUS
  <2>5. QED
    BY <2>2, <2>3, <2>4
<1> HIDE DEF G
<1>3. \A i \in 0 .. n : i \in G
  BY <1>1, <1>2, Climbs
<1>4. n \in G
  BY <1>3
<1>5. QED
  BY <1>4 DEF G

LEMMA SymbolStep ==
  ASSUME NEW t \in AllTypes \ {7}, NEW s \in Residual(t), NEW f, NEW k, NEW values,
         Ahead(f, k, HuffmanField(t, s))
  PROVE  ReadSymbol(t, ValuesState(f, k, values))
         = ValuesState(f, k + Len(HuffmanField(t, s)), Append(values, s))
<1> DEFINE read == [symbol |-> s, reader |-> ReaderAt(f, k + Len(HuffmanField(t, s)))]
           state == ValuesState(f, k, values)
<1>1. HuffmanRead(t, ReaderAt(f, k)) = read
  BY HuffmanReads
<1>2. read.symbol = s /\ read.reader = ReaderAt(f, k + Len(HuffmanField(t, s)))
  OBVIOUS
<1>3. state.reader = ReaderAt(f, k) /\ state.values = values
  BY DEF ValuesState
<1> HIDE DEF read, state
<1>4. ReadSymbol(t, state) = [reader |-> read.reader, values |-> Append(values, read.symbol)]
  BY <1>1, <1>3, Zenon DEF ReadSymbol
<1>5. QED
  BY <1>2, <1>4, Zenon DEF state, ValuesState

LEMMA ValueStep ==
  ASSUME NEW n \in 0 .. 11, NEW v \in 0 .. 2 ^ n - 1, NEW f, NEW k, NEW values,
         Ahead(f, k, Field(v, n))
  PROVE  ReadValue(ValuesState(f, k, values), n)
         = ValuesState(f, k + Len(Field(v, n)), Append(values, v))
<1> DEFINE F == Field(v, n)
           read == [field |-> F, reader |-> ReaderAt(f, k + n)]
           state == ValuesState(f, k, values)
<1>1. ValueOf(F) = v /\ Len(F) = n
  <2>1. v \in Nat /\ ValueOf(F) = v
    BY FieldValue
  <2>2. QED
    BY <2>1, FieldIs
<1>2. Ahead(f, k, F) /\ n = Len(F)
  BY <1>1
<1> HIDE DEF F
<1>3. Read(ReaderAt(f, k), n) = read
  BY <1>2, AheadRead
<1>4. read.field = F /\ read.reader = ReaderAt(f, k + n)
  OBVIOUS
<1>5. state.reader = ReaderAt(f, k) /\ state.values = values
  BY DEF ValuesState
<1> HIDE DEF read, state
<1>6. ReadValue(state, n)
        = [reader |-> read.reader, values |-> Append(values, ValueOf(read.field))]
  BY <1>3, <1>5, Zenon DEF ReadValue
<1>7. QED
  BY <1>1, <1>4, <1>6, Zenon DEF state, ValuesState, F

-----------------------------------------------------------------------------
(* The luma of a data block.                                               *)

LEMMA RasterIs ==
  ASSUME NEW size \in {2, 4}
  PROVE  /\ size * size \in Nat /\ size * size \in 4 .. 16
         /\ DOMAIN Raster(size) = 1 .. size * size
         /\ \A i \in 1 .. size * size : Raster(size)[i] \in Span(size)
         /\ \A o \in Span(size) :
              /\ size * o[2] + o[1] + 1 \in 1 .. size * size
              /\ Raster(size)[size * o[2] + o[1] + 1] = o
<1>1. DOMAIN Raster(size) = 1 .. size * size
  BY DEF Raster
<1>2. ASSUME NEW i \in 1 .. size * size
      PROVE  Raster(size)[i] \in Span(size)
  <2>1. CASE size = 2
    <3>1. i \in 1 .. 4 /\ (i - 1) % 2 \in 0 .. 1 /\ (i - 1) \div 2 \in 0 .. 1
      BY <2>1
    <3>2. QED
      BY <2>1, <3>1 DEF Raster, Span
  <2>2. CASE size = 4
    <3>1. i \in 1 .. 16 /\ (i - 1) % 4 \in 0 .. 3 /\ (i - 1) \div 4 \in 0 .. 3
      BY <2>2
    <3>2. QED
      BY <2>2, <3>1 DEF Raster, Span
  <2>3. QED
    BY <2>1, <2>2
<1>3. ASSUME NEW o \in Span(size)
      PROVE  /\ size * o[2] + o[1] + 1 \in 1 .. size * size
             /\ Raster(size)[size * o[2] + o[1] + 1] = o
  <2> DEFINE x == o[1]
             y == o[2]
             i == size * y + x + 1
  <2>1. o = <<x, y>> /\ x \in 0 .. size - 1 /\ y \in 0 .. size - 1
    BY DEF Span
  <2> HIDE DEF x, y
  <2>2. i \in 1 .. size * size /\ (i - 1) % size = x /\ (i - 1) \div size = y
    <3>1. CASE size = 2
      BY <2>1, <3>1
    <3>2. CASE size = 4
      BY <2>1, <3>2
    <3>3. QED
      BY <3>1, <3>2
  <2> HIDE DEF i
  <2>3. Raster(size)[i] = <<x, y>>
    BY <2>2 DEF Raster
  <2>4. QED
    BY <2>1, <2>2, <2>3 DEF i, x, y
<1>4. size * size \in 4 .. 16
  OBVIOUS
<1>5. QED
  BY <1>1, <1>2, <1>3, <1>4

\* The first values are those of the block, in raster order.
InRaster(vals, size, luma) ==
  \A i \in 1 .. size * size : vals[i] = luma[Raster(size)[i]]

LEMMA AsBlockIs ==
  ASSUME NEW size \in {2, 4}, NEW luma, luma = [o \in Span(size) |-> luma[o]],
         NEW vals, InRaster(vals, size, luma)
  PROVE  AsBlock(vals, size) = luma
<1>1. ASSUME NEW o \in Span(size)
      PROVE  vals[size * o[2] + o[1] + 1] = luma[o]
  <2> DEFINE i == size * o[2] + o[1] + 1
             m == size * size
  <2>1. i \in 1 .. m /\ Raster(size)[i] = o /\ m \in Nat
    BY RasterIs
  <2>2. \A j \in 1 .. m : vals[j] = luma[Raster(size)[j]]
    BY Zenon DEF InRaster
  <2> HIDE DEF i, m
  <2>5. vals[i] = luma[o]
    BY <2>1, <2>2
  <2>6. QED
    BY <2>5 DEF i
<1>2. AsBlock(vals, size) = [o \in Span(size) |-> luma[o]]
  BY <1>1, Zenon DEF AsBlock
<1>3. QED
  BY <1>2, Zenon

LEMMA ResidualsAre ==
  ASSUME NEW L \in Nat \ {0}, NEW size \in Nat, NEW carried \in Int,
         NEW luma \in [Span(size) -> 0 .. L - 1]
  PROVE  Residuals(luma, size, carried, L) \in [Span(size) -> 0 .. L - 1]
<1>1. ASSUME NEW o \in Span(size)
      PROVE  Prediction(luma, o, carried) \in Int
  <2>1. /\ o = <<o[1], o[2]>> /\ o[1] \in Nat /\ o[2] \in Nat
        /\ o[1] > 0 => <<o[1] - 1, o[2]>> \in Span(size)
        /\ o[2] > 0 => <<o[1], o[2] - 1>> \in Span(size)
        /\ o = <<0, 0>> <=> o[1] = 0 /\ o[2] = 0
    BY DEF Span
  <2>2. \A u \in Span(size) : luma[u] \in Int
    OBVIOUS
  <2>3. QED
    BY <2>1, <2>2 DEF Prediction
<1>2. ASSUME NEW o \in Span(size)
      PROVE  (luma[o] - Prediction(luma, o, carried)) % L \in 0 .. L - 1
  <2>1. PICK q \in Int : q = luma[o] - Prediction(luma, o, carried)
    BY <1>1
  <2>2. q % L \in 0 .. L - 1
    OBVIOUS
  <2>3. QED
    BY <2>1, <2>2
<1>3. QED
  BY <1>2 DEF Residuals

\* The residuals of a block, and the fields they are written as.
BlockResiduals(t, size, p, block) == Residuals(block.luma, size, p.luma, Levels(t))
\* The Huffman codes of a block, in raster order.
ResidualFields(t, size, p, block) ==
  [i \in 1 .. size * size |-> HuffmanField(t, BlockResiduals(t, size, p, block)[Raster(size)[i]])]
ResidualBits(t, size, p, block) == FlattenSeq(ResidualFields(t, size, p, block))

\* What the lists of residuals and of their codes are like.
ResidualsListed(t, size, r, d) ==
  /\ r \in [Span(size) -> Residual(t)]
  /\ d \in Seq(Seq(Bit)) /\ Len(d) = size * size
  /\ \A i \in 1 .. size * size :
       r[Raster(size)[i]] \in Residual(t) /\ d[i] = HuffmanField(t, r[Raster(size)[i]])

LEMMA ResidualFieldsAre ==
  ASSUME NEW t \in AllTypes \ {7}, NEW size \in {2, 4}, NEW p, p.luma \in Int,
         NEW block \in LegalData(t, size)
  PROVE  ResidualsListed(t, size, BlockResiduals(t, size, p, block),
           ResidualFields(t, size, p, block))
<1> DEFINE r == BlockResiduals(t, size, p, block)
           d == ResidualFields(t, size, p, block)
           n == size * size
<1>1. n \in Nat /\ \A i \in 1 .. n : Raster(size)[i] \in Span(size)
  BY RasterIs
<1>2. r \in [Span(size) -> Residual(t)]
  <2>1. block.luma \in [Span(size) -> 0 .. Levels(t) - 1]
    BY LegalDataIs
  <2>2. Levels(t) \in Nat \ {0}
    BY TableIs
  <2> DEFINE L == Levels(t)
             luma == block.luma
             c == p.luma
  <2>3. L \in Nat \ {0} /\ luma \in [Span(size) -> 0 .. L - 1] /\ c \in Int
    BY <2>1, <2>2
  <2> HIDE DEF L, luma, c
  <2>4. Residuals(luma, size, c, L) \in [Span(size) -> 0 .. L - 1]
    BY <2>3, ResidualsAre
  <2>5. QED
    BY <2>4 DEF BlockResiduals, Residual, L, luma, c
<1>3. ASSUME NEW i \in 1 .. n
      PROVE  r[Raster(size)[i]] \in Residual(t) /\
               HuffmanField(t, r[Raster(size)[i]]) \in Seq(Bit)
  <2>1. r[Raster(size)[i]] \in Residual(t)
    <3> HIDE DEF r
    <3>1. QED
      BY <1>1, <1>2
  <2> DEFINE s == r[Raster(size)[i]]
  <2> HIDE DEF s
  <2>2. PICK c, l : CodeWord(t, s, c, l)
    BY <2>1, CodeFieldIs DEF s
  <2>3. HuffmanField(t, s) \in Seq(Bit)
    BY <2>2 DEF CodeWord
  <2>4. QED
    BY <2>1, <2>3 DEF s
<1>4. d = [i \in 1 .. n |-> HuffmanField(t, r[Raster(size)[i]])]
  BY DEF ResidualFields
<1> HIDE DEF r, d, n
<1>5. d \in Seq(Seq(Bit)) /\ Len(d) = n
  <2> DEFINE T == Seq(Bit)
  <2>1. \A i \in 1 .. n : HuffmanField(t, r[Raster(size)[i]]) \in T
    BY <1>3
  <2> HIDE DEF T
  <2>2. d \in Seq(T) /\ Len(d) = n
    BY <1>1, <1>4, <2>1
  <2>3. QED
    BY <2>2 DEF T
<1>6. \A i \in 1 .. n : d[i] = HuffmanField(t, r[Raster(size)[i]])
  BY <1>4
<1>7. QED
  BY <1>2, <1>3, <1>5, <1>6, Zenon DEF ResidualsListed, r, d, n

LEMMA EncodesResiduals ==
  ASSUME NEW t \in AllTypes \ {7}, NEW size \in {2, 4}, NEW p, p.luma \in Int,
         NEW block \in LegalData(t, size), NEW b \in Seq(Bit)
  PROVE  /\ ResidualBits(t, size, p, block) \in Seq(Bit)
         /\ b \o ResidualBits(t, size, p, block) \in Seq(Bit)
         /\ EncodeResiduals(WriterOf(b), t, size, p, block)
              = WriterOf(b \o ResidualBits(t, size, p, block))
<1> DEFINE r == BlockResiduals(t, size, p, block)
           d == ResidualFields(t, size, p, block)
           n == size * size
           w == WriterOf(b)
<1>1. ResidualsListed(t, size, r, d)
  BY ResidualFieldsAre
<1> HIDE DEF d, r, n, w
<1>2. /\ d \in Seq(Seq(Bit)) /\ Len(d) = n
      /\ \A i \in 1 .. n : d[i] = HuffmanField(t, r[Raster(size)[i]])
  BY <1>1, Zenon DEF ResidualsListed, n
<1>3. PICK chain : ResidualsChain(chain, w, t, size, p, block)
  BY ResidualsIsChain
<1>4. /\ chain[0] = w
      /\ \A i \in 1 .. n : chain[i] = HuffmanWrite(chain[i - 1], t, r[Raster(size)[i]])
      /\ EncodeResiduals(w, t, size, p, block) = chain[n]
  BY <1>3, Zenon DEF ResidualsChain, BlockResiduals, r, n
<1>5. \A i \in 1 .. Len(d) : chain[i] = Write(chain[i - 1], d[i])
  BY <1>2, <1>4, Zenon DEF HuffmanWrite
<1>6. chain[0] = WriterOf(b)
  BY <1>4 DEF w
<1>7. /\ FlattenSeq(d) \in Seq(Bit) /\ b \o FlattenSeq(d) \in Seq(Bit)
      /\ chain[Len(d)] = WriterOf(b \o FlattenSeq(d))
  BY <1>2, <1>5, <1>6, WritesAlong
<1>8. QED
  BY <1>2, <1>4, <1>7, Zenon DEF ResidualBits, d, w

LEMMA DecodesResiduals ==
  ASSUME NEW t \in AllTypes \ {7}, NEW size \in {2, 4}, NEW p, p.luma \in Int,
         NEW block \in LegalData(t, size), NEW f, NEW k, NEW u, NEW v,
         Ahead(f, k, ResidualBits(t, size, p, block))
  PROVE  DecodeResiduals(ReaderAt(f, k), t, size, p, u, v)
         = DecodedData(t, size, ReaderAt(f, k + Len(ResidualBits(t, size, p, block))), p,
                       block.luma, u, v)
<1> DEFINE r == BlockResiduals(t, size, p, block)
           d == ResidualFields(t, size, p, block)
           n == size * size
           vals == [i \in 1 .. n |-> r[Raster(size)[i]]]
           reader == ReaderAt(f, k)
           L == Levels(t)
<1>1. ResidualsListed(t, size, r, d)
  BY ResidualFieldsAre
<1>2. n \in Nat /\ \A i \in 1 .. n : vals[i] = r[Raster(size)[i]]
  BY RasterIs
<1>3. Ahead(f, k, FlattenSeq(d))
  BY DEF ResidualBits
<1> HIDE DEF r, d, n, vals, reader, L
<1>4. /\ r \in [Span(size) -> Residual(t)]
      /\ d \in Seq(Seq(Bit)) /\ Len(d) = n
      /\ \A i \in 1 .. n : r[Raster(size)[i]] \in Residual(t)
                            /\ d[i] = HuffmanField(t, r[Raster(size)[i]])
  BY <1>1, Zenon DEF ResidualsListed, n
<1>5. PICK at : Along(at, f, k, d)
  BY <1>3, <1>4, FieldsLieAhead
<1>6. /\ at[0] = k /\ at[n] = k + Len(FlattenSeq(d))
      /\ \A i \in 1 .. n : Ahead(f, at[i - 1], d[i]) /\ at[i] = at[i - 1] + Len(d[i])
  BY <1>4, <1>5, Zenon DEF Along
<1>7. PICK chain : SymbolsChain(chain, reader, t, size, p, u, v)
  BY SymbolsAreChain
<1>8. /\ chain[0] = [reader |-> reader, values |-> <<>>]
      /\ \A i \in 1 .. n : chain[i] = ReadSymbol(t, chain[i - 1])
      /\ DecodeResiduals(reader, t, size, p, u, v)
           = DecodedData(t, size, chain[n].reader, p,
               DecodedLuma(AsBlock(chain[n].values, size), size, p.luma, L), u, v)
  BY <1>7, Zenon DEF SymbolsChain, n, L
<1>9. chain[n] = ValuesState(f, at[n], Firsts(vals, n))
  <2>1. chain[0] = ValuesState(f, at[0], <<>>)
    BY <1>6, <1>8, Zenon DEF ValuesState, reader
  <2>2. ASSUME NEW i \in 1 .. n, NEW values, chain[i - 1] = ValuesState(f, at[i - 1], values)
        PROVE  chain[i] = ValuesState(f, at[i], Append(values, vals[i]))
    <3> DEFINE s == vals[i]
               a == at[i - 1]
    <3>1. s \in Residual(t) /\ d[i] = HuffmanField(t, s)
      BY <1>2, <1>4
    <3>2. Ahead(f, a, d[i]) /\ at[i] = a + Len(d[i])
      BY <1>6
    <3>3. chain[i] = ReadSymbol(t, ValuesState(f, a, values))
      BY <1>8, <2>2
    <3> HIDE DEF s, a
    <3>4. Ahead(f, a, HuffmanField(t, s)) /\ at[i] = a + Len(HuffmanField(t, s))
      BY <3>1, <3>2, Zenon
    <3>5. ReadSymbol(t, ValuesState(f, a, values))
          = ValuesState(f, a + Len(HuffmanField(t, s)), Append(values, s))
      BY <3>1, <3>4, SymbolStep
    <3>6. chain[i] = ValuesState(f, at[i], Append(values, s))
      BY <3>3, <3>4, <3>5, Zenon
    <3>7. QED
      BY <3>6 DEF s
  <2>3. ReadsOn(chain, n, f, at, vals)
    BY <2>1, <2>2, Zenon DEF ReadsOn
  <2>4. QED
    BY <1>2, <2>3, ReadsValues
<1>10. chain[n].reader = ReaderAt(f, at[n]) /\ chain[n].values = Firsts(vals, n)
  BY <1>9 DEF ValuesState
<1>11. AsBlock(Firsts(vals, n), size) = r
  <2>1. r = [o \in Span(size) |-> r[o]]
    BY <1>4
  <2>2. \A i \in 1 .. n : Firsts(vals, n)[i] = r[Raster(size)[i]]
    BY <1>2 DEF Firsts
  <2>3. InRaster(Firsts(vals, n), size, r)
    BY <2>2, Zenon DEF InRaster, n
  <2>4. QED
    BY <2>1, <2>3, AsBlockIs
<1>12. DecodedLuma(r, size, p.luma, L) = block.luma
  <2> DEFINE luma == block.luma
             c == p.luma
  <2>1. L \in Nat \ {0} /\ size \in Nat /\ c \in Int
    BY TableIs DEF L
  <2>2. luma \in [Span(size) -> 0 .. L - 1]
    BY LegalDataIs DEF L
  <2>3. r = Residuals(luma, size, c, L)
    BY DEF r, BlockResiduals, L
  <2> HIDE DEF luma, c
  <2>4. DecodedLuma(Residuals(luma, size, c, L), size, c, L) = luma
    BY <2>1, <2>2, DecodeUndoes
  <2>5. QED
    BY <2>3, <2>4 DEF luma, c
<1>13. DecodeResiduals(reader, t, size, p, u, v)
       = DecodedData(t, size, ReaderAt(f, at[n]), p, block.luma, u, v)
  BY <1>8, <1>10, <1>11, <1>12, Zenon
<1>14. QED
  BY <1>6, <1>13, Zenon DEF reader, ResidualBits, d

-----------------------------------------------------------------------------
(* A data block of types 17, 19 and 20.                                    *)

\* The opcode and the two chroma fields are cut out of the header where they
\* were put.
HeaderParts(h, a, c, e, n) ==
  /\ h \in Seq(Bit) /\ Len(h) = 2 + 2 * n
  /\ SubSeq(h, 1, 2) = a /\ SubSeq(h, 3, 2 + n) = c /\ SubSeq(h, 3 + n, 2 + 2 * n) = e

LEMMA HeaderHasParts ==
  ASSUME NEW n \in Nat, NEW a \in Seq(Bit), NEW c \in Seq(Bit), NEW e \in Seq(Bit),
         Len(a) = 2, Len(c) = n, Len(e) = n
  PROVE  HeaderParts((a \o c) \o e, a, c, e, n)
<1> DEFINE l == a \o c
           h == l \o e
           z == 0
           two == 2
           m == 2 + n
<1>0. l \in Seq(Bit) /\ Len(l) = m
  BY BitsJoin
<1> HIDE DEF l
<1>1. /\ l \in Seq(Bit) /\ Len(l) = m /\ m \in Nat /\ z \in Nat /\ two \in Nat /\ two = Len(a)
      /\ z + 1 = 1 /\ two + 1 = 3 /\ m + 1 = 3 + n /\ m = two + n /\ z \in 0 .. two
      /\ two \in z .. m /\ z \in 0 .. m /\ m + n = 2 + 2 * n /\ two + z = two /\ m + z = m
      /\ z \in 0 .. n /\ n \in z .. n /\ two \in 0 .. m /\ m \in two .. m
  <2> HIDE DEF z, two, m
  <2>1. z = 0 /\ two = 2 /\ m = 2 + n
    BY DEF z, two, m
  <2>2. QED
    BY <1>0, <2>1
<1>2. h \in Seq(Bit) /\ Len(h) = m + n
  <2>1. h \in Seq(Bit) /\ Len(h) = Len(l) + Len(e)
    BY <1>1, BitsJoin, Zenon
  <2>2. Len(l) = m /\ Len(e) = n
    BY <1>1
  <2>3. QED
    BY <2>1, <2>2, Zenon
<1>3. Part(h, z, two) = a
  <2> HIDE DEF z, two, m
  <2>1. Part(h, z, two) = Part(l, z, two)
    BY <1>1, PartOfLeft
  <2>2. Part(l, z, two) = Part(a, z, two)
    <3>1. z \in 0 .. Len(a) /\ two \in z .. Len(a)
      BY <1>1
    <3>2. QED
      BY <3>1, PartOfLeft DEF l
  <2>3. Part(a, z, two) = a
    BY <1>1, WholePart DEF z
  <2>4. QED
    BY <2>1, <2>2, <2>3
<1>4. Part(h, two, m) = c
  <2> HIDE DEF two, m
  <2>1. Part(h, two, m) = Part(l, two, m)
    <3>1. l \in Seq(Bit) /\ two \in 0 .. Len(l) /\ m \in two .. Len(l)
      BY <1>1
    <3>2. QED
      BY <3>1, PartOfLeft
  <2>2. Part(l, Len(a) + z, Len(a) + n) = Part(c, z, n)
    <3>1. z \in 0 .. Len(c) /\ n \in z .. Len(c)
      BY <1>1
    <3> HIDE DEF z
    <3>2. QED
      BY <3>1, PartOfRight DEF l
  <2>3. Part(c, z, n) = c
    BY WholePart
  <2>4. QED
    BY <1>1, <2>1, <2>2, <2>3
<1>5. Part(h, m, m + n) = e
  <2> HIDE DEF m
  <2>1. Part(h, Len(l) + z, Len(l) + n) = Part(e, z, n)
    <3>1. l \in Seq(Bit) /\ z \in 0 .. Len(e) /\ n \in z .. Len(e)
      BY <1>1
    <3> HIDE DEF z
    <3>2. QED
      BY <3>1, PartOfRight
  <2>2. Part(e, z, n) = e
    BY WholePart
  <2>3. QED
    BY <1>1, <2>1, <2>2
<1> HIDE DEF h
<1>6. SubSeq(h, 1, 2) = a
  BY <1>3 DEF Part
<1>7. SubSeq(h, 3, 2 + n) = c
  BY <1>1, <1>4 DEF Part
<1>8. SubSeq(h, 3 + n, 2 + 2 * n) = e
  BY <1>1, <1>5 DEF Part
<1>9. HeaderParts(h, a, c, e, n)
  BY <1>1, <1>2, <1>6, <1>7, <1>8 DEF HeaderParts
<1>10. QED
  BY <1>9 DEF h, l

\* A predictor the residuals can be coded against.
Fit(p) == Settled(p) /\ p.luma \in Int
\* What precedes the residuals: the opcode and both chroma values.
ChromaBitsOf(t, target, carried) == Field(ChromaField(t, target, carried), ChromaFieldBits(t))
HeaderBits(t, size, p, block) ==
  Field(DataOpcode(size), 2) \o ChromaBitsOf(t, block.u, p.u) \o ChromaBitsOf(t, block.v, p.v)

LEMMA ChromaFieldIs ==
  ASSUME NEW t \in AllTypes, NEW target \in Six, target \in LegalChroma(t), NEW carried \in Six
  PROVE  /\ ChromaFieldBits(t) \in 4 .. 6
         /\ ChromaBitsOf(t, target, carried) \in Seq(Bit)
         /\ Len(ChromaBitsOf(t, target, carried)) = ChromaFieldBits(t)
         /\ ValueOf(ChromaBitsOf(t, target, carried)) = ChromaField(t, target, carried)
<1> DEFINE n == ChromaFieldBits(t)
           v == ChromaField(t, target, carried)
<1>1. n \in 4 .. 6
  BY DEF ChromaFieldBits, ChromaBits
<1>2. v \in 0 .. 2 ^ n - 1
  <2>1. CASE t = 205
    <3>1. ChooseDelta(target, carried) \in 0 .. 15
      BY ChoosesClosest
    <3>2. n = 4 /\ v = ChooseDelta(target, carried)
      BY <2>1 DEF ChromaFieldBits, ChromaField
    <3>3. QED
      BY <3>1, <3>2
  <2>2. CASE t # 205
    BY <2>2 DEF ChromaField, ChromaFieldBits, LegalChroma
  <2>3. QED
    BY <2>1, <2>2
<1> HIDE DEF n, v
<1>3. v \in Nat /\ n \in 0 .. 11 /\ ValueOf(Field(v, n)) = v
  <2>1. n \in 0 .. 11
    BY <1>1
  <2>2. QED
    BY <1>2, <2>1, FieldValue
<1>4. QED
  BY <1>1, <1>3, FieldIs DEF n, v, ChromaBitsOf

LEMMA HeaderIs ==
  ASSUME NEW t \in AllTypes, NEW size \in {2, 4}, NEW p, Settled(p),
           NEW block \in LegalData(t, size)
  PROVE  /\ ChromaFieldBits(t) \in 4 .. 6
         /\ HeaderParts(HeaderBits(t, size, p, block), Field(DataOpcode(size), 2),
                        ChromaBitsOf(t, block.u, p.u), ChromaBitsOf(t, block.v, p.v),
                        ChromaFieldBits(t))
         /\ ValueOf(Field(DataOpcode(size), 2)) = DataOpcode(size)
         /\ ValueOf(ChromaBitsOf(t, block.u, p.u)) = ChromaField(t, block.u, p.u)
         /\ ValueOf(ChromaBitsOf(t, block.v, p.v)) = ChromaField(t, block.v, p.v)
<1> DEFINE n == ChromaFieldBits(t)
           o == DataOpcode(size)
           a == Field(o, 2)
           c == ChromaBitsOf(t, block.u, p.u)
           e == ChromaBitsOf(t, block.v, p.v)
<1>1. /\ n \in 4 .. 6 /\ c \in Seq(Bit) /\ Len(c) = n /\ e \in Seq(Bit) /\ Len(e) = n
      /\ ValueOf(c) = ChromaField(t, block.u, p.u) /\ ValueOf(e) = ChromaField(t, block.v, p.v)
  <2>1. /\ block.u \in Six /\ block.v \in Six
        /\ block.u \in LegalChroma(t) /\ block.v \in LegalChroma(t)
    BY LegalDataIs
  <2>2. p.u \in Six /\ p.v \in Six
    BY DEF Settled
  <2>3. QED
    BY <2>1, <2>2, ChromaFieldIs
<1>2. a \in Seq(Bit) /\ Len(a) = 2 /\ ValueOf(a) = o
  <2>1. o \in Nat /\ o \in 0 .. 2 ^ 2 - 1 /\ 2 \in 0 .. 11
    BY DEF DataOpcode
  <2> HIDE DEF o
  <2>2. QED
    BY <2>1, FieldIs, FieldValue
<1>3. n \in Nat
  BY <1>1
<1>4. HeaderBits(t, size, p, block) = (a \o c) \o e
  BY Zenon DEF HeaderBits
<1> HIDE DEF n, o, a, c, e
<1>5. HeaderParts((a \o c) \o e, a, c, e, n)
  BY <1>1, <1>2, <1>3, HeaderHasParts
<1>6. QED
  BY <1>1, <1>2, <1>4, <1>5, Zenon DEF n, o, a, c, e

\* A data block of the types with Huffman codes.
DataBits(t, size, p, block) == HeaderBits(t, size, p, block) \o ResidualBits(t, size, p, block)

LEMMA EncodesData ==
  ASSUME NEW t \in AllTypes \ {7}, NEW size \in {2, 4}, NEW p, Fit(p),
         NEW block \in LegalData(t, size), NEW b \in Seq(Bit)
  PROVE  /\ DataBits(t, size, p, block) \in Seq(Bit)
         /\ b \o DataBits(t, size, p, block) \in Seq(Bit)
         /\ EncodeData(WriterOf(b), t, size, p, block)
              = WriterOf(b \o DataBits(t, size, p, block))
<1> DEFINE h == HeaderBits(t, size, p, block)
           r == ResidualBits(t, size, p, block)
           x == b \o h
<1>1. h \in Seq(Bit)
  <2>1. Settled(p) /\ t \in AllTypes
    BY DEF Fit
  <2>2. QED
    BY <2>1, HeaderIs DEF HeaderParts
<1>2. EncodeHeader(WriterOf(b), t, size, p, block) = Write(WriterOf(b), h)
  BY Zenon DEF EncodeHeader, HeaderBits, ChromaBitsOf
<1> HIDE DEF h
<1>3. x \in Seq(Bit) /\ Write(WriterOf(b), h) = WriterOf(x)
  BY <1>1, WriteMore
<1>4. t # 7
  OBVIOUS
<1>5. EncodeData(WriterOf(b), t, size, p, block) = EncodeResiduals(WriterOf(x), t, size, p, block)
  BY <1>2, <1>3, <1>4, Zenon DEF EncodeData
<1> HIDE DEF x
<1>6. /\ r \in Seq(Bit) /\ x \o r \in Seq(Bit)
      /\ EncodeResiduals(WriterOf(x), t, size, p, block) = WriterOf(x \o r)
  BY <1>3, EncodesResiduals DEF Fit
<1> HIDE DEF r
<1>7. (b \o h) \o r = b \o (h \o r) /\ h \o r \in Seq(Bit)
  <2>1. (b \o h) \o r = b \o (h \o r)
    BY <1>1, <1>6, BitsAssociate, Zenon
  <2>2. h \o r \in Seq(Bit)
    BY <1>1, <1>6, BitsJoin, Zenon
  <2>3. QED
    BY <2>1, <2>2
<1>8. x \o r = b \o (h \o r)
  BY <1>7 DEF x
<1>9. QED
  BY <1>5, <1>6, <1>7, <1>8, Zenon DEF DataBits, h, r

\* The chroma a decoder has of a block.
SettledChroma(t, target, carried) == ChromaOf(t, ChromaField(t, target, carried), carried)
DataDrawn(t, p, block) ==
  Data(block.luma, SettledChroma(t, block.u, p.u), SettledChroma(t, block.v, p.v))

LEMMA DecodesData ==
  ASSUME NEW t \in AllTypes \ {7}, NEW size \in {2, 4}, NEW p, Fit(p),
         NEW block \in LegalData(t, size), NEW f, NEW k, Ahead(f, k, DataBits(t, size, p, block))
  PROVE  DecodeData(ReaderAt(f, k), t, size, p)
         = [reader |-> ReaderAt(f, k + Len(DataBits(t, size, p, block))),
            code |-> DataDrawn(t, p, block), predictor |-> Carried(t, p, block, block.luma, size)]
<1> DEFINE h == HeaderBits(t, size, p, block)
           r == ResidualBits(t, size, p, block)
           n == ChromaFieldBits(t)
           a == Field(DataOpcode(size), 2)
           c == ChromaBitsOf(t, block.u, p.u)
           e == ChromaBitsOf(t, block.v, p.v)
           j == 2 + 2 * n
           u == SettledChroma(t, block.u, p.u)
           v == SettledChroma(t, block.v, p.v)
           header == [field |-> h, reader |-> ReaderAt(f, k + j)]
<1>1. /\ HeaderParts(h, a, c, e, n) /\ n \in 4 .. 6
      /\ ValueOf(a) = DataOpcode(size) /\ ValueOf(c) = ChromaField(t, block.u, p.u)
      /\ ValueOf(e) = ChromaField(t, block.v, p.v)
  <2>1. Settled(p) /\ t \in AllTypes
    BY DEF Fit
  <2>2. QED
    BY <2>1, HeaderIs
<1>2. r \in Seq(Bit)
  <2>1. <<>> \in Seq(Bit)
    OBVIOUS
  <2>2. QED
    BY <2>1, EncodesResiduals DEF Fit
<1>3. Ahead(f, k, h \o r)
  BY DEF DataBits
<1>4. h \in Seq(Bit) /\ Len(h) = j
  BY <1>1 DEF HeaderParts
<1>5. header.field = h /\ header.reader = ReaderAt(f, k + j)
  OBVIOUS
<1> HIDE DEF h, r, n, a, c, e, j, u, v
<1>6. Ahead(f, k, h) /\ Ahead(f, k + Len(h), r) /\ Len(h \o r) = Len(h) + Len(r)
  BY <1>2, <1>3, <1>4, AheadSplits, BitsJoin
<1>7. Read(ReaderAt(f, k), j) = header
  BY <1>4, <1>6, AheadRead
<1> HIDE DEF header
<1>8. DecodeData(ReaderAt(f, k), t, size, p) = DecodeBody(header, t, size, p)
  BY <1>7, Zenon DEF DecodeData, j, n
<1>9. /\ ValueOf(SubSeq(header.field, 1, 2)) = DataOpcode(size)
      /\ ValueOf(SubSeq(header.field, 3, 2 + n)) = ChromaField(t, block.u, p.u)
      /\ ValueOf(SubSeq(header.field, 3 + n, 2 + 2 * n)) = ChromaField(t, block.v, p.v)
  BY <1>1, <1>5, Zenon DEF HeaderParts
<1>10. header.reader.ok = TRUE /\ [header.reader EXCEPT !.ok = TRUE] = ReaderAt(f, k + j)
  <2> DEFINE x == k + j
  <2>1. header.reader = ReaderAt(f, x)
    BY <1>5
  <2> HIDE DEF x
  <2>2. ReaderAt(f, x).ok = TRUE
    BY ReaderIs
  <2>3. [ReaderAt(f, x) EXCEPT !.ok = TRUE] = ReaderAt(f, x)
    BY StillReaderIs
  <2>4. QED
    BY <2>1, <2>2, <2>3, Zenon DEF x
<1>11. DecodeBody(header, t, size, p)
       = DecodeResiduals([header.reader EXCEPT !.ok = TRUE], t, size, p, u, v)
  <2> DEFINE ok == header.reader.ok /\ ValueOf(SubSeq(header.field, 1, 2)) = DataOpcode(size)
  <2>1. ok = TRUE
    BY <1>9, <1>10
  <2>2. DecodeBody(header, t, size, p)
        = DecodeResiduals([header.reader EXCEPT !.ok = ok], t, size, p,
            IF ok THEN ChromaOf(t, ChromaField(t, block.u, p.u), p.u) ELSE 0,
            IF ok THEN ChromaOf(t, ChromaField(t, block.v, p.v), p.v) ELSE 0)
    BY <1>9, Zenon DEF DecodeBody, n
  <2> HIDE DEF ok
  <2>3. QED
    BY <2>1, <2>2 DEF u, v, SettledChroma
<1> DEFINE m == k + j
           q == m + Len(r)
           d == DecodedData(t, size, ReaderAt(f, q), p, block.luma, u, v)
<1>12. Ahead(f, m, r)
  BY <1>4, <1>6
<1>13. q = k + Len(h \o r)
  <2>1. k \in Nat /\ Len(h) \in Nat /\ Len(r) \in Nat
    BY <1>6, AheadIs
  <2>2. QED
    BY <1>4, <1>6, <2>1
<1> HIDE DEF m
<1>14. DecodeResiduals(ReaderAt(f, m), t, size, p, u, v) = d
  BY <1>12, DecodesResiduals DEF Fit, r
<1>15. d = [reader |-> ReaderAt(f, q), code |-> DataDrawn(t, p, block),
            predictor |-> Carried(t, p, block, block.luma, size)]
  <2> DEFINE luma == block.luma
             x == [luma |-> Average(luma, size), u |-> IF t = 205 THEN u ELSE 0,
                   v |-> IF t = 205 THEN v ELSE 0]
  <2>1. t # 7
    OBVIOUS
  <2>2. d = [reader |-> ReaderAt(f, q), code |-> Data(luma, u, v), predictor |-> x]
    BY <2>1, Zenon DEF DecodedData
  <2>3. (IF t = 205 THEN u ELSE 0)
          = (IF t = 205 THEN ChromaOf(205, ChooseDelta(block.u, p.u), p.u) ELSE 0)
        /\ (IF t = 205 THEN v ELSE 0)
          = (IF t = 205 THEN ChromaOf(205, ChooseDelta(block.v, p.v), p.v) ELSE 0)
    BY DEF u, v, SettledChroma, ChromaField
  <2>4. Carried(t, p, block, luma, size) = x
    BY <2>1, <2>3, Zenon DEF Carried
  <2> HIDE DEF x, d
  <2>5. QED
    BY <2>2, <2>4, Zenon DEF DataDrawn, u, v
<1> HIDE DEF q, d
<1>16. QED
  BY <1>8, <1>10, <1>11, <1>13, <1>14, <1>15, Zenon DEF m, DataBits, h, r

\* What the encoder says is drawn is what a decoder draws, and the predictor
\* stays one that can be coded against.
LEMMA DrawnIsReconstructed ==
  ASSUME type \in AllTypes, NEW size \in {2, 4}, NEW p, Fit(p),
           NEW block \in LegalData(type, size)
  PROVE  /\ Reconstructed(type, p, block) = DataDrawn(type, p, block)
         /\ Fit(Carried(type, p, block, block.luma, size))
<1>1. Reconstructed(type, p, block)
      = Data(block.luma,
             IF type = 205 THEN Nearest(block.u, p.u) ELSE block.u,
             IF type = 205 THEN Nearest(block.v, p.v) ELSE block.v)
  BY ReconstructedIs DEF Fit
<1>2. \A target, carried :
        SettledChroma(type, target, carried) =
          IF type = 205 THEN Nearest(target, carried) ELSE target
  BY DEF SettledChroma, ChromaOf, ChromaField, Nearest
<1>3. Settled(Carried(type, p, block, block.luma, size))
  BY CarriedIs DEF Fit
<1>4. Carried(type, p, block, block.luma, size).luma \in Int
  <2>1. CASE type = 7
    BY <2>1 DEF Carried, Fit
  <2>2. CASE type # 7
    <3>1. block.luma \in [Span(size) -> 0 .. Levels(type) - 1]
      BY LegalDataIs
    <3>2. Levels(type) \in Nat
      BY DEF Levels
    <3> DEFINE luma == block.luma
               L == Levels(type)
    <3> HIDE DEF luma, L
    <3>3. luma \in [Span(size) -> Nat]
      BY <3>1, <3>2 DEF luma, L
    <3>4. Average(luma, size) \in Int
      BY <3>3, AverageIs
    <3>5. Carried(type, p, block, luma, size).luma = Average(luma, size)
      BY <2>2 DEF Carried
    <3>6. QED
      BY <3>4, <3>5 DEF luma
  <2>3. QED
    BY <2>1, <2>2
<1>5. QED
  BY <1>1, <1>2, <1>3, <1>4 DEF Fit, DataDrawn

-----------------------------------------------------------------------------
(* A data block of type 7.                                                 *)

LEMMA ThirtyTwo == 2 ^ 5 = 32
<1>1. PICK p : Powers(p)
  BY PowersOfTwo
<1>2. p[0] = 1 /\ \A d \in 1 .. 11 : p[d] = 2 * p[d - 1]
  BY <1>1 DEF Powers
<1>3. p[1] = 2 /\ p[2] = 4
  BY <1>2
<1>4. p[3] = 8 /\ p[4] = 16
  BY <1>2, <1>3
<1>5. p[5] = 32 /\ 5 \in 0 .. 11
  BY <1>2, <1>4
<1>6. 2 ^ 5 = p[5]
  BY <1>1, <1>5 DEF Powers
<1>7. QED
  BY <1>5, <1>6

\* The values behind the opcode: the luma in raster order, and the chroma.
LiteralValue(size, block, i) ==
  IF i <= size * size THEN block.luma[Raster(size)[i]]
  ELSE IF i = size * size + 1 THEN block.u ELSE block.v
\* A data block of type 7: plain fields.
LiteralFields(size, block) ==
  <<Field(1, 1)>> \o [i \in 1 .. size * size |-> Field(block.luma[Raster(size)[i]], 5)]
                  \o <<Field(block.u, 5), Field(block.v, 5)>>
LiteralBits(size, block) == FlattenSeq(LiteralFields(size, block))

\* What the list of its fields is like.
LiteralListed(size, block, d) ==
  /\ d \in Seq(Seq(Bit)) /\ Len(d) = size * size + 3 /\ d[1] = Field(1, 1)
  /\ \A i \in 1 .. size * size + 2 :
       /\ LiteralValue(size, block, i) \in 0 .. 2 ^ 5 - 1
       /\ d[i + 1] = Field(LiteralValue(size, block, i), 5)

LEMMA LiteralFieldsAre ==
  ASSUME NEW size \in {2, 4}, NEW block \in LegalData(7, size)
  PROVE  LiteralListed(size, block, LiteralFields(size, block))
<1> DEFINE n == size * size
           F(v) == Field(v, 5)
           T == Seq(Bit)
           V(i) == LiteralValue(size, block, i)
           a == <<Field(1, 1)>>
           c == [i \in 1 .. n |-> F(V(i))]
           e == <<F(block.u), F(block.v)>>
           d == a \o c \o e
           Y == 0 .. 2 ^ 5 - 1
<1>1. n \in Nat /\ \A i \in 1 .. n : Raster(size)[i] \in Span(size)
  BY RasterIs
<1>2. \A o \in Span(size) : block.luma[o] \in Y
  <2>1. block.luma \in [Span(size) -> 0 .. 32 - 1]
    BY LegalDataIs DEF Levels, AllTypes
  <2>2. Y = 0 .. 32 - 1
    BY ThirtyTwo
  <2>3. QED
    BY <2>1, <2>2
<1>3. block.u \in Y /\ block.v \in Y
  <2>1. block.u \in LegalChroma(7) /\ block.v \in LegalChroma(7)
    BY LegalDataIs DEF AllTypes
  <2>2. ChromaBits(7) = 5
    BY DEF ChromaBits
  <2>3. QED
    BY <2>1, <2>2 DEF LegalChroma
<1>4. \A v \in Y : F(v) \in T
  <2>1. 5 \in 0 .. 11
    OBVIOUS
  <2>2. ASSUME NEW v \in Y
        PROVE  F(v) \in T
    <3>1. v \in Nat
      BY <2>1, FieldValue
    <3>2. QED
      BY <2>1, <3>1, FieldIs
  <2>3. QED
    BY <2>2
<1>5. Field(1, 1) \in T
  <2>1. 1 \in Nat /\ 1 \in 0 .. 11
    OBVIOUS
  <2>2. QED
    BY <2>1, FieldIs
<1> HIDE DEF Y, T, F
<1>6. /\ \A i \in 1 .. n : V(i) = block.luma[Raster(size)[i]]
      /\ V(n + 1) = block.u /\ V(n + 2) = block.v
      /\ \A i \in 1 .. n + 2 : i \in 1 .. n \/ i = n + 1 \/ i = n + 2
  <2>1. ~ (n + 1 <= n) /\ ~ (n + 2 <= n) /\ n + 2 # n + 1
    BY <1>1
  <2>2. \A i \in 1 .. n : i <= n
    BY <1>1
  <2> DEFINE m == n
  <2>3. \A i : V(i) = IF i <= m THEN block.luma[Raster(size)[i]]
                      ELSE IF i = m + 1 THEN block.u ELSE block.v
    BY Zenon DEF LiteralValue
  <2> HIDE DEF V
  <2>4. \A i \in 1 .. n + 2 : i \in 1 .. n \/ i = n + 1 \/ i = n + 2
    <3> HIDE DEF n
    <3>1. QED
      BY <1>1
  <2>5. QED
    BY <2>1, <2>2, <2>3, <2>4
<1> HIDE DEF V
<1>7. \A i \in 1 .. n + 2 : V(i) \in Y
  BY <1>1, <1>2, <1>3, <1>6
<1>8. d = LiteralFields(size, block)
  <2>1. c = [i \in 1 .. n |-> F(block.luma[Raster(size)[i]])]
    BY <1>6
  <2> HIDE DEF c
  <2>2. QED
    BY <2>1 DEF LiteralFields, F
<1> HIDE DEF n
<1>9. a \in Seq(T) /\ Len(a) = 1 /\ a[1] = Field(1, 1)
  BY <1>5
<1>10. c \in Seq(T) /\ Len(c) = n /\ \A i \in 1 .. n : c[i] = F(V(i))
  <2>1. \A i \in 1 .. n : F(V(i)) \in T
    BY <1>1, <1>4, <1>7
  <2>2. QED
    BY <1>1, <2>1
<1>11. e \in Seq(T) /\ Len(e) = 2 /\ e[1] = F(V(n + 1)) /\ e[2] = F(V(n + 2))
  BY <1>3, <1>4, <1>6
<1> DEFINE x == a \o c
<1> HIDE DEF a, c, e
<1>12. /\ x \in Seq(T) /\ Len(x) = n + 1 /\ x[1] = Field(1, 1)
       /\ \A i \in 1 .. n : x[i + 1] = F(V(i))
  <2>1. /\ x \in Seq(T) /\ Len(x) = Len(a) + Len(c) /\ \A i \in 1 .. Len(a) : x[i] = a[i]
        /\ \A i \in 1 .. Len(c) : x[Len(a) + i] = c[i]
    <3>1. a \in Seq(T) /\ c \in Seq(T)
      BY <1>9, <1>10
    <3>2. /\ a \o c \in Seq(T) /\ Len(a \o c) = Len(a) + Len(c)
          /\ \A i \in 1 .. Len(a) : (a \o c)[i] = a[i]
          /\ \A i \in 1 .. Len(c) : (a \o c)[Len(a) + i] = c[i]
      BY <3>1, JoinIs
    <3>3. QED
      BY <3>2
  <2> HIDE DEF x
  <2>2. \A i \in 1 .. n : x[1 + i] = c[i] /\ 1 + i = i + 1
    BY <1>1, <1>9, <1>10, <2>1
  <2>3. QED
    BY <1>1, <1>9, <1>10, <2>1, <2>2
<1>13. d = x \o e
  BY Zenon
<1> HIDE DEF x, d
<1>14. /\ d \in Seq(T) /\ Len(d) = n + 3 /\ d[1] = Field(1, 1)
       /\ \A i \in 1 .. n + 2 : d[i + 1] = F(V(i))
  <2>1. /\ d \in Seq(T) /\ Len(d) = Len(x) + Len(e) /\ \A i \in 1 .. Len(x) : d[i] = x[i]
        /\ \A i \in 1 .. Len(e) : d[Len(x) + i] = e[i]
    <3>1. x \in Seq(T) /\ e \in Seq(T)
      BY <1>11, <1>12
    <3>2. /\ x \o e \in Seq(T) /\ Len(x \o e) = Len(x) + Len(e)
          /\ \A i \in 1 .. Len(x) : (x \o e)[i] = x[i]
          /\ \A i \in 1 .. Len(e) : (x \o e)[Len(x) + i] = e[i]
      BY <3>1, JoinIs
    <3>3. QED
      BY <1>13, <3>2, Zenon
  <2>2. d[1] = Field(1, 1) /\ Len(d) = n + 3
    BY <1>1, <1>11, <1>12, <2>1
  <2>3. ASSUME NEW i \in 1 .. n + 2
        PROVE  d[i + 1] = F(V(i))
    <3>1. CASE i \in 1 .. n
      <4>1. i + 1 \in 1 .. Len(x)
        BY <1>1, <1>12, <3>1
      <4>2. QED
        BY <1>12, <2>1, <3>1, <4>1
    <3>2. CASE i = n + 1
      <4>1. i + 1 = Len(x) + 1 /\ 1 \in 1 .. Len(e)
        BY <1>1, <1>11, <1>12, <3>2
      <4>2. QED
        BY <1>11, <2>1, <3>2, <4>1
    <3>3. CASE i = n + 2
      <4>1. i + 1 = Len(x) + 2 /\ 2 \in 1 .. Len(e)
        BY <1>1, <1>11, <1>12, <3>3
      <4>2. QED
        BY <1>11, <2>1, <3>3, <4>1
    <3>4. QED
      BY <1>6, <3>1, <3>2, <3>3
  <2>4. QED
    BY <2>1, <2>2, <2>3
<1>15. LiteralListed(size, block, d)
  BY <1>7, <1>14, Zenon DEF LiteralListed, n, Y, F, V, T
<1>16. QED
  BY <1>8, <1>15

LEMMA EncodesLiteral ==
  ASSUME NEW size \in {2, 4}, NEW block \in LegalData(7, size), NEW p, NEW b \in Seq(Bit)
  PROVE  /\ LiteralBits(size, block) \in Seq(Bit)
         /\ b \o LiteralBits(size, block) \in Seq(Bit)
         /\ EncodeData(WriterOf(b), 7, size, p, block) = WriterOf(b \o LiteralBits(size, block))
<1> DEFINE d == LiteralFields(size, block)
           w == WriterOf(b)
<1>1. d \in Seq(Seq(Bit))
  BY LiteralFieldsAre DEF LiteralListed
<1>2. EncodeData(w, 7, size, p, block) = WriteAll(w, d)
  BY Zenon DEF EncodeData, EncodeLiteral, LiteralFields
<1> HIDE DEF d
<1>3. /\ FlattenSeq(d) \in Seq(Bit) /\ b \o FlattenSeq(d) \in Seq(Bit)
      /\ WriteAll(WriterOf(b), d) = WriterOf(b \o FlattenSeq(d))
  BY <1>1, WritesFields
<1>4. QED
  BY <1>2, <1>3, Zenon DEF LiteralBits, d

LEMMA DecodesLiteral ==
  ASSUME NEW size \in {2, 4}, NEW block \in LegalData(7, size), NEW p, NEW f, NEW k,
         Ahead(f, k, LiteralBits(size, block))
  PROVE  /\ Ahead(f, k, Field(1, 1))
         /\ DecodeLiteral(ReaderAt(f, k + 1), size, p)
              = [reader |-> ReaderAt(f, k + Len(LiteralBits(size, block))),
                 code |-> block, predictor |-> p]
<1> DEFINE d == LiteralFields(size, block)
           n == size * size
           h == n + 2
           V(i) == LiteralValue(size, block, i)
           vals == [i \in 1 .. h |-> V(i)]
<1>1. /\ d \in Seq(Seq(Bit)) /\ Len(d) = n + 3 /\ d[1] = Field(1, 1)
      /\ \A i \in 1 .. h : V(i) \in 0 .. 2 ^ 5 - 1 /\ d[i + 1] = Field(V(i), 5)
  BY LiteralFieldsAre, Zenon DEF LiteralListed
<1>2. n \in Nat
  BY RasterIs
<1>3. Ahead(f, k, FlattenSeq(d))
  BY DEF LiteralBits
<1> HIDE DEF d, V
<1>4. PICK at : Along(at, f, k, d)
  BY <1>1, <1>3, FieldsLieAhead
<1>5. /\ at[0] = k /\ at[n + 3] = k + Len(FlattenSeq(d))
      /\ \A i \in 1 .. n + 3 : Ahead(f, at[i - 1], d[i]) /\ at[i] = at[i - 1] + Len(d[i])
  BY <1>1, <1>4, Zenon DEF Along
<1>6. Ahead(f, k, Field(1, 1)) /\ at[1] = k + 1
  <2>1. 1 \in 1 .. n + 3 /\ 1 - 1 = 0 /\ 1 \in Nat /\ 1 \in 0 .. 11
    BY <1>2
  <2>2. Len(Field(1, 1)) = 1
    BY <2>1, FieldIs
  <2>3. Ahead(f, at[1 - 1], d[1]) /\ at[1] = at[1 - 1] + Len(d[1])
    BY <1>5, <2>1
  <2>4. QED
    BY <1>1, <1>5, <2>1, <2>2, <2>3
<1> DEFINE to == [i \in 0 .. h |-> at[i + 1]]
           reader == ReaderAt(f, k + 1)
           five == 5
<1>7. h \in Nat /\ h + 1 = n + 3 /\ 0 + 1 = 1
  BY <1>2
<1>8. /\ to[0] = k + 1 /\ to[h] = k + Len(FlattenSeq(d))
      /\ \A i \in 1 .. h : i + 1 \in 1 .. n + 3 /\ to[i - 1] = at[(i + 1) - 1] /\
           to[i] = at[i + 1]
  <2>1. 0 \in 0 .. h /\ h \in 0 .. h
    BY <1>7
  <2>2. \A i \in 1 .. h : i \in 0 .. h /\ i - 1 \in 0 .. h /\ (i - 1) + 1 = (i + 1) - 1
                            /\ i + 1 \in 1 .. n + 3
    BY <1>2
  <2> HIDE DEF h
  <2>3. to[0] = at[0 + 1] /\ to[h] = at[h + 1]
    BY <2>1
  <2>4. \A i \in 1 .. h : to[i - 1] = at[(i + 1) - 1] /\ to[i] = at[i + 1]
    BY <2>2
  <2>5. QED
    BY <1>5, <1>6, <1>7, <2>2, <2>3, <2>4
<1>9. \A i \in 1 .. h : vals[i] = V(i)
  OBVIOUS
<1>10. five = 5 /\ five \in 0 .. 11
  OBVIOUS
<1> HIDE DEF to, reader, vals, h, five
<1>11. PICK chain : ValuesChain(chain, reader, h, five)
  BY <1>7, ValuesAreChain
<1>12. /\ chain[0] = [reader |-> reader, values |-> <<>>]
       /\ \A i \in 1 .. h : chain[i] = ReadValue(chain[i - 1], five)
       /\ ReadFields(reader, h, five) = chain[h]
  BY <1>11, Zenon DEF ValuesChain
<1>13. chain[h] = ValuesState(f, to[h], Firsts(vals, h))
  <2>1. chain[0] = ValuesState(f, to[0], <<>>)
    BY <1>8, <1>12, Zenon DEF ValuesState, reader
  <2>2. ASSUME NEW i \in 1 .. h, NEW values, chain[i - 1] = ValuesState(f, to[i - 1], values)
        PROVE  chain[i] = ValuesState(f, to[i], Append(values, vals[i]))
    <3> DEFINE s == vals[i]
               a == to[i - 1]
               j == i + 1
    <3>1. s \in 0 .. 2 ^ five - 1 /\ d[j] = Field(s, five)
      BY <1>1, <1>9, <1>10
    <3>2. j \in 1 .. n + 3 /\ a = at[j - 1] /\ to[i] = at[j]
      BY <1>8
    <3>3. chain[i] = ReadValue(ValuesState(f, a, values), five)
      BY <1>12, <2>2
    <3> HIDE DEF s, a, j
    <3>4. Ahead(f, a, Field(s, five)) /\ to[i] = a + Len(Field(s, five))
      BY <1>5, <3>1, <3>2
    <3>5. ReadValue(ValuesState(f, a, values), five)
          = ValuesState(f, a + Len(Field(s, five)), Append(values, s))
      BY <1>10, <3>1, <3>4, ValueStep
    <3>6. chain[i] = ValuesState(f, to[i], Append(values, s))
      BY <3>3, <3>4, <3>5, Zenon
    <3>7. QED
      BY <3>6 DEF s
  <2>3. ReadsOn(chain, h, f, to, vals)
    BY <2>1, <2>2, Zenon DEF ReadsOn
  <2>4. QED
    BY <1>7, <2>3, ReadsValues
<1> DEFINE all == chain[h]
           got == Firsts(vals, h)
           q == k + Len(FlattenSeq(d))
<1>14. all.reader = ReaderAt(f, q) /\ all.values = got
  BY <1>8, <1>13 DEF ValuesState
<1>15. \A i \in 1 .. h : got[i] = V(i)
  BY <1>9 DEF Firsts
<1> HIDE DEF all, got, q
<1>16. AsBlock(got, size) = block.luma
  <2>1. block.luma \in [Span(size) -> 0 .. Levels(7) - 1]
    BY LegalDataIs DEF AllTypes
  <2> DEFINE luma == block.luma
  <2>2. luma = [o \in Span(size) |-> luma[o]]
    BY <2>1
  <2> HIDE DEF luma
  <2>3. ASSUME NEW i \in 1 .. n
        PROVE  got[i] = luma[Raster(size)[i]]
    <3>1. i \in 1 .. h /\ i <= n
      <4> HIDE DEF n
      <4>1. QED
        BY <1>2 DEF h
    <3>2. V(i) = luma[Raster(size)[i]]
      BY <3>1 DEF V, LiteralValue, luma
    <3>3. QED
      BY <1>15, <3>1, <3>2
  <2>4. InRaster(got, size, luma)
    BY <2>3, Zenon DEF InRaster
  <2>5. QED
    BY <2>2, <2>4, AsBlockIs DEF luma
<1>17. got[n + 1] = block.u /\ got[n + 2] = block.v
  <2>1. /\ n + 1 \in 1 .. h /\ n + 2 \in 1 .. h
        /\ ~ (n + 1 <= n) /\ ~ (n + 2 <= n) /\ n + 2 # n + 1
    <3> HIDE DEF n
    <3>1. QED
      BY <1>2 DEF h
  <2>2. V(n + 1) = block.u /\ V(n + 2) = block.v
    BY <2>1, Zenon DEF V, LiteralValue
  <2>3. QED
    BY <1>15, <2>1, <2>2
<1>18. DecodeLiteral(reader, size, p)
       = DecodedData(7, size, all.reader, p, AsBlock(all.values, size),
                     all.values[n + 1], all.values[n + 2])
  BY <1>10, <1>12, Zenon DEF DecodeLiteral, all, h
<1>19. DecodeLiteral(reader, size, p)
         = DecodedData(7, size, ReaderAt(f, q), p, block.luma, block.u, block.v)
  BY <1>14, <1>16, <1>17, <1>18
<1>20. Data(block.luma, block.u, block.v) = block
  <2>1. 7 \in AllTypes
    BY DEF AllTypes
  <2>2. QED
    BY <2>1, LegalDataIs
<1>21. DecodeLiteral(reader, size, p)
         = [reader |-> ReaderAt(f, q), code |-> block, predictor |-> p]
  BY <1>19, <1>20, Zenon DEF DecodedData
<1>22. QED
  BY <1>6, <1>21, Zenon DEF reader, q, LiteralBits, d

-----------------------------------------------------------------------------
(* Opcodes: what a reader does when one lies ahead.                        *)

LEMMA SmallFields ==
  /\ Field(0, 1) = <<0>> /\ Field(1, 1) = <<1>> /\ <<0>> # <<1>>
  /\ <<0>> \in Seq(Bit) /\ <<1>> \in Seq(Bit) /\ Len(<<0>>) = 1 /\ Len(<<1>>) = 1
  /\ Field(0, 2) = <<0>> \o <<0>> /\ Field(2, 2) = <<0>> \o <<1>>
<1>1. PICK p : Powers(p)
  BY PowersOfTwo
<1>2. 2 ^ 0 = 1 /\ 2 ^ 1 = 2
  <2>1. 2 ^ 0 = p[0] /\ 2 ^ 1 = p[1] /\ p[0] = 1 /\ p[1] = 2 * p[1 - 1]
    BY <1>1 DEF Powers
  <2>2. 1 - 1 = 0
    OBVIOUS
  <2>3. QED
    BY <2>1, <2>2
<1>3. ASSUME NEW v \in Nat
      PROVE  /\ Field(v, 1) = <<(v \div 1) % 2>>
             /\ Field(v, 2) = <<(v \div 1) % 2, (v \div 2) % 2>>
  <2> DEFINE B(i) == (v \div 2 ^ (i - 1)) % 2
  <2>1. B(1) = (v \div 1) % 2 /\ B(2) = (v \div 2) % 2
    <3>1. 1 - 1 = 0 /\ 2 - 1 = 1
      OBVIOUS
    <3>2. QED
      BY <1>2, <3>1
  <2>2. Field(v, 1) = [i \in 1 .. 1 |-> B(i)] /\ Field(v, 2) = [i \in 1 .. 2 |-> B(i)]
    BY Zenon DEF Field
  <2> HIDE DEF B
  <2>3. [i \in 1 .. 1 |-> B(i)] = <<B(1)>> /\ [i \in 1 .. 2 |-> B(i)] = <<B(1), B(2)>>
    OBVIOUS
  <2>4. QED
    BY <2>1, <2>2, <2>3, Zenon
<1>4. Field(0, 1) = <<0>> /\ Field(1, 1) = <<1>> /\ Field(0, 2) = <<0, 0>> /\
        Field(2, 2) = <<0, 1>>
  <2>1. /\ 0 \in Nat /\ 1 \in Nat /\ 2 \in Nat
        /\ (0 \div 1) % 2 = 0 /\ (1 \div 1) % 2 = 1 /\ (2 \div 1) % 2 = 0
        /\ (0 \div 2) % 2 = 0 /\ (2 \div 2) % 2 = 1
    OBVIOUS
  <2>2. QED
    BY <1>3, <2>1, Zenon
<1>5. <<0, 0>> = <<0>> \o <<0>> /\ <<0, 1>> = <<0>> \o <<1>>
  OBVIOUS
<1>6. /\ <<0>> \in Seq(Bit) /\ <<1>> \in Seq(Bit) /\ Len(<<0>>) = 1 /\ Len(<<1>>) = 1
      /\ <<0>> # <<1>>
  BY DEF Bit
<1>7. QED
  BY <1>4, <1>5, <1>6, Zenon

\* Fields of two bits with different values differ.
LEMMA OpcodesDiffer ==
  /\ \A o \in 0 .. 3 : Field(o, 2) \in Seq(Bit) /\ Len(Field(o, 2)) = 2
  /\ \A o \in 0 .. 3, e \in 0 .. 3 : Field(o, 2) = Field(e, 2) => o = e
<1>1. ASSUME NEW o \in 0 .. 3
      PROVE  Field(o, 2) \in Seq(Bit) /\ Len(Field(o, 2)) = 2 /\ ValueOf(Field(o, 2)) = o
  <2>1. 2 \in 0 .. 11 /\ o \in Nat /\ o \in 0 .. 2 ^ 2 - 1
    OBVIOUS
  <2>2. QED
    BY <2>1, FieldIs, FieldValue
<1>2. QED
  BY <1>1

\* A read takes the bits c and stands at m.
Gets(read, f, c, m) == read.field = c /\ read.reader = ReaderAt(f, m) /\ read.reader.ok = TRUE

LEMMA GetsField ==
  ASSUME NEW f, NEW k, NEW c, Ahead(f, k, c), NEW n, n = Len(c), NEW m, m = k + n
  PROVE  Gets(Read(ReaderAt(f, k), n), f, c, m)
<1> DEFINE read == [field |-> c, reader |-> ReaderAt(f, m)]
<1>1. Read(ReaderAt(f, k), n) = read
  BY AheadRead
<1>2. read.field = c /\ read.reader = ReaderAt(f, m)
  OBVIOUS
<1> HIDE DEF read
<1>3. read.reader.ok = TRUE
  BY <1>2, ReaderIs, Zenon
<1>4. QED
  BY <1>1, <1>2, <1>3, Zenon DEF Gets

\* Two bits are read one by one.
LEMMA GetsBits ==
  ASSUME NEW f, NEW k, NEW a \in Seq(Bit), NEW c \in Seq(Bit), Len(a) = 1, Len(c) = 1,
         Ahead(f, k, a \o c)
  PROVE  /\ k + 1 \in Nat /\ k + 2 = (k + 1) + 1
         /\ Gets(Read(ReaderAt(f, k), 1), f, a, k + 1)
         /\ Gets(Read(ReaderAt(f, k + 1), 1), f, c, k + 2)
<1> DEFINE one == 1
           m == k + one
           n == m + one
<1>1. Ahead(f, k, a) /\ Ahead(f, k + Len(a), c)
  BY AheadSplits
<1>2. k \in Nat
  BY <1>1, AheadIs
<1>3. one = Len(a) /\ one = Len(c) /\ n = k + 2 /\ (k + 1) + 1 = k + 2
  BY <1>2
<1>4. Ahead(f, m, c) /\ m \in Nat
  BY <1>1, <1>2
<1> HIDE DEF one
<1>5. Gets(Read(ReaderAt(f, k), one), f, a, m)
  BY <1>1, <1>3, GetsField
<1> HIDE DEF m
<1>6. Gets(Read(ReaderAt(f, m), one), f, c, n)
  BY <1>3, <1>4, GetsField
<1>7. QED
  BY <1>3, <1>4, <1>5, <1>6 DEF m, one

\* The state of the reader's fold, and the step of it.
ReadingState(f, k, p, codes) == [reader |-> ReaderAt(f, k), predictor |-> p, codes |-> codes]
NextOf(size, state) == IF size = 4 THEN NextBlock(state) ELSE NextChild(state)

\* The parts of that state.
IsReading(s, f, k, p, codes) ==
  s.reader = ReaderAt(f, k) /\ s.reader.ok = TRUE /\ s.predictor = p /\ s.codes = codes

LEMMA ReadingIs ==
  ASSUME NEW f, NEW k, NEW p, NEW codes
  PROVE  IsReading(ReadingState(f, k, p, codes), f, k, p, codes)
<1> DEFINE r == ReaderAt(f, k)
           s == ReadingState(f, k, p, codes)
<1>1. r.ok = TRUE
  BY ReaderIs
<1>2. s = [reader |-> r, predictor |-> p, codes |-> codes]
  BY DEF ReadingState
<1> HIDE DEF r, s
<1>3. s.reader = r /\ s.predictor = p /\ s.codes = codes
  BY <1>2
<1>4. QED
  BY <1>1, <1>3, Zenon DEF r, s, IsReading

\* The opcode of a move, and of a split.
Opcode(t, size) ==
  IF t = 7 THEN IF size = 4 THEN Field(0, 2) ELSE Field(0, 1)
  ELSE IF size = 4 THEN Field(2, 2) ELSE Field(1, 1)
\* The opcode a split begins with.
SplitOpcode(t) == Field(IF t = 7 THEN 2 ELSE 3, 2)

LEMMA OpcodesAre ==
  ASSUME NEW t, NEW size \in {2, 4}
  PROVE  /\ Opcode(t, size) \in Seq(Bit) /\ Len(Opcode(t, size)) = IF size = 4 THEN 2 ELSE 1
         /\ SplitOpcode(t) \in Seq(Bit) /\ Len(SplitOpcode(t)) = 2
         /\ MoveOpcode(size) = Opcode(type, size)
<1>1. /\ Field(0, 2) \in Seq(Bit) /\ Len(Field(0, 2)) = 2
      /\ Field(2, 2) \in Seq(Bit) /\ Len(Field(2, 2)) = 2
      /\ Field(3, 2) \in Seq(Bit) /\ Len(Field(3, 2)) = 2
  <2>1. 0 \in 0 .. 3 /\ 2 \in 0 .. 3 /\ 3 \in 0 .. 3
    OBVIOUS
  <2>2. QED
    BY <2>1, OpcodesDiffer
<1>2. /\ Field(0, 1) \in Seq(Bit) /\ Len(Field(0, 1)) = 1
      /\ Field(1, 1) \in Seq(Bit) /\ Len(Field(1, 1)) = 1
  BY SmallFields
<1>3. MoveOpcode(size) = Opcode(type, size)
  BY DEF MoveOpcode, Opcode
<1>4. QED
  BY <1>1, <1>2, <1>3 DEF Opcode, SplitOpcode

LEMMA MoveOpens ==
  ASSUME NEW size \in {2, 4}, NEW f, NEW k, NEW p, NEW codes, NEW m,
         Ahead(f, k, Opcode(type, size)), m = k + Len(Opcode(type, size))
  PROVE  NextOf(size, ReadingState(f, k, p, codes))
         = ReadMove(ReadingState(f, k, p, codes), ReaderAt(f, m), size)
<1> DEFINE s == ReadingState(f, k, p, codes)
           o == Opcode(type, size)
<1>0. IsReading(s, f, k, p, codes)
  BY ReadingIs, Zenon
<1>2. Len(o) = IF size = 4 THEN 2 ELSE 1
  BY OpcodesAre
<1> HIDE DEF s
<1>1. s.reader = ReaderAt(f, k) /\ s.reader.ok = TRUE
  BY <1>0, Zenon DEF IsReading
<1>3. CASE type = 7 /\ size = 4
  <2>1. Ahead(f, k, <<0>> \o <<0>>) /\ m = k + 2
    BY <1>2, <1>3, SmallFields DEF Opcode
  <2>2. /\ Gets(Read(ReaderAt(f, k), 1), f, <<0>>, k + 1)
        /\ Gets(Read(ReaderAt(f, k + 1), 1), f, <<0>>, m)
    BY <2>1, GetsBits, SmallFields
  <2>3. NextOf(size, s) = ReadBlock7(s, Read(s.reader, 1))
    BY <1>1, <1>3, Zenon DEF NextOf, NextBlock
  <2>4. ReadBlock7(s, Read(s.reader, 1)) = ReadCopy7(s, Read(ReaderAt(f, k + 1), 1))
    BY <1>1, <2>2, SmallFields, Zenon DEF Gets, ReadBlock7
  <2>5. ReadCopy7(s, Read(ReaderAt(f, k + 1), 1)) = ReadMove(s, ReaderAt(f, m), 4)
    BY <2>2, SmallFields, Zenon DEF Gets, ReadCopy7
  <2>6. QED
    BY <1>3, <2>3, <2>4, <2>5 DEF s
<1>4. CASE type = 7 /\ size = 2
  <2>1. o = <<0>> /\ m = k + 1 /\ Len(<<0>>) = 1
    BY <1>2, <1>4, SmallFields DEF Opcode
  <2>2. Gets(Read(ReaderAt(f, k), 1), f, <<0>>, m)
    BY <2>1, GetsField
  <2>3. NextOf(size, s) = ReadChild7(s, Read(s.reader, 1))
    <3>1. size # 4
      BY <1>4
    <3>2. QED
      BY <1>1, <1>4, <3>1, Zenon DEF NextOf, NextChild
  <2>4. ReadChild7(s, Read(s.reader, 1)) = ReadMove(s, ReaderAt(f, m), 2)
    BY <1>1, <2>2, SmallFields, Zenon DEF Gets, ReadChild7
  <2>5. QED
    BY <1>4, <2>3, <2>4 DEF s
<1>5. CASE type # 7 /\ size = 4
  <2>1. o = Field(2, 2) /\ m = k + 2 /\ Len(Field(2, 2)) = 2
    BY <1>2, <1>5 DEF Opcode
  <2>2. Gets(Read(ReaderAt(f, k), 2), f, Field(2, 2), m)
    BY <2>1, GetsField
  <2>3. NextOf(size, s) = ReadBlock(s, Read(s.reader, 2))
    BY <1>1, <1>5, Zenon DEF NextOf, NextBlock
  <2>4. Field(2, 2) # Field(0, 2) /\ Field(2, 2) # Field(1, 2) /\ Field(2, 2) # Field(3, 2)
    BY OpcodesDiffer
  <2>5. ReadBlock(s, Read(s.reader, 2)) = ReadMove(s, ReaderAt(f, m), 4)
    BY <1>1, <2>2, <2>4, SmallFields, Zenon DEF Gets, ReadBlock
  <2>6. QED
    BY <1>5, <2>3, <2>5 DEF s
<1>6. CASE type # 7 /\ size = 2
  <2>1. o = <<1>> /\ m = k + 1 /\ Len(<<1>>) = 1
    BY <1>2, <1>6, SmallFields DEF Opcode
  <2>2. Gets(Read(ReaderAt(f, k), 1), f, <<1>>, m)
    BY <2>1, GetsField
  <2>3. NextOf(size, s) = ReadChild(s, Read(s.reader, 1))
    <3>1. size # 4
      BY <1>6
    <3>2. QED
      BY <1>1, <1>6, <3>1, Zenon DEF NextOf, NextChild
  <2>4. ReadChild(s, Read(s.reader, 1)) = ReadMove(s, ReaderAt(f, m), 2)
    BY <1>1, <2>2, SmallFields, Zenon DEF Gets, ReadChild
  <2>5. QED
    BY <1>6, <2>3, <2>4 DEF s
<1>7. QED
  BY <1>3, <1>4, <1>5, <1>6

LEMMA SplitOpens ==
  ASSUME NEW f, NEW k, NEW p, NEW codes, NEW m, Ahead(f, k, SplitOpcode(type)), m = k + 2
  PROVE  NextOf(4, ReadingState(f, k, p, codes))
         = ReadSplit(ReadingState(f, k, p, codes), ReaderAt(f, m))
<1> DEFINE s == ReadingState(f, k, p, codes)
<1>0. IsReading(s, f, k, p, codes)
  BY ReadingIs, Zenon
<1> HIDE DEF s
<1>1. s.reader = ReaderAt(f, k) /\ s.reader.ok = TRUE
  BY <1>0, Zenon DEF IsReading
<1>2. CASE type = 7
  <2>1. Ahead(f, k, <<0>> \o <<1>>)
    BY <1>2, SmallFields DEF SplitOpcode
  <2>2. /\ Gets(Read(ReaderAt(f, k), 1), f, <<0>>, k + 1)
        /\ Gets(Read(ReaderAt(f, k + 1), 1), f, <<1>>, m)
    BY <2>1, GetsBits, SmallFields
  <2>3. NextOf(4, s) = ReadBlock7(s, Read(s.reader, 1))
    BY <1>1, <1>2, Zenon DEF NextOf, NextBlock
  <2>4. ReadBlock7(s, Read(s.reader, 1)) = ReadCopy7(s, Read(ReaderAt(f, k + 1), 1))
    BY <1>1, <2>2, SmallFields, Zenon DEF Gets, ReadBlock7
  <2>5. ReadCopy7(s, Read(ReaderAt(f, k + 1), 1)) = ReadSplit(s, ReaderAt(f, m))
    BY <2>2, SmallFields, Zenon DEF Gets, ReadCopy7
  <2>6. QED
    BY <2>3, <2>4, <2>5 DEF s
<1>3. CASE type # 7
  <2>1. SplitOpcode(type) = Field(3, 2)
    BY <1>3 DEF SplitOpcode
  <2>2. /\ Field(3, 2) # Field(0, 2) /\ Field(3, 2) # Field(1, 2) /\ Field(3, 2) # Field(2, 2)
        /\ Len(Field(3, 2)) = 2
    BY OpcodesDiffer
  <2>3. Gets(Read(ReaderAt(f, k), 2), f, Field(3, 2), m)
    BY <2>1, <2>2, GetsField
  <2>4. NextOf(4, s) = ReadBlock(s, Read(s.reader, 2))
    BY <1>1, <1>3, Zenon DEF NextOf, NextBlock
  <2>5. ReadBlock(s, Read(s.reader, 2)) = ReadSplit(s, ReaderAt(f, m))
    BY <1>1, <2>2, <2>3, SmallFields, Zenon DEF Gets, ReadBlock
  <2>6. QED
    BY <2>4, <2>5 DEF s
<1>4. QED
  BY <1>2, <1>3

LEMMA StillOpens ==
  ASSUME type # 7, NEW size \in {2, 4}, NEW f, NEW k, NEW p, NEW codes, NEW m,
         Ahead(f, k, Field(0, 2)), m = k + 2
  PROVE  NextOf(size, ReadingState(f, k, p, codes))
         = DrawCode(ReadingState(f, k, p, codes), ReaderAt(f, m), StationaryCode)
<1> DEFINE s == ReadingState(f, k, p, codes)
<1>0. IsReading(s, f, k, p, codes)
  BY ReadingIs, Zenon
<1> HIDE DEF s
<1>1. s.reader = ReaderAt(f, k) /\ s.reader.ok = TRUE
  BY <1>0, Zenon DEF IsReading
<1>2. CASE size = 4
  <2>1. /\ Len(Field(0, 2)) = 2 /\ Field(0, 2) # Field(1, 2) /\ Field(0, 2) # Field(2, 2)
        /\ Field(0, 2) # Field(3, 2)
    BY OpcodesDiffer
  <2>2. Gets(Read(ReaderAt(f, k), 2), f, Field(0, 2), m)
    BY <2>1, GetsField
  <2>3. NextOf(size, s) = ReadBlock(s, Read(s.reader, 2))
    BY <1>1, <1>2, Zenon DEF NextOf, NextBlock
  <2>4. ReadBlock(s, Read(s.reader, 2)) = DrawCode(s, ReaderAt(f, m), StationaryCode)
    BY <1>1, <2>1, <2>2, Zenon DEF Gets, ReadBlock
  <2>5. QED
    BY <2>3, <2>4 DEF s
<1>3. CASE size = 2
  <2>1. Ahead(f, k, <<0>> \o <<0>>)
    BY SmallFields
  <2>2. /\ Gets(Read(ReaderAt(f, k), 1), f, <<0>>, k + 1)
        /\ Gets(Read(ReaderAt(f, k + 1), 1), f, <<0>>, m)
    BY <2>1, GetsBits, SmallFields
  <2>3. NextOf(size, s) = ReadChild(s, Read(s.reader, 1))
    <3>1. size # 4
      BY <1>3
    <3>2. QED
      BY <1>1, <3>1, Zenon DEF NextOf, NextChild
  <2>4. ReadChild(s, Read(s.reader, 1)) = ReadStill(s, Read(ReaderAt(f, k + 1), 1))
    BY <1>1, <2>2, SmallFields, Zenon DEF Gets, ReadChild
  <2>5. ReadStill(s, Read(ReaderAt(f, k + 1), 1)) = DrawCode(s, ReaderAt(f, m), StationaryCode)
    BY <2>2, SmallFields, Zenon DEF Gets, ReadStill
  <2>6. QED
    BY <2>3, <2>4, <2>5 DEF s
<1>4. QED
  BY <1>2, <1>3

LEMMA DataOpens ==
  ASSUME type # 7, NEW size \in {2, 4}, NEW f, NEW k, NEW p, NEW codes,
         Ahead(f, k, Field(DataOpcode(size), 2))
  PROVE  NextOf(size, ReadingState(f, k, p, codes))
         = ReadData(ReadingState(f, k, p, codes), ReaderAt(f, k), size)
<1> DEFINE s == ReadingState(f, k, p, codes)
<1>0. IsReading(s, f, k, p, codes)
  BY ReadingIs, Zenon
<1> HIDE DEF s
<1>1. s.reader = ReaderAt(f, k) /\ s.reader.ok = TRUE
  BY <1>0, Zenon DEF IsReading
<1>2. CASE size = 4
  <2>1. DataOpcode(size) = 1
    BY <1>2 DEF DataOpcode
  <2>2. /\ Len(Field(1, 2)) = 2 /\ Field(1, 2) # Field(0, 2) /\ Field(1, 2) # Field(2, 2)
        /\ Field(1, 2) # Field(3, 2)
    BY OpcodesDiffer
  <2>3. Gets(Read(ReaderAt(f, k), 2), f, Field(1, 2), k + 2)
    BY <2>1, <2>2, GetsField
  <2>4. NextOf(size, s) = ReadBlock(s, Read(s.reader, 2))
    BY <1>1, <1>2, Zenon DEF NextOf, NextBlock
  <2>5. ReadBlock(s, Read(s.reader, 2)) = ReadData(s, ReaderAt(f, k), 4)
    BY <1>1, <2>2, <2>3, SmallFields, Zenon DEF Gets, ReadBlock
  <2>6. QED
    BY <1>2, <2>4, <2>5 DEF s
<1>3. CASE size = 2
  <2>1. Ahead(f, k, <<0>> \o <<1>>)
    <3>1. DataOpcode(size) = 2
      BY <1>3 DEF DataOpcode
    <3>2. QED
      BY <3>1, SmallFields
  <2>2. /\ Gets(Read(ReaderAt(f, k), 1), f, <<0>>, k + 1)
        /\ Gets(Read(ReaderAt(f, k + 1), 1), f, <<1>>, k + 2)
    BY <2>1, GetsBits, SmallFields
  <2>3. NextOf(size, s) = ReadChild(s, Read(s.reader, 1))
    <3>1. size # 4
      BY <1>3
    <3>2. QED
      BY <1>1, <3>1, Zenon DEF NextOf, NextChild
  <2>4. ReadChild(s, Read(s.reader, 1)) = ReadStill(s, Read(ReaderAt(f, k + 1), 1))
    BY <1>1, <2>2, SmallFields, Zenon DEF Gets, ReadChild
  <2>5. ReadStill(s, Read(ReaderAt(f, k + 1), 1)) = ReadData(s, ReaderAt(f, k), 2)
    BY <1>1, <2>2, SmallFields, Zenon DEF Gets, ReadStill
  <2>6. QED
    BY <1>3, <2>3, <2>4, <2>5 DEF s
<1>4. QED
  BY <1>2, <1>3

LEMMA LiteralOpens ==
  ASSUME type = 7, NEW size \in {2, 4}, NEW f, NEW k, NEW p, NEW codes, Ahead(f, k, Field(1, 1))
  PROVE  NextOf(size, ReadingState(f, k, p, codes))
         = ReadLiteral(ReadingState(f, k, p, codes), ReaderAt(f, k + 1), size)
<1> DEFINE s == ReadingState(f, k, p, codes)
<1>0. IsReading(s, f, k, p, codes)
  BY ReadingIs, Zenon
<1> HIDE DEF s
<1>1. s.reader = ReaderAt(f, k) /\ s.reader.ok = TRUE
  BY <1>0, Zenon DEF IsReading
<1>2. Gets(Read(ReaderAt(f, k), 1), f, <<1>>, k + 1)
  <2>1. Ahead(f, k, <<1>>) /\ 1 = Len(<<1>>)
    BY SmallFields
  <2> DEFINE m == k + 1
  <2> HIDE DEF m
  <2>2. m = k + 1
    BY DEF m
  <2>3. Gets(Read(ReaderAt(f, k), 1), f, <<1>>, m)
    BY <2>1, <2>2, GetsField
  <2>4. QED
    BY <2>3 DEF m
<1>3. CASE size = 4
  <2>1. NextOf(size, s) = ReadBlock7(s, Read(s.reader, 1))
    BY <1>1, <1>3, Zenon DEF NextOf, NextBlock
  <2>2. ReadBlock7(s, Read(s.reader, 1)) = ReadLiteral(s, ReaderAt(f, k + 1), 4)
    BY <1>1, <1>2, SmallFields, Zenon DEF Gets, ReadBlock7
  <2>3. QED
    BY <1>3, <2>1, <2>2 DEF s
<1>4. CASE size = 2
  <2>1. NextOf(size, s) = ReadChild7(s, Read(s.reader, 1))
    <3>1. size # 4
      BY <1>4
    <3>2. QED
      BY <1>1, <3>1, Zenon DEF NextOf, NextChild
  <2>2. ReadChild7(s, Read(s.reader, 1)) = ReadLiteral(s, ReaderAt(f, k + 1), 2)
    BY <1>1, <1>2, SmallFields, Zenon DEF Gets, ReadChild7
  <2>3. QED
    BY <1>4, <2>1, <2>2 DEF s
<1>5. QED
  BY <1>3, <1>4

-----------------------------------------------------------------------------
(* The bits of one code that is not a split.                               *)

\* The body of a data block, as its writer is in LumaCodes.
DataBody(t, size, p, block) ==
  IF t = 7 THEN LiteralBits(size, block) ELSE DataBits(t, size, p, block)

\* The bits of a copy.
CopyBits(t, size, body, out) ==
  \/ t # 7 /\ body = Field(0, 2) /\ out = StationaryCode
  \/ \E v, m : MotionBody(t, size, v, m) /\ body = Opcode(t, size) \o m /\ out = MotionCode(v)

\* The bits of a data block, and the predictor after it.
ValueBits(t, size, p, body, q, out) ==
  \E block \in LegalData(t, size) :
    /\ body = DataBody(t, size, p, block)
    /\ q = Carried(t, p, block, block.luma, size)
    /\ out = DataDrawn(t, p, block)

\* The bits body say the code out, read after a data block that left the
\* predictor p, and leave q.
CodeBits(t, size, p, body, q, out) ==
  /\ Fit(p) /\ Fit(q) /\ body \in Seq(Bit)
  /\ \/ CopyBits(t, size, body, out) /\ q = p
     \/ ValueBits(t, size, p, body, q, out)

LEMMA DrawsCode ==
  ASSUME NEW f, NEW k, NEW n, NEW p, NEW codes, NEW c
  PROVE  DrawCode(ReadingState(f, k, p, codes), ReaderAt(f, n), c)
         = ReadingState(f, n, p, Append(codes, c))
<1> DEFINE s == ReadingState(f, k, p, codes)
           r == ReaderAt(f, n)
           x == Append(codes, c)
<1>1. s = [reader |-> ReaderAt(f, k), predictor |-> p, codes |-> codes]
  BY Zenon DEF ReadingState
<1>2. IsReading(s, f, k, p, codes)
  BY ReadingIs, Zenon
<1> HIDE DEF s
<1>3. s.codes = codes
  BY <1>2, Zenon DEF IsReading
<1>4. DrawCode(s, r, c) = PutRead(s, r, x)
  BY <1>3, Zenon DEF DrawCode, PutRead
<1>5. ReadingState(f, n, p, x) = [reader |-> r, predictor |-> p, codes |-> x]
  BY Zenon DEF ReadingState
<1> HIDE DEF r, x
<1>6. PutRead(s, r, x) = [reader |-> r, predictor |-> p, codes |-> x]
  BY <1>1, PutReadIs
<1>7. DrawCode(s, r, c) = ReadingState(f, n, p, x)
  BY <1>4, <1>5, <1>6, Zenon
<1>8. QED
  BY <1>7 DEF s, r, x

LEMMA DrawsMove ==
  ASSUME NEW f, NEW k, NEW n, NEW m, NEW p, NEW codes, NEW size, NEW v,
         ReadMotion(type, size, ReaderAt(f, m)) = [reader |-> ReaderAt(f, n), vector |-> v]
  PROVE  ReadMove(ReadingState(f, k, p, codes), ReaderAt(f, m), size)
         = ReadingState(f, n, p, Append(codes, MotionCode(v)))
<1> DEFINE s == ReadingState(f, k, p, codes)
           r == ReaderAt(f, n)
           motion == ReadMotion(type, size, ReaderAt(f, m))
<1>1. motion = [reader |-> r, vector |-> v]
  OBVIOUS
<1>2. ReadMove(s, ReaderAt(f, m), size) = DrawMove(s, motion)
  BY Zenon DEF ReadMove
<1>3. DrawCode(s, r, MotionCode(v)) = ReadingState(f, n, p, Append(codes, MotionCode(v)))
  BY DrawsCode
<1> HIDE DEF s, r, motion
<1>4. motion.reader = r /\ motion.vector = v
  BY <1>1
<1>5. DrawMove(s, motion) = DrawCode(s, r, MotionCode(v))
  BY <1>4, Zenon DEF DrawMove
<1>6. ReadMove(s, ReaderAt(f, m), size) = ReadingState(f, n, p, Append(codes, MotionCode(v)))
  BY <1>2, <1>3, <1>5, Zenon
<1>7. QED
  BY <1>6 DEF s

LEMMA DrawsData ==
  ASSUME NEW f, NEW k, NEW n, NEW p, NEW q, NEW codes, NEW c,
         NEW data, data = [reader |-> ReaderAt(f, n), code |-> c, predictor |-> q]
  PROVE  DrawData(ReadingState(f, k, p, codes), data) = ReadingState(f, n, q, Append(codes, c))
<1> DEFINE s == ReadingState(f, k, p, codes)
           r == ReaderAt(f, n)
<1>1. data.reader = r /\ data.code = c /\ data.predictor = q
  OBVIOUS
<1>2. IsReading(s, f, k, p, codes)
  BY ReadingIs, Zenon
<1> HIDE DEF s
<1>3. s.codes = codes
  BY <1>2, Zenon DEF IsReading
<1>4. DrawData(s, data) = [reader |-> r, predictor |-> q, codes |-> Append(codes, c)]
  BY <1>1, <1>3, Zenon DEF DrawData
<1>5. ReadingState(f, n, q, Append(codes, c))
        = [reader |-> r, predictor |-> q, codes |-> Append(codes, c)]
  BY Zenon DEF ReadingState
<1>6. DrawData(s, data) = ReadingState(f, n, q, Append(codes, c))
  BY <1>4, <1>5, Zenon
<1>7. QED
  BY <1>6 DEF s

\* The bits body, wherever they lie ahead, are read as the code out.
ReadsAs(size, f, k, p, codes, body, q, out) ==
  NextOf(size, ReadingState(f, k, p, codes))
  = ReadingState(f, k + Len(body), q, Append(codes, out))

LEMMA ReadsStill ==
  ASSUME type # 7, NEW size \in {2, 4}, NEW f, NEW k, NEW p, NEW codes,
         Ahead(f, k, Field(0, 2))
  PROVE  ReadsAs(size, f, k, p, codes, Field(0, 2), p, StationaryCode)
<1>1. Len(Field(0, 2)) = 2
  BY OpcodesDiffer
<1> DEFINE m == k + 2
<1>2. m = k + Len(Field(0, 2)) /\ m = k + 2
  BY <1>1
<1> HIDE DEF m
<1>3. NextOf(size, ReadingState(f, k, p, codes))
      = DrawCode(ReadingState(f, k, p, codes), ReaderAt(f, m), StationaryCode)
  BY <1>2, StillOpens
<1>4. DrawCode(ReadingState(f, k, p, codes), ReaderAt(f, m), StationaryCode)
      = ReadingState(f, m, p, Append(codes, StationaryCode))
  BY DrawsCode
<1>5. QED
  BY <1>2, <1>3, <1>4, Zenon DEF ReadsAs

LEMMA ReadsMove ==
  ASSUME NEW size \in {2, 4}, NEW v, NEW m, MotionBody(type, size, v, m),
         NEW f, NEW k, NEW p, NEW codes, Ahead(f, k, Opcode(type, size) \o m)
  PROVE  ReadsAs(size, f, k, p, codes, Opcode(type, size) \o m, p, MotionCode(v))
<1> DEFINE o == Opcode(type, size)
           l == k + Len(o)
           n == l + Len(m)
           s == ReadingState(f, k, p, codes)
<1>1. o \in Seq(Bit)
  BY OpcodesAre
<1>2. m \in Seq(Bit)
  BY Zenon DEF MotionBody
<1>3. Ahead(f, k, o) /\ Ahead(f, l, m)
  BY <1>1, <1>2, AheadSplits
<1>4. k \in Nat
  BY <1>3, AheadIs
<1>5. n = k + Len(o \o m)
  BY <1>1, <1>2, <1>4, BitsJoin
<1>6. ReadMotion(type, size, ReaderAt(f, l)) = [reader |-> ReaderAt(f, n), vector |-> v]
  <2>1. ReadMotion(type, size, ReaderAt(f, l))
          = [reader |-> ReaderAt(f, l + Len(m)), vector |-> v]
    BY <1>3, Zenon DEF MotionBody
  <2>2. QED
    BY <2>1, Zenon DEF n
<1>7. NextOf(size, s) = ReadMove(s, ReaderAt(f, l), size)
  BY <1>3, MoveOpens
<1> HIDE DEF n, l
<1>8. ReadMove(s, ReaderAt(f, l), size) = ReadingState(f, n, p, Append(codes, MotionCode(v)))
  BY <1>6, DrawsMove
<1>9. QED
  BY <1>5, <1>7, <1>8, Zenon DEF ReadsAs

LEMMA HeaderLeads ==
  ASSUME NEW t \in AllTypes \ {7}, NEW size \in {2, 4}, NEW p, Fit(p),
         NEW block \in LegalData(t, size), NEW f, NEW k, Ahead(f, k, DataBits(t, size, p, block))
  PROVE  Ahead(f, k, Field(DataOpcode(size), 2))
<1> DEFINE a == Field(DataOpcode(size), 2)
           c == ChromaBitsOf(t, block.u, p.u)
           e == ChromaBitsOf(t, block.v, p.v)
           r == ResidualBits(t, size, p, block)
<1>1. r \in Seq(Bit)
  <2>1. <<>> \in Seq(Bit)
    OBVIOUS
  <2>2. QED
    BY <2>1, EncodesResiduals DEF Fit
<1>2. c \in Seq(Bit) /\ e \in Seq(Bit)
  <2>1. block.u \in Six /\ block.v \in Six /\ block.u \in LegalChroma(t) /\
          block.v \in LegalChroma(t)
    BY LegalDataIs
  <2>2. p.u \in Six /\ p.v \in Six
    BY DEF Fit, Settled
  <2>3. QED
    BY <2>1, <2>2, ChromaFieldIs
<1>3. a \in Seq(Bit)
  <2>1. DataOpcode(size) \in 0 .. 3
    BY DEF DataOpcode
  <2>2. QED
    BY <2>1, OpcodesDiffer
<1>4. Ahead(f, k, (a \o c \o e) \o r)
  BY DEF DataBits, HeaderBits
<1> HIDE DEF a, c, e, r
<1>5. (a \o c) \in Seq(Bit) /\ (a \o c) \o e \in Seq(Bit)
  BY <1>2, <1>3, BitsJoin
<1>6. Ahead(f, k, (a \o c) \o e)
  BY <1>1, <1>4, <1>5, AheadSplits
<1>7. Ahead(f, k, a \o c)
  BY <1>2, <1>5, <1>6, AheadSplits
<1>8. Ahead(f, k, a)
  BY <1>2, <1>3, <1>7, AheadSplits
<1>9. QED
  BY <1>8 DEF a

LEMMA ReadsHeaded ==
  ASSUME type \in AllTypes, type # 7, NEW size \in {2, 4}, NEW p, Fit(p),
         NEW block \in LegalData(type, size), NEW f, NEW k, NEW codes,
         Ahead(f, k, DataBits(type, size, p, block))
  PROVE  ReadsAs(size, f, k, p, codes, DataBits(type, size, p, block),
                 Carried(type, p, block, block.luma, size), DataDrawn(type, p, block))
<1> DEFINE s == ReadingState(f, k, p, codes)
           n == k + Len(DataBits(type, size, p, block))
           q == Carried(type, p, block, block.luma, size)
           c == DataDrawn(type, p, block)
           data == DecodeData(ReaderAt(f, k), type, size, p)
<1>1. type \in AllTypes \ {7}
  OBVIOUS
<1>2. Ahead(f, k, Field(DataOpcode(size), 2))
  BY <1>1, HeaderLeads
<1>3. data = [reader |-> ReaderAt(f, n), code |-> c, predictor |-> q]
  BY <1>1, DecodesData
<1>4. NextOf(size, s) = ReadData(s, ReaderAt(f, k), size)
  BY <1>2, DataOpens
<1>5. IsReading(s, f, k, p, codes)
  BY ReadingIs, Zenon
<1> HIDE DEF s
<1>6. ReadData(s, ReaderAt(f, k), size) = DrawData(s, data)
  BY <1>5, Zenon DEF IsReading, ReadData
<1> HIDE DEF n, q, c, data
<1>7. DrawData(s, data) = ReadingState(f, n, q, Append(codes, c))
  BY <1>3, DrawsData DEF s
<1>8. NextOf(size, s) = ReadingState(f, n, q, Append(codes, c))
  BY <1>4, <1>6, <1>7, Zenon
<1>9. QED
  BY <1>8, Zenon DEF ReadsAs, n, q, c, s

LEMMA ReadsLiteral ==
  ASSUME type = 7, NEW size \in {2, 4}, NEW p,
         NEW block \in LegalData(7, size), NEW f, NEW k, NEW codes,
         Ahead(f, k, LiteralBits(size, block))
  PROVE  ReadsAs(size, f, k, p, codes, LiteralBits(size, block), p, block)
<1> DEFINE s == ReadingState(f, k, p, codes)
           n == k + Len(LiteralBits(size, block))
           m == k + 1
           data == DecodeLiteral(ReaderAt(f, m), size, p)
<1>1. Ahead(f, k, Field(1, 1)) /\
        data = [reader |-> ReaderAt(f, n), code |-> block, predictor |-> p]
  BY DecodesLiteral
<1>2. NextOf(size, s) = ReadLiteral(s, ReaderAt(f, m), size)
  BY <1>1, LiteralOpens
<1>3. IsReading(s, f, k, p, codes)
  BY ReadingIs, Zenon
<1> HIDE DEF s, m
<1>4. ReadLiteral(s, ReaderAt(f, m), size) = DrawData(s, data)
  BY <1>3, Zenon DEF IsReading, ReadLiteral
<1> HIDE DEF n, data
<1>5. DrawData(s, data) = ReadingState(f, n, p, Append(codes, block))
  BY <1>1, DrawsData DEF s
<1>6. NextOf(size, s) = ReadingState(f, n, p, Append(codes, block))
  BY <1>2, <1>4, <1>5, Zenon
<1>7. QED
  BY <1>6, Zenon DEF ReadsAs, n, s

\* Of type 7 a data block is drawn as it is.
LEMMA LiteralDrawn ==
  ASSUME NEW size, NEW p, NEW block \in LegalData(7, size)
  PROVE  Carried(7, p, block, block.luma, size) = p /\ DataDrawn(7, p, block) = block
<1>1. Carried(7, p, block, block.luma, size) = p
  BY DEF Carried
<1>2. block = Data(block.luma, block.u, block.v)
  <2>1. 7 \in AllTypes
    BY DEF AllTypes
  <2>2. QED
    BY <2>1, LegalDataIs
<1>3. DataDrawn(7, p, block) = Data(block.luma, block.u, block.v)
  BY DEF DataDrawn, SettledChroma, ChromaOf, ChromaField
<1>4. QED
  BY <1>1, <1>2, <1>3, Zenon

LEMMA ReadsValue ==
  ASSUME type \in AllTypes, NEW size \in {2, 4}, NEW p, Fit(p), NEW body, NEW q, NEW out,
         ValueBits(type, size, p, body, q, out), NEW f, NEW k, NEW codes, Ahead(f, k, body)
  PROVE  ReadsAs(size, f, k, p, codes, body, q, out)
<1>1. PICK block \in LegalData(type, size) :
        /\ body = DataBody(type, size, p, block)
        /\ q = Carried(type, p, block, block.luma, size)
        /\ out = DataDrawn(type, p, block)
  BY Zenon DEF ValueBits
<1>2. CASE type = 7
  <2>1. body = LiteralBits(size, block) /\ block \in LegalData(7, size)
    BY <1>1, <1>2 DEF DataBody
  <2>2. q = p /\ out = block
    BY <1>1, <1>2, <2>1, LiteralDrawn
  <2>3. ReadsAs(size, f, k, p, codes, LiteralBits(size, block), p, block)
    BY <1>2, <2>1, ReadsLiteral
  <2>4. QED
    BY <2>1, <2>2, <2>3, Zenon
<1>3. CASE type # 7
  <2>1. body = DataBits(type, size, p, block)
    BY <1>1, <1>3 DEF DataBody
  <2>2. ReadsAs(size, f, k, p, codes, DataBits(type, size, p, block),
                Carried(type, p, block, block.luma, size), DataDrawn(type, p, block))
    BY <1>3, <2>1, ReadsHeaded
  <2>3. QED
    BY <1>1, <2>1, <2>2, Zenon
<1>4. QED
  BY <1>2, <1>3

LEMMA ReadsCopy ==
  ASSUME NEW size \in {2, 4}, NEW p, NEW body, NEW out, CopyBits(type, size, body, out),
         NEW f, NEW k, NEW codes, Ahead(f, k, body)
  PROVE  ReadsAs(size, f, k, p, codes, body, p, out)
<1>1. CASE type # 7 /\ body = Field(0, 2) /\ out = StationaryCode
  <2>1. ReadsAs(size, f, k, p, codes, Field(0, 2), p, StationaryCode)
    BY <1>1, ReadsStill
  <2>2. QED
    BY <1>1, <2>1, Zenon
<1>2. ASSUME NEW v, NEW m, MotionBody(type, size, v, m), body = Opcode(type, size) \o m,
             out = MotionCode(v)
      PROVE  ReadsAs(size, f, k, p, codes, body, p, out)
  <2>1. ReadsAs(size, f, k, p, codes, Opcode(type, size) \o m, p, MotionCode(v))
    BY <1>2, ReadsMove
  <2>2. QED
    BY <1>2, <2>1, Zenon
<1>3. QED
  BY <1>1, <1>2, Zenon DEF CopyBits

LEMMA ReadsCode ==
  ASSUME type \in AllTypes, NEW size \in {2, 4}, NEW p, NEW body, NEW q, NEW out,
         CodeBits(type, size, p, body, q, out), NEW f, NEW k, NEW codes, Ahead(f, k, body)
  PROVE  ReadsAs(size, f, k, p, codes, body, q, out)
<1>1. CASE CopyBits(type, size, body, out) /\ q = p
  BY <1>1, ReadsCopy
<1>2. CASE ValueBits(type, size, p, body, q, out)
  <2>1. Fit(p)
    BY Zenon DEF CodeBits
  <2>2. QED
    BY <1>2, <2>1, ReadsValue
<1>3. QED
  BY <1>1, <1>2, Zenon DEF CodeBits

-----------------------------------------------------------------------------
(* Codes one behind the other: behind the bits x, the bits b say codes,    *)
(* of which the i-th ends at bit at[i] and leaves the predictor ps[i].     *)

Laid(x, b, p, q, n, at, ps) ==
  /\ at[0] = Len(x) /\ at[n] = Len(b) /\ ps[0] = p /\ ps[n] = q
  /\ \A i \in 0 .. n : at[i] \in 0 .. Len(b)
  /\ \A i \in 1 .. n : at[i - 1] <= at[i]
  /\ Part(b, 0, Len(x)) = x

\* The pieces are the bits of these codes: for the children of a split.
ChildMarks(t, x, b, p, q, codes, at, ps) ==
  /\ Laid(x, b, p, q, Len(codes), at, ps)
  /\ \A i \in 1 .. Len(codes) :
       CodeBits(t, 2, ps[i - 1], Part(b, at[i - 1], at[i]), ps[i], codes[i])

ChildTrail(t, x, b, p, q, codes) ==
  /\ x \in Seq(Bit) /\ b \in Seq(Bit) /\ IsSeq(codes)
  /\ \E at, ps : ChildMarks(t, x, b, p, q, codes, at, ps)

\* The bits of a split are its opcode and the trail of its children.
SplitBits(t, p, body, q, out) ==
  /\ Fit(p) /\ Fit(q) /\ body \in Seq(Bit)
  /\ \E codes : /\ Len(codes) = 4 /\ out = SplitCode(codes)
                /\ ChildTrail(t, SplitOpcode(t), body, p, q, codes)

\* Of a whole block, or of a quarter.
UnitBits(t, size, p, body, q, out) ==
  \/ CodeBits(t, size, p, body, q, out)
  \/ size = 4 /\ SplitBits(t, p, body, q, out)

\* The pieces are the bits of these codes: for the blocks of a frame too.
Marks(t, size, x, b, p, q, codes, at, ps) ==
  /\ Laid(x, b, p, q, Len(codes), at, ps)
  /\ \A i \in 1 .. Len(codes) :
       UnitBits(t, size, ps[i - 1], Part(b, at[i - 1], at[i]), ps[i], codes[i])

\* Behind x, the bits of b are those of codes.
Trail(t, size, x, b, p, q, codes) ==
  /\ x \in Seq(Bit) /\ b \in Seq(Bit) /\ IsSeq(codes)
  /\ \E at, ps : Marks(t, size, x, b, p, q, codes, at, ps)

LEMMA ChildTrailIs ==
  ASSUME NEW t, NEW x, NEW b, NEW p, NEW q, NEW codes
  PROVE  Trail(t, 2, x, b, p, q, codes) <=> ChildTrail(t, x, b, p, q, codes)
<1>1. \A r, body, s, out : UnitBits(t, 2, r, body, s, out) <=> CodeBits(t, 2, r, body, s, out)
  <2>1. 2 # 4
    OBVIOUS
  <2>2. QED
    BY <2>1, Zenon DEF UnitBits
<1>2. \A at, ps : Marks(t, 2, x, b, p, q, codes, at, ps)
        <=> ChildMarks(t, x, b, p, q, codes, at, ps)
  BY <1>1, Zenon DEF Marks, ChildMarks
<1>3. QED
  BY <1>2, Zenon DEF Trail, ChildTrail

LEMMA UnitIs ==
  ASSUME NEW t, NEW size, NEW p, NEW body, NEW q, NEW out, UnitBits(t, size, p, body, q, out)
  PROVE  Fit(p) /\ Fit(q) /\ body \in Seq(Bit)
BY Zenon DEF UnitBits, CodeBits, SplitBits

LEMMA TrailStarts ==
  ASSUME NEW t, NEW size, NEW x \in Seq(Bit), NEW p
  PROVE  Trail(t, size, x, x, p, p, <<>>)
<1> DEFINE at == [i \in 0 .. 0 |-> Len(x)]
           ps == [i \in 0 .. 0 |-> p]
           none == <<>>
<1>1. Len(none) = 0 /\ IsSeq(none) /\ 1 .. 0 = {} /\ 0 .. 0 = {0}
  <2>1. none \in Seq({})
    OBVIOUS
  <2>2. QED
    BY <2>1 DEF IsSeq
<1>2. at[0] = Len(x) /\ ps[0] = p
  OBVIOUS
<1>3. Len(x) \in 0 .. Len(x)
  OBVIOUS
<1>4. Part(x, 0, Len(x)) = x
  BY WholePart
<1> HIDE DEF at, ps, none
<1>5. Laid(x, x, p, p, 0, at, ps)
  BY <1>1, <1>2, <1>3, <1>4 DEF Laid
<1>6. Marks(t, size, x, x, p, p, none, at, ps)
  BY <1>1, <1>5, Zenon DEF Marks
<1>7. Trail(t, size, x, x, p, p, none)
  BY <1>1, <1>6, Zenon DEF Trail
<1>8. QED
  BY <1>7 DEF none

\* One more place: what was there stays, what comes is at the end.
Extended(f, n, e) == [i \in 0 .. n + 1 |-> IF i <= n THEN f[i] ELSE e]
LEMMA ExtendedIs ==
  ASSUME NEW n \in Nat, NEW f, NEW e
  PROVE  /\ \A i \in 0 .. n : Extended(f, n, e)[i] = f[i]
         /\ Extended(f, n, e)[n + 1] = e
BY DEF Extended

LEMMA LaidOn ==
  ASSUME NEW x \in Seq(Bit), NEW b \in Seq(Bit), NEW body \in Seq(Bit),
         NEW p, NEW q, NEW r, NEW n \in Nat, NEW at, NEW ps, Laid(x, b, p, q, n, at, ps)
  PROVE  Laid(x, b \o body, p, r, n + 1, Extended(at, n, Len(b) + Len(body)), Extended(ps, n, r))
<1> DEFINE l == Len(b) + Len(body)
           at2 == Extended(at, n, l)
           ps2 == Extended(ps, n, r)
           whole == b \o body
           m == n + 1
<1>1. /\ at[0] = Len(x) /\ at[n] = Len(b) /\ ps[0] = p
      /\ \A i \in 0 .. n : at[i] \in 0 .. Len(b)
      /\ \A i \in 1 .. n : at[i - 1] <= at[i]
      /\ Part(b, 0, Len(x)) = x
  BY Zenon DEF Laid
<1>2. Len(whole) = l /\ Len(b) \in Nat /\ Len(body) \in Nat /\ whole \in Seq(Bit)
  BY BitsJoin
<1>3. /\ \A i \in 0 .. n : at2[i] = at[i]
      /\ \A i \in 0 .. n : ps2[i] = ps[i]
      /\ at2[m] = l /\ ps2[m] = r
  BY ExtendedIs
<1>4. 0 \in 0 .. n /\ n \in 0 .. n
  OBVIOUS
<1>5. Len(x) \in 0 .. Len(b)
  BY <1>1, <1>4
<1>6. Part(whole, 0, Len(x)) = x
  <2>1. 0 \in 0 .. Len(b)
    BY <1>2
  <2>2. Part(whole, 0, Len(x)) = Part(b, 0, Len(x))
    BY <1>5, <2>1, PartOfLeft
  <2>3. QED
    BY <1>1, <2>2
<1> HIDE DEF at2, ps2, whole
<1>7. l \in Nat /\ Len(b) <= l /\ l \in 0 .. l
  BY <1>2
<1>8. \A i \in 0 .. m : at2[i] \in 0 .. l
  <2>1. TAKE i \in 0 .. m
  <2>2. CASE i \in 0 .. n
    <3>1. at2[i] \in 0 .. Len(b)
      BY <1>1, <1>3, <2>2
    <3>2. QED
      BY <1>2, <1>7, <3>1
  <2>3. CASE i = m
    BY <1>3, <1>7, <2>3
  <2>4. QED
    BY <2>2, <2>3
<1>9. \A i \in 1 .. m : at2[i - 1] <= at2[i]
  <2>1. TAKE i \in 1 .. m
  <2>2. CASE i \in 1 .. n
    <3>1. i - 1 \in 0 .. n /\ i \in 0 .. n
      BY <2>2
    <3>2. QED
      BY <1>1, <1>3, <2>2, <3>1
  <2>3. CASE i = m
    <3>1. i - 1 = n
      BY <2>3
    <3>2. at2[n] = Len(b) /\ at2[m] = l
      BY <1>1, <1>3, <1>4
    <3>3. QED
      BY <1>7, <2>3, <3>1, <3>2
  <2>4. QED
    BY <2>2, <2>3
<1>10. at2[0] = Len(x) /\ ps2[0] = p
  BY <1>1, <1>3, <1>4
<1> HIDE DEF l, m
<1>11. Laid(x, whole, p, r, m, at2, ps2)
  BY <1>2, <1>3, <1>6, <1>8, <1>9, <1>10, Zenon DEF Laid
<1>12. QED
  BY <1>11 DEF l, m, at2, ps2, whole

\* A code written behind the others.
LEMMA TrailGrows ==
  ASSUME NEW t, NEW size, NEW x, NEW b, NEW p, NEW q, NEW codes,
         Trail(t, size, x, b, p, q, codes),
         NEW body, NEW r, NEW out, UnitBits(t, size, q, body, r, out)
  PROVE  Trail(t, size, x, b \o body, p, r, Append(codes, out))
<1> DEFINE n == Len(codes)
           more == Append(codes, out)
           whole == b \o body
           l == Len(b) + Len(body)
           m == n + 1
<1>1. x \in Seq(Bit) /\ b \in Seq(Bit) /\ IsSeq(codes) /\ body \in Seq(Bit)
  <2>1. body \in Seq(Bit)
    BY UnitIs
  <2>2. QED
    BY <2>1, Zenon DEF Trail
<1>2. PICK at, ps : Marks(t, size, x, b, p, q, codes, at, ps)
  BY Zenon DEF Trail
<1> DEFINE at2 == Extended(at, n, l)
           ps2 == Extended(ps, n, r)
<1>3. /\ IsSeq(more) /\ n \in Nat /\ Len(more) = m
      /\ \A i \in 1 .. n : more[i] = codes[i]
      /\ more[m] = out
  BY <1>1, AppendIs
<1>4. Laid(x, b, p, q, n, at, ps)
  BY <1>2, Zenon DEF Marks
<1>5. Laid(x, whole, p, r, m, at2, ps2)
  BY <1>1, <1>3, <1>4, LaidOn
<1>6. /\ \A i \in 0 .. n : at2[i] = at[i] /\ ps2[i] = ps[i]
      /\ at2[m] = l /\ ps2[m] = r
  BY <1>3, ExtendedIs
<1>7. /\ \A i \in 0 .. n : at[i] \in 0 .. Len(b)
      /\ \A i \in 1 .. n : at[i - 1] <= at[i]
      /\ at[n] = Len(b) /\ ps[n] = q
  BY <1>4, Zenon DEF Laid
<1>8. Len(b) \in Nat /\ Len(body) \in Nat /\ Len(whole) = l /\ whole \in Seq(Bit)
  BY <1>1, BitsJoin
<1>9. ASSUME NEW i \in 1 .. m
      PROVE  UnitBits(t, size, ps2[i - 1], Part(whole, at2[i - 1], at2[i]), ps2[i], more[i])
  <2>1. CASE i \in 1 .. n
    <3>1. i - 1 \in 0 .. n /\ i \in 0 .. n
      BY <2>1
    <3>2. at2[i - 1] = at[i - 1] /\ at2[i] = at[i] /\ ps2[i - 1] = ps[i - 1] /\ ps2[i] = ps[i]
      BY <1>6, <3>1
    <3>3. at[i - 1] \in 0 .. Len(b) /\ at[i] \in at[i - 1] .. Len(b)
      BY <1>7, <1>8, <2>1, <3>1
    <3>4. Part(whole, at[i - 1], at[i]) = Part(b, at[i - 1], at[i])
      BY <1>1, <3>3, PartOfLeft
    <3>5. UnitBits(t, size, ps[i - 1], Part(b, at[i - 1], at[i]), ps[i], codes[i])
      BY <1>2, <2>1, Zenon DEF Marks
    <3>6. more[i] = codes[i]
      BY <1>3, <2>1
    <3>7. QED
      BY <3>2, <3>4, <3>5, <3>6, Zenon
  <2>2. CASE i = m
    <3>1. i - 1 = n /\ n \in 0 .. n
      BY <1>3, <2>2
    <3>2. at2[n] = Len(b) /\ at2[m] = l /\ ps2[n] = q /\ ps2[m] = r
      BY <1>6, <1>7, <3>1
    <3>3. Part(whole, Len(b) + 0, Len(b) + Len(body)) = Part(body, 0, Len(body))
      <4>1. 0 \in 0 .. Len(body) /\ Len(body) \in 0 .. Len(body)
        BY <1>8
      <4>2. QED
        BY <1>1, <4>1, PartOfRight
    <3>4. Part(body, 0, Len(body)) = body
      BY <1>1, WholePart
    <3>5. Len(b) + 0 = Len(b)
      BY <1>8
    <3>6. Part(whole, Len(b), l) = body
      BY <3>3, <3>4, <3>5
    <3>7. QED
      BY <1>3, <2>2, <3>1, <3>2, <3>6
  <2>3. QED
    BY <1>3, <2>1, <2>2
<1> HIDE DEF at2, ps2, more, m, whole, l
<1>10. Marks(t, size, x, whole, p, r, more, at2, ps2)
  BY <1>3, <1>5, <1>9, Zenon DEF Marks
<1>11. Trail(t, size, x, whole, p, r, more)
  BY <1>1, <1>3, <1>8, <1>10, Zenon DEF Trail
<1>12. QED
  BY <1>11 DEF whole, more

-----------------------------------------------------------------------------
(* Reading a trail.                                                        *)

Runs(chain, size, start, n) ==
  chain[0] = start /\ \A i \in 1 .. n : chain[i] = NextOf(size, chain[i - 1])

\* Whatever has the bits of one code ahead reads that code.
AllRead(size) ==
  \A p, body, q, out, f, k, codes :
    UnitBits(type, size, p, body, q, out) /\ Ahead(f, k, body) =>
      ReadsAs(size, f, k, p, codes, body, q, out)

\* A part of what lies ahead lies ahead.
LEMMA PartAhead ==
  ASSUME NEW f, NEW k, NEW b, Ahead(f, k, b), NEW a \in 0 .. Len(b), NEW n \in a .. Len(b)
  PROVE  Ahead(f, k + a, Part(b, a, n)) /\ (k + a) + Len(Part(b, a, n)) = k + n
<1>1. /\ f \in Seq(Bit) /\ Payload(f) /\ b \in Seq(Bit) /\ Len(b) \in Nat /\ Len(f) \in Nat
      /\ k \in Nat /\ k + Len(b) <= Len(f)
  BY AheadIs
<1> DEFINE c == Part(b, a, n)
           i == k + a
           j == k + n
           e == k + Len(b)
<1>2. c \in Seq(Bit) /\ Len(c) = n - a
  BY <1>1, PartBits
<1>3. a \in Nat /\ n \in Nat /\ i + Len(c) = j /\ i \in Nat /\ j <= Len(f)
  BY <1>1, <1>2
<1>4. Part(f, k, e) = b
  BY DEF Ahead
<1>5. Part(Part(f, k, e), a, n) = Part(f, i, j)
  <2>1. k \in 0 .. Len(f) /\ e \in k .. Len(f) /\ a \in 0 .. e - k /\ n \in a .. e - k
    BY <1>1
  <2>2. QED
    BY <1>1, <2>1, BitsOfPart
<1>6. Part(f, i, j) = c
  BY <1>4, <1>5
<1> HIDE DEF c, i, j, e
<1>7. Ahead(f, i, c)
  BY <1>1, <1>2, <1>3, <1>6 DEF Ahead
<1>8. QED
  BY <1>3, <1>7 DEF c, i, j

LEMMA FirstsAreAll ==
  ASSUME NEW codes, IsSeq(codes)
  PROVE  Firsts(codes, Len(codes)) = codes /\ Len(codes) \in Nat
<1>1. PICK S : codes \in Seq(S)
  BY DEF IsSeq
<1>2. codes = [i \in 1 .. Len(codes) |-> codes[i]] /\ Len(codes) \in Nat
  BY <1>1
<1>3. QED
  BY <1>2, Zenon DEF Firsts

LEMMA ReadsTrail ==
  ASSUME NEW size, AllRead(size), NEW x, NEW b, NEW p, NEW q, NEW codes,
         Trail(type, size, x, b, p, q, codes), NEW f, NEW k, Ahead(f, k, b),
         NEW chain, Runs(chain, size, ReadingState(f, k + Len(x), p, <<>>), Len(codes))
  PROVE  chain[Len(codes)] = ReadingState(f, k + Len(b), q, codes)
<1> DEFINE n == Len(codes)
<1>1. PICK at, ps : Marks(type, size, x, b, p, q, codes, at, ps)
  BY Zenon DEF Trail
<1>2. b \in Seq(Bit) /\ IsSeq(codes)
  BY Zenon DEF Trail
<1>3. /\ at[0] = Len(x) /\ at[n] = Len(b) /\ ps[0] = p /\ ps[n] = q
      /\ \A i \in 0 .. n : at[i] \in 0 .. Len(b)
      /\ \A i \in 1 .. n : at[i - 1] <= at[i]
  BY <1>1, Zenon DEF Marks, Laid
<1>4. \A i \in 1 .. n :
        UnitBits(type, size, ps[i - 1], Part(b, at[i - 1], at[i]), ps[i], codes[i])
  BY <1>1, Zenon DEF Marks
<1>5. /\ chain[0] = ReadingState(f, k + Len(x), p, <<>>)
      /\ \A i \in 1 .. n : chain[i] = NextOf(size, chain[i - 1])
  BY Zenon DEF Runs
<1>6. n \in Nat /\ Firsts(codes, n) = codes
  BY <1>2, FirstsAreAll
<1> HIDE DEF n
<1> DEFINE Here(i) == ReadingState(f, k + at[i], ps[i], Firsts(codes, i))
           G == {i \in 0 .. n : chain[i] = Here(i)}
<1>7. 0 \in G
  <2>1. Firsts(codes, 0) = <<>>
    BY DEF Firsts
  <2>2. chain[0] = Here(0)
    BY <1>3, <1>5, <2>1
  <2>3. QED
    BY <1>6, <2>2
<1>8. ASSUME NEW i \in 1 .. n, i - 1 \in G
      PROVE  i \in G
  <2> DEFINE a == at[i - 1]
             body == Part(b, a, at[i])
             j == k + a
             r == ps[i - 1]
             before == Firsts(codes, i - 1)
  <2>1. chain[i - 1] = ReadingState(f, j, r, before)
    BY <1>8
  <2>2. a \in 0 .. Len(b) /\ at[i] \in a .. Len(b)
    <3>1. i - 1 \in 0 .. n /\ i \in 0 .. n
      BY <1>6
    <3>2. a \in 0 .. Len(b) /\ at[i] \in 0 .. Len(b) /\ a <= at[i]
      BY <1>3, <3>1
    <3>3. QED
      BY <3>2
  <2>3. Ahead(f, j, body) /\ j + Len(body) = k + at[i]
    BY <2>2, PartAhead
  <2>4. UnitBits(type, size, r, body, ps[i], codes[i])
    BY <1>4
  <2> HIDE DEF a, body, j, r, before
  <2>5. ReadsAs(size, f, j, r, before, body, ps[i], codes[i])
    BY <2>3, <2>4, Zenon DEF AllRead
  <2>6. NextOf(size, ReadingState(f, j, r, before))
        = ReadingState(f, j + Len(body), ps[i], Append(before, codes[i]))
    BY <2>5, Zenon DEF ReadsAs
  <2>7. Append(before, codes[i]) = Firsts(codes, i)
    <3>1. i \in Nat /\ i >= 1
      BY <1>6
    <3>2. QED
      BY <3>1, FirstsGrow DEF before
  <2>8. chain[i] = NextOf(size, chain[i - 1])
    BY <1>5
  <2>9. chain[i] = Here(i)
    BY <2>1, <2>3, <2>6, <2>7, <2>8
  <2>10. i \in 0 .. n
    BY <1>6
  <2>11. QED
    BY <2>9, <2>10
<1> HIDE DEF G
<1>9. \A i \in 0 .. n : i \in G
  BY <1>6, <1>7, <1>8, Climbs
<1>10. n \in G
  BY <1>6, <1>9
<1>11. chain[n] = Here(n)
  BY <1>10 DEF G
<1>12. QED
  BY <1>3, <1>6, <1>11 DEF n

LEMMA ChildrenRead ==
  ASSUME type \in AllTypes
  PROVE  AllRead(2)
<1>1. SUFFICES ASSUME NEW p, NEW body, NEW q, NEW out, NEW f, NEW k, NEW codes,
                      UnitBits(type, 2, p, body, q, out), Ahead(f, k, body)
               PROVE  ReadsAs(2, f, k, p, codes, body, q, out)
  BY Zenon DEF AllRead
<1>2. 2 # 4 /\ 2 \in {2, 4}
  OBVIOUS
<1>3. CodeBits(type, 2, p, body, q, out)
  BY <1>1, <1>2, Zenon DEF UnitBits
<1>4. QED
  BY <1>1, <1>2, <1>3, ReadsCode

LEMMA ReadsSplit ==
  ASSUME type \in AllTypes, NEW p, NEW body, NEW q, NEW out,
         SplitBits(type, p, body, q, out), NEW f, NEW k, NEW codes, Ahead(f, k, body)
  PROVE  ReadsAs(4, f, k, p, codes, body, q, out)
<1> DEFINE o == SplitOpcode(type)
           s == ReadingState(f, k, p, codes)
           m == k + 2
           n == k + Len(body)
<1>1. PICK children : /\ Len(children) = 4 /\ out = SplitCode(children)
                      /\ ChildTrail(type, o, body, p, q, children)
  BY Zenon DEF SplitBits
<1>2. Trail(type, 2, o, body, p, q, children)
  BY <1>1, ChildTrailIs
<1>3. o \in Seq(Bit) /\ Len(o) = 2
  <2>1. 2 \in {2, 4}
    OBVIOUS
  <2>2. QED
    BY <2>1, OpcodesAre
<1>4. Ahead(f, k, o)
  <2>1. PICK at, ps : Marks(type, 2, o, body, p, q, children, at, ps)
    BY <1>2, Zenon DEF Trail
  <2>2. Laid(o, body, p, q, Len(children), at, ps)
    BY <2>1, Zenon DEF Marks
  <2>3. /\ at[0] = Len(o) /\ Part(body, 0, Len(o)) = o
        /\ \A i \in 0 .. Len(children) : at[i] \in 0 .. Len(body)
    BY <2>2, Zenon DEF Laid
  <2>4. 0 \in 0 .. Len(children)
    BY <1>1
  <2>5. 2 \in 0 .. Len(body) /\ k \in Nat
    <3>1. k \in Nat
      BY AheadIs
    <3>2. QED
      BY <1>3, <2>3, <2>4, <3>1
  <2>6. 0 \in 0 .. Len(body) /\ 2 \in 0 .. Len(body) /\ k + 0 = k
    BY <2>5
  <2>7. Ahead(f, k + 0, Part(body, 0, 2))
    BY <2>6, PartAhead
  <2>8. QED
    BY <1>3, <2>3, <2>6, <2>7
<1>5. NextOf(4, s) = ReadSplit(s, ReaderAt(f, m))
  BY <1>4, SplitOpens
<1>6. PICK chain : SplitChain(chain, s, ReaderAt(f, m))
  BY ReadSplitIsChain
<1>7. \A state : NextOf(2, state) = NextChild(state)
  BY DEF NextOf
<1>8. chain[0] = ReadingState(f, m, p, <<>>)
  <2> DEFINE r == ReaderAt(f, m)
             none == <<>>
  <2>1. chain[0] = PutRead(s, r, none)
    BY <1>6, Zenon DEF SplitChain, PutRead
  <2>2. s = [reader |-> ReaderAt(f, k), predictor |-> p, codes |-> codes]
    BY Zenon DEF ReadingState
  <2>3. ReadingState(f, m, p, none) = [reader |-> r, predictor |-> p, codes |-> none]
    BY Zenon DEF ReadingState
  <2> HIDE DEF r, none, s
  <2>4. PutRead(s, r, none) = [reader |-> r, predictor |-> p, codes |-> none]
    BY <2>2, PutReadIs
  <2>5. chain[0] = ReadingState(f, m, p, none)
    BY <2>1, <2>3, <2>4, Zenon
  <2>6. QED
    BY <2>5 DEF none
<1>9. Runs(chain, 2, ReadingState(f, k + Len(o), p, <<>>), Len(children))
  <2>1. \A i \in 1 .. 4 : chain[i] = NextOf(2, chain[i - 1])
    BY <1>6, <1>7, Zenon DEF SplitChain
  <2>2. QED
    BY <1>1, <1>3, <1>8, <2>1 DEF Runs
<1>10. chain[Len(children)] = ReadingState(f, n, q, children)
  BY <1>2, <1>9, ChildrenRead, ReadsTrail
<1>11. chain[4] = ReadingState(f, n, q, children)
  BY <1>1, <1>10
<1>12. ReadSplit(s, ReaderAt(f, m))
       = [chain[4] EXCEPT !.codes = Append(s.codes, SplitCode(chain[4].codes))]
  BY <1>6, Zenon DEF SplitChain
<1>13. s.codes = codes /\ chain[4].codes = children
  <2>1. IsReading(s, f, k, p, codes)
    BY ReadingIs, Zenon
  <2>2. IsReading(ReadingState(f, n, q, children), f, n, q, children)
    BY ReadingIs, Zenon
  <2> DEFINE there == ReadingState(f, n, q, children)
  <2> HIDE DEF s, there
  <2>3. s.codes = codes
    BY <2>1, Zenon DEF IsReading
  <2>4. there.codes = children
    BY <2>2, Zenon DEF IsReading, there
  <2>5. QED
    BY <1>11, <2>3, <2>4 DEF there
<1>14. [ReadingState(f, n, q, children) EXCEPT !.codes = Append(codes, out)]
       = ReadingState(f, n, q, Append(codes, out))
  <2> DEFINE r == ReaderAt(f, n)
             x == Append(codes, out)
  <2>1. ReadingState(f, n, q, children) = [reader |-> r, predictor |-> q, codes |-> children]
    BY Zenon DEF ReadingState
  <2>2. ReadingState(f, n, q, x) = [reader |-> r, predictor |-> q, codes |-> x]
    BY Zenon DEF ReadingState
  <2> HIDE DEF r, x
  <2>3. [[reader |-> r, predictor |-> q, codes |-> children] EXCEPT !.codes = x]
        = [reader |-> r, predictor |-> q, codes |-> x]
    OBVIOUS
  <2>4. [ReadingState(f, n, q, children) EXCEPT !.codes = x] = ReadingState(f, n, q, x)
    BY <2>1, <2>2, <2>3, Zenon
  <2>5. QED
    BY <2>4 DEF x
<1>15. ReadSplit(s, ReaderAt(f, m)) = ReadingState(f, n, q, Append(codes, out))
  <2> DEFINE there == ReadingState(f, n, q, children)
  <2>1. chain[4] = there /\ SplitCode(chain[4].codes) = out
    BY <1>1, <1>11, <1>13
  <2>2. [there EXCEPT !.codes = Append(codes, out)] = ReadingState(f, n, q, Append(codes, out))
    BY <1>14
  <2> HIDE DEF there, n, s
  <2>3. QED
    BY <1>12, <1>13, <2>1, <2>2, Zenon
<1>16. NextOf(4, s) = ReadingState(f, n, q, Append(codes, out))
  BY <1>5, <1>15, Zenon
<1>17. QED
  BY <1>16, Zenon DEF ReadsAs

LEMMA BlocksRead ==
  ASSUME type \in AllTypes
  PROVE  AllRead(4)
<1>1. SUFFICES ASSUME NEW p, NEW body, NEW q, NEW out, NEW f, NEW k, NEW codes,
                      UnitBits(type, 4, p, body, q, out), Ahead(f, k, body)
               PROVE  ReadsAs(4, f, k, p, codes, body, q, out)
  BY Zenon DEF AllRead
<1>2. CASE CodeBits(type, 4, p, body, q, out)
  <2>1. 4 \in {2, 4}
    OBVIOUS
  <2>2. QED
    BY <1>1, <1>2, <2>1, ReadsCode
<1>3. CASE SplitBits(type, p, body, q, out)
  BY <1>1, <1>3, ReadsSplit
<1>4. QED
  BY <1>1, <1>2, <1>3, Zenon DEF UnitBits

-----------------------------------------------------------------------------
(* Writing one code.                                                       *)

CodingState(w, p, d) == [writer |-> w, predictor |-> p, drawn |-> d]
\* The parts of a candidate's state.
IsCoding(s, w, p, d) == s.writer = w /\ s.predictor = p /\ s.drawn = d

LEMMA CodingIs ==
  ASSUME NEW w, NEW p, NEW d
  PROVE  IsCoding(CodingState(w, p, d), w, p, d)
BY DEF IsCoding, CodingState

LEMMA CodedOn ==
  ASSUME NEW w, NEW p, NEW d, NEW x, NEW y
  PROVE  PutCoded(CodingState(w, p, d), x, y) = CodingState(x, p, y)
<1> DEFINE s == CodingState(w, p, d)
<1>1. s = [writer |-> w, predictor |-> p, drawn |-> d]
  BY Zenon DEF CodingState
<1>2. CodingState(x, p, y) = [writer |-> x, predictor |-> p, drawn |-> y]
  BY Zenon DEF CodingState
<1> HIDE DEF s
<1>3. PutCoded(s, x, y) = [writer |-> x, predictor |-> p, drawn |-> y]
  BY <1>1, PutCodedIs
<1>4. PutCoded(s, x, y) = CodingState(x, p, y)
  BY <1>2, <1>3, Zenon
<1>5. QED
  BY <1>4 DEF s

\* The code is written behind the bits b as the bits body, and drawn as out.
Wrote(size, b, p, d, code, body, q, out) ==
  /\ CodeBits(type, size, p, body, q, out)
  /\ b \o body \in Seq(Bit)
  /\ code.op # "data" => q = p
  /\ WriteCode(CodingState(WriterOf(b), p, d), size, code)
       = CodingState(WriterOf(b \o body), q, Append(d, out))

\* What writing a vector, and a data block, adds.
WroteMove(size, b, p, d, v, body) ==
  /\ CodeBits(type, size, p, body, p, MotionCode(v))
  /\ b \o body \in Seq(Bit)
  /\ WriteMove(CodingState(WriterOf(b), p, d), size, v)
       = CodingState(WriterOf(b \o body), p, Append(d, MotionCode(v)))

LEMMA WritesMove ==
  ASSUME NEW size \in {2, 4}, NEW b \in Seq(Bit), NEW p, Fit(p), NEW d,
         NEW v \in LegalVectors(type, size)
  PROVE  \E body : WroteMove(size, b, p, d, v, body)
<1>1. PICK m : MotionBody(type, size, v, m)
  BY MotionHasBody
<1> DEFINE o == Opcode(type, size)
           fields == <<MoveOpcode(size)>> \o WriteMotion(type, size, v)
           body == o \o m
           w == WriterOf(b)
           s == CodingState(w, p, d)
           x == WriteAll(w, fields)
           y == Append(d, MotionCode(v))
<1>2. o \in Seq(Bit) /\ MoveOpcode(size) = o
  BY OpcodesAre
<1>3. m \in Seq(Bit)
  BY <1>1, Zenon DEF MotionBody
<1>4. <<o>> \o WriteMotion(type, size, v) \in Seq(Seq(Bit))
      /\ FlattenSeq(<<o>> \o WriteMotion(type, size, v)) = body
  BY <1>1, <1>2, Zenon DEF MotionBody
<1>5. fields \in Seq(Seq(Bit)) /\ FlattenSeq(fields) = body
  BY <1>2, <1>4
<1>6. body \in Seq(Bit)
  BY <1>2, <1>3, BitsJoin
<1> HIDE DEF fields
<1>7. b \o FlattenSeq(fields) \in Seq(Bit) /\ x = WriterOf(b \o FlattenSeq(fields))
  BY <1>5, WritesFields
<1>8. CodeBits(type, size, p, body, p, MotionCode(v))
  <2>1. CopyBits(type, size, body, MotionCode(v))
    BY <1>1, Zenon DEF CopyBits
  <2>2. QED
    BY <1>6, <2>1, Zenon DEF CodeBits
<1>9. IsCoding(s, w, p, d)
  BY CodingIs, Zenon
<1>10. PutCoded(s, x, y) = CodingState(x, p, y)
  BY CodedOn
<1> HIDE DEF s, w
<1>11. WriteMove(s, size, v) = PutCoded(s, x, y)
  BY <1>9, Zenon DEF WriteMove, PutCoded, IsCoding, fields
<1> HIDE DEF body, x, y
<1>12. WriteMove(s, size, v) = CodingState(WriterOf(b \o body), p, y)
  BY <1>5, <1>7, <1>10, <1>11, Zenon
<1>13. b \o body \in Seq(Bit)
  BY <1>5, <1>7, Zenon
<1>14. WroteMove(size, b, p, d, v, body)
  BY <1>8, <1>12, <1>13, Zenon DEF WroteMove, s, w, y
<1>15. QED
  BY <1>14, Zenon

LEMMA MoveWrites ==
  ASSUME NEW size \in {2, 4}, NEW b \in Seq(Bit), NEW p, Fit(p), NEW d,
         NEW v \in LegalVectors(type, size), NEW code,
         WriteCode(CodingState(WriterOf(b), p, d), size, code)
           = WriteMove(CodingState(WriterOf(b), p, d), size, v)
  PROVE  \E body, q, out : Wrote(size, b, p, d, code, body, q, out)
<1>1. PICK body : WroteMove(size, b, p, d, v, body)
  BY WritesMove
<1>2. Wrote(size, b, p, d, code, body, p, MotionCode(v))
  BY <1>1, Zenon DEF WroteMove, Wrote
<1>3. QED
  BY <1>2, Zenon

LEMMA StillWrites ==
  ASSUME type # 7, NEW size \in {2, 4}, NEW b \in Seq(Bit), NEW p, Fit(p), NEW d, NEW code,
         WriteCode(CodingState(WriterOf(b), p, d), size, code)
           = WriteStationary(CodingState(WriterOf(b), p, d), size)
  PROVE  \E body, q, out : Wrote(size, b, p, d, code, body, q, out)
<1> DEFINE w == WriterOf(b)
           s == CodingState(w, p, d)
           body == Field(0, 2)
           x == Write(w, body)
           y == Append(d, StationaryCode)
<1>1. body \in Seq(Bit)
  BY OpcodesDiffer
<1>2. b \o body \in Seq(Bit) /\ x = WriterOf(b \o body)
  BY <1>1, WriteMore
<1>3. CodeBits(type, size, p, body, p, StationaryCode)
  <2>1. CopyBits(type, size, body, StationaryCode)
    BY Zenon DEF CopyBits
  <2>2. QED
    BY <1>1, <2>1, Zenon DEF CodeBits
<1>4. IsCoding(s, w, p, d)
  BY CodingIs, Zenon
<1>5. PutCoded(s, x, y) = CodingState(x, p, y)
  BY CodedOn
<1>6. WriteCode(s, size, code) = WriteStationary(s, size)
  OBVIOUS
<1> HIDE DEF s, w
<1>7. WriteStationary(s, size) = PutCoded(s, x, y)
  BY <1>4, Zenon DEF WriteStationary, PutCoded, IsCoding
<1> HIDE DEF body, x, y
<1>8. WriteCode(s, size, code) = CodingState(WriterOf(b \o body), p, y)
  BY <1>2, <1>5, <1>6, <1>7, Zenon
<1>9. Wrote(size, b, p, d, code, body, p, StationaryCode)
  BY <1>2, <1>3, <1>8, Zenon DEF Wrote, s, w, y
<1>10. QED
  BY <1>9, Zenon

WroteData(size, b, p, d, block, body, q, out) ==
  /\ CodeBits(type, size, p, body, q, out)
  /\ b \o body \in Seq(Bit)
  /\ WriteData(CodingState(WriterOf(b), p, d), size, block)
       = CodingState(WriterOf(b \o body), q, Append(d, out))

LEMMA BodyEncodes ==
  ASSUME NEW t \in AllTypes, NEW size \in {2, 4}, NEW p, Fit(p), NEW block \in LegalData(t, size),
         NEW b \in Seq(Bit)
  PROVE  /\ DataBody(t, size, p, block) \in Seq(Bit)
         /\ b \o DataBody(t, size, p, block) \in Seq(Bit)
         /\ EncodeData(WriterOf(b), t, size, p, block)
              = WriterOf(b \o DataBody(t, size, p, block))
<1>1. CASE t = 7
  <2>1. DataBody(t, size, p, block) = LiteralBits(size, block) /\ block \in LegalData(7, size)
    BY <1>1 DEF DataBody
  <2>2. /\ LiteralBits(size, block) \in Seq(Bit)
        /\ b \o LiteralBits(size, block) \in Seq(Bit)
        /\ EncodeData(WriterOf(b), 7, size, p, block) = WriterOf(b \o LiteralBits(size, block))
    BY <2>1, EncodesLiteral
  <2>3. QED
    BY <1>1, <2>1, <2>2
<1>2. CASE t # 7
  <2>1. DataBody(t, size, p, block) = DataBits(t, size, p, block) /\ t \in AllTypes \ {7}
    BY <1>2 DEF DataBody
  <2>2. /\ DataBits(t, size, p, block) \in Seq(Bit)
        /\ b \o DataBits(t, size, p, block) \in Seq(Bit)
        /\ EncodeData(WriterOf(b), t, size, p, block) = WriterOf(b \o DataBits(t, size, p, block))
    BY <2>1, EncodesData
  <2>3. QED
    BY <2>1, <2>2
<1>3. QED
  BY <1>1, <1>2

LEMMA WritesData ==
  ASSUME type \in AllTypes, NEW size \in {2, 4}, NEW b \in Seq(Bit), NEW p, Fit(p), NEW d,
         NEW block \in LegalData(type, size)
  PROVE  \E body, q, out : WroteData(size, b, p, d, block, body, q, out)
<1> DEFINE w == WriterOf(b)
           s == CodingState(w, p, d)
           body == DataBody(type, size, p, block)
           x == EncodeData(w, type, size, p, block)
           q == Carried(type, p, block, block.luma, size)
           out == DataDrawn(type, p, block)
<1>1. body \in Seq(Bit) /\ b \o body \in Seq(Bit) /\ x = WriterOf(b \o body)
  BY BodyEncodes
<1>2. Reconstructed(type, p, block) = out /\ Fit(q)
  BY DrawnIsReconstructed
<1>3. ValueBits(type, size, p, body, q, out)
  BY Zenon DEF ValueBits
<1>4. CodeBits(type, size, p, body, q, out)
  BY <1>1, <1>2, <1>3, Zenon DEF CodeBits
<1>5. IsCoding(s, w, p, d)
  BY CodingIs, Zenon
<1> HIDE DEF s, w
<1>6. WriteData(s, size, block) = [writer |-> x, predictor |-> q, drawn |-> Append(d, out)]
  BY <1>2, <1>5, Zenon DEF WriteData, IsCoding
<1> HIDE DEF x, q, out, body
<1>7. WriteData(s, size, block) = CodingState(WriterOf(b \o body), q, Append(d, out))
  BY <1>1, <1>6, Zenon DEF CodingState
<1>8. WroteData(size, b, p, d, block, body, q, out)
  BY <1>1, <1>4, <1>7, Zenon DEF WroteData, s, w
<1>9. QED
  BY <1>8, Zenon

LEMMA WritesCode ==
  ASSUME type \in AllTypes, NEW size \in {2, 4}, NEW b \in Seq(Bit), NEW p, Fit(p), NEW d,
         NEW code \in LegalCopies(type, size) \union LegalData(type, size)
  PROVE  \E body, q, out : Wrote(size, b, p, d, code, body, q, out)
<1> DEFINE s == CodingState(WriterOf(b), p, d)
<1>1. CASE code = StationaryCode /\ code.op = "stationary"
  <2>1. WriteCode(s, size, code) = WriteStationary(s, size)
    <3>1. code.op = "stationary"
      BY <1>1
    <3>2. QED
      BY <3>1 DEF WriteCode
  <2>2. CASE type = 7
    <3>1. Stationary \in LegalVectors(type, size)
      <4>1. Stationary = Vector(0, 0) /\ Radius(Vector(0, 0)) <= 4
        BY VectorIs DEF Stationary, Radius, Magnitude
      <4>2. 0 \in -8 .. 8
        OBVIOUS
      <4>3. QED
        BY <2>2, <4>1, <4>2 DEF LegalVectors, Window
    <3>2. WriteStationary(s, size) = WriteMove(s, size, Stationary)
      BY <2>2, Zenon DEF WriteStationary
    <3>3. WriteCode(s, size, code) = WriteMove(s, size, Stationary)
      BY <2>1, <3>2, Zenon
    <3>4. QED
      BY <3>1, <3>3, MoveWrites
  <2>3. CASE type # 7
    BY <2>1, <2>3, StillWrites
  <2>4. QED
    BY <2>2, <2>3
<1>2. CASE code.op = "motion" /\ code.vector \in LegalVectors(type, size)
  <2>1. WriteCode(s, size, code) = WriteMove(s, size, code.vector)
    BY <1>2 DEF WriteCode
  <2>2. QED
    BY <1>2, <2>1, MoveWrites
<1>3. CASE code \in LegalData(type, size)
  <2>1. code.op = "data"
    BY <1>3, LegalDataIs
  <2>2. WriteCode(s, size, code) = WriteData(s, size, code)
    BY <2>1 DEF WriteCode
  <2>3. PICK body, q, out : WroteData(size, b, p, d, code, body, q, out)
    BY <1>3, WritesData
  <2>4. Wrote(size, b, p, d, code, body, q, out)
    BY <2>1, <2>2, <2>3, Zenon DEF WroteData, Wrote
  <2>5. QED
    BY <2>4, Zenon
<1>4. CASE code \in LegalCopies(type, size)
  BY <1>1, <1>2, <1>4, LegalCopyIs
<1>5. QED
  BY <1>3, <1>4

-----------------------------------------------------------------------------
(* The candidates.                                                         *)

LEMMA NothingBefore ==
  ASSUME NEW b \in Seq(Bit)
  PROVE  <<>> \o b = b /\ <<>> \in Seq(Bit) /\ NewWriter = WriterOf(<<>>)
<1>1. <<>> \o b = b /\ <<>> \in Seq(Bit)
  OBVIOUS
<1>2. NewWriter = WriterOf(<<>>)
  BY NewWriterIs
<1>3. QED
  BY <1>1, <1>2

\* A candidate is the bits of one code of a whole block.
IsCandidate(candidate, c, q, asDrawn) ==
  /\ UnitBits(type, 4, predictor, c, q, asDrawn)
  /\ candidate.writer = WriterOf(c) /\ candidate.predictor = q

LEMMA DataIsCandidate ==
  ASSUME type \in AllTypes, Fit(predictor), NEW block \in LegalData(type, 4)
  PROVE  \E c, q : IsCandidate(DataCandidate(block), c, q, DataCandidate(block).drawn[1])
<1> DEFINE b == <<>>
           d == <<>>
           s == CodingState(WriterOf(b), predictor, d)
           data == DataCandidate(block)
<1>1. b \in Seq(Bit) /\ 4 \in {2, 4} /\ NewWriter = WriterOf(b)
  <2>1. b \in Seq(Bit)
    OBVIOUS
  <2>2. QED
    BY <2>1, NothingBefore
<1>2. PICK c, q, out : WroteData(4, b, predictor, d, block, c, q, out)
  BY <1>1, WritesData
<1>3. c \in Seq(Bit)
  BY <1>2, Zenon DEF WroteData, CodeBits
<1>4. b \o c = c /\ Append(d, out)[1] = out
  BY <1>3, NothingBefore
<1>5. Scratch = s
  BY <1>1, Zenon DEF Scratch, CodingState
<1>6. data = WriteData(s, 4, block)
  BY <1>5, Zenon DEF DataCandidate
<1> HIDE DEF b, d
<1>7. data = CodingState(WriterOf(c), q, Append(d, out))
  BY <1>2, <1>4, <1>6, Zenon DEF WroteData
<1>8. IsCoding(CodingState(WriterOf(c), q, Append(d, out)), WriterOf(c), q, Append(d, out))
  BY CodingIs, Zenon
<1> HIDE DEF data
<1>9. data.writer = WriterOf(c) /\ data.predictor = q /\ data.drawn = Append(d, out)
  BY <1>7, <1>8, Zenon DEF IsCoding
<1>10. UnitBits(type, 4, predictor, c, q, out)
  BY <1>2, Zenon DEF WroteData, UnitBits
<1>11. data.drawn[1] = out
  BY <1>4, <1>9
<1>12. IsCandidate(data, c, q, data.drawn[1])
  BY <1>9, <1>10, <1>11, Zenon DEF IsCandidate
<1>13. QED
  BY <1>12, Zenon DEF data

\* After i children.
SplitSoFar(s, i, b, q, d) ==
  /\ s = CodingState(WriterOf(b), q, d) /\ Len(d) = i /\ Fit(q)
  /\ Trail(type, 2, SplitOpcode(type), b, predictor, q, d)

LEMMA ChildWrites ==
  ASSUME type \in AllTypes, NEW s, NEW i, NEW b, NEW q, NEW d, SplitSoFar(s, i, b, q, d),
         NEW child \in LegalCopies(type, 2) \union LegalData(type, 2)
  PROVE  \E b2, q2, d2 : SplitSoFar(WriteCode(s, 2, child), i + 1, b2, q2, d2)
<1>1. Trail(type, 2, SplitOpcode(type), b, predictor, q, d) /\ Len(d) = i /\ Fit(q)
      /\ s = CodingState(WriterOf(b), q, d)
  BY Zenon DEF SplitSoFar
<1>2. b \in Seq(Bit) /\ IsSeq(d)
  BY <1>1, Zenon DEF Trail
<1>3. 2 \in {2, 4}
  OBVIOUS
<1>4. PICK body, r, out : Wrote(2, b, q, d, child, body, r, out)
  BY <1>1, <1>2, <1>3, WritesCode
<1>5. UnitBits(type, 2, q, body, r, out) /\ Fit(r)
  BY <1>4, Zenon DEF Wrote, UnitBits, CodeBits
<1>6. Trail(type, 2, SplitOpcode(type), b \o body, predictor, r, Append(d, out))
  BY <1>1, <1>5, TrailGrows
<1>7. Len(Append(d, out)) = i + 1
  BY <1>1, <1>2, AppendIs
<1>8. WriteCode(s, 2, child) = CodingState(WriterOf(b \o body), r, Append(d, out))
  BY <1>1, <1>4, Zenon DEF Wrote
<1> DEFINE b2 == b \o body
           d2 == Append(d, out)
           j == i + 1
<1> HIDE DEF b2, d2, j
<1>9. SplitSoFar(WriteCode(s, 2, child), j, b2, r, d2)
  BY <1>5, <1>6, <1>7, <1>8, Zenon DEF SplitSoFar, b2, d2, j
<1>10. QED
  BY <1>9, Zenon DEF j

\* The candidate's states as its children are written.
WritesChildren(chain, children) ==
  /\ chain[0] = CodingState(WriterOf(SplitOpcode(type)), predictor, <<>>)
  /\ \A i \in 1 .. 4 : chain[i] = WriteCode(chain[i - 1], 2, children[i])
  /\ SplitCandidate(children) = chain[4]

LEMMA ChildrenAreChain ==
  ASSUME NEW children, DOMAIN children = 1 .. 4
  PROVE  \E chain : WritesChildren(chain, children)
<1> DEFINE o == SplitOpcode(type)
           none == <<>>
<1>1. PICK chain :
        /\ chain[0] = [writer |-> Write(NewWriter, Field(IF type = 7 THEN 2 ELSE 3, 2)),
                       predictor |-> predictor, drawn |-> <<>>]
        /\ \A i \in 1 .. 4 : chain[i] = WriteCode(chain[i - 1], 2, children[i])
        /\ SplitCandidate(children) = chain[4]
  BY SplitIsChain
<1>2. o \in Seq(Bit) /\ o = Field(IF type = 7 THEN 2 ELSE 3, 2)
  <2>1. 2 \in {2, 4}
    OBVIOUS
  <2>2. o \in Seq(Bit)
    BY <2>1, OpcodesAre
  <2>3. QED
    BY <2>2, Zenon DEF SplitOpcode
<1> HIDE DEF o, none
<1>3. Write(NewWriter, o) = WriterOf(o)
  <2>1. <<>> \o o = o /\ <<>> \in Seq(Bit) /\ NewWriter = WriterOf(<<>>)
    BY <1>2, NothingBefore
  <2>2. Write(WriterOf(<<>>), o) = WriterOf(<<>> \o o)
    BY <1>2, <2>1, WriteMore
  <2>3. QED
    BY <2>1, <2>2
<1>4. chain[0] = [writer |-> WriterOf(o), predictor |-> predictor, drawn |-> none]
  BY <1>1, <1>2, <1>3, Zenon DEF none
<1>5. chain[0] = CodingState(WriterOf(o), predictor, none)
  BY <1>4, Zenon DEF CodingState
<1>6. WritesChildren(chain, children)
  BY <1>1, <1>5, Zenon DEF WritesChildren, o, none
<1>7. QED
  BY <1>6, Zenon

LEMMA SplitIsCandidate ==
  ASSUME type \in AllTypes, Fit(predictor), NEW children \in LegalChildren(type)
  PROVE  \E c, q : IsCandidate(SplitCandidate(children), c, q,
                               SplitCode(SplitCandidate(children).drawn))
<1>1. DOMAIN children = 1 .. 4
      /\ \A i \in 1 .. 4 : children[i] \in LegalCopies(type, 2) \union LegalData(type, 2)
  BY DEF LegalChildren
<1>2. PICK chain : WritesChildren(chain, children)
  BY <1>1, ChildrenAreChain
<1> DEFINE o == SplitOpcode(type)
           G == {i \in 0 .. 4 : \E b, q, d : SplitSoFar(chain[i], i, b, q, d)}
<1>3. o \in Seq(Bit)
  <2>1. 2 \in {2, 4}
    OBVIOUS
  <2>2. QED
    BY <2>1, OpcodesAre
<1>4. 0 \in G
  <2> DEFINE none == <<>>
  <2>1. Trail(type, 2, o, o, predictor, predictor, none)
    BY <1>3, TrailStarts
  <2>2. Len(none) = 0
    OBVIOUS
  <2>3. chain[0] = CodingState(WriterOf(o), predictor, none)
    BY <1>2, Zenon DEF WritesChildren
  <2> HIDE DEF none
  <2>4. SplitSoFar(chain[0], 0, o, predictor, none)
    BY <2>1, <2>2, <2>3, Zenon DEF SplitSoFar
  <2>5. 0 \in 0 .. 4
    OBVIOUS
  <2>6. QED
    BY <2>4, <2>5, Zenon
<1>5. ASSUME NEW i \in 1 .. 4, i - 1 \in G
      PROVE  i \in G
  <2>1. PICK b, q, d : SplitSoFar(chain[i - 1], i - 1, b, q, d)
    BY <1>5, Zenon
  <2>2. children[i] \in LegalCopies(type, 2) \union LegalData(type, 2)
    BY <1>1
  <2>3. PICK b2, q2, d2 : SplitSoFar(WriteCode(chain[i - 1], 2, children[i]), (i - 1) + 1,
               b2, q2, d2)
    BY <2>1, <2>2, ChildWrites
  <2>4. chain[i] = WriteCode(chain[i - 1], 2, children[i])
    BY <1>2, Zenon DEF WritesChildren
  <2>5. (i - 1) + 1 = i /\ i \in 0 .. 4
    OBVIOUS
  <2>6. SplitSoFar(chain[i], i, b2, q2, d2)
    BY <2>3, <2>4, <2>5, Zenon
  <2>7. QED
    BY <2>5, <2>6, Zenon
<1> HIDE DEF G
<1>6. 4 \in G
  <2>1. 4 \in Nat /\ 4 \in 0 .. 4
    OBVIOUS
  <2>2. \A i \in 0 .. 4 : i \in G
    BY <1>4, <1>5, <2>1, Climbs
  <2>3. QED
    BY <2>1, <2>2
<1>7. PICK b, q, d : SplitSoFar(chain[4], 4, b, q, d)
  BY <1>6, Zenon DEF G
<1> DEFINE split == SplitCandidate(children)
<1>8. split = chain[4]
  BY <1>2, Zenon DEF WritesChildren
<1>9. split = CodingState(WriterOf(b), q, d)
  BY <1>7, <1>8, Zenon DEF SplitSoFar
<1>10. IsCoding(CodingState(WriterOf(b), q, d), WriterOf(b), q, d)
  BY CodingIs, Zenon
<1> HIDE DEF split
<1>11. split.writer = WriterOf(b) /\ split.predictor = q /\ split.drawn = d
  BY <1>9, <1>10, Zenon DEF IsCoding
<1>12. Trail(type, 2, o, b, predictor, q, d) /\ Len(d) = 4 /\ Fit(q)
  BY <1>7, Zenon DEF SplitSoFar
<1>13. ChildTrail(type, o, b, predictor, q, d) /\ b \in Seq(Bit)
  <2>1. ChildTrail(type, o, b, predictor, q, d)
    BY <1>12, ChildTrailIs
  <2>2. QED
    BY <1>12, <2>1, Zenon DEF Trail
<1>14. SplitBits(type, predictor, b, q, SplitCode(d))
  BY <1>12, <1>13, Zenon DEF SplitBits
<1>15. UnitBits(type, 4, predictor, b, q, SplitCode(d))
  BY <1>14, Zenon DEF UnitBits
<1>16. IsCandidate(split, b, q, SplitCode(split.drawn))
  BY <1>11, <1>15, Zenon DEF IsCandidate
<1>17. QED
  BY <1>16, Zenon DEF split

-----------------------------------------------------------------------------
(* The finished frame read back.                                           *)

LEMMA PaddingPasses ==
  ASSUME NEW b \in Seq(Bit)
  PROVE  Framed(ReaderAt(Padded(b), Len(b)))
<1> DEFINE f == Padded(b)
           n == Len(b)
           q == BytesFor(n)
           r == ReaderAt(f, n)
           acc == Part(f, n, 8 * q)
<1>1. /\ f \in Seq(Bit) /\ Padding(b) \in Seq(Bit) /\ Len(f) = 8 * q
      /\ Len(Padding(b)) = 8 * q - n
      /\ \A i \in 1 .. Len(Padding(b)) : Padding(b)[i] = 0
      /\ n \in Nat
  <2>1. n \in Nat
    OBVIOUS
  <2>2. /\ f \in Seq(Bit) /\ Padding(b) \in Seq(Bit) /\ Len(f) = 8 * q
        /\ Len(Padding(b)) = 8 * q - n
        /\ \A i \in 1 .. Len(Padding(b)) : Padding(b)[i] = 0
    BY PaddedIs, Zenon
  <2>3. QED
    BY <2>1, <2>2, Zenon
<1>2. q \in Nat /\ n <= 8 * q
  BY <1>1, BytesForIs
<1>3. f = b \o Padding(b)
  BY DEF Padded
<1>4. r = [bytes |-> WholeBytes(f), bytePos |-> q, accumulator |-> acc, total |-> n, ok |-> TRUE]
  BY Zenon DEF ReaderAt, ReaderWith
<1> HIDE DEF f, q, acc, r
<1>5. r.bytes = WholeBytes(f) /\ r.accumulator = acc /\ r.total = n
  BY <1>4
<1>6. Len(WholeBytes(f)) = q
  <2>1. Len(WholeBytes(f)) = Eights(Len(f))
    BY <1>1, WholeBytesAre
  <2>2. 8 * q \in Nat /\ 8 * q <= 8 * q /\ 8 * q < 8 * q + 8
    BY <1>2
  <2>3. Eights(8 * q) = q
    BY <1>2, <2>2, EightsOf
  <2>4. QED
    BY <1>1, <2>1, <2>3
<1>7. acc \in Seq(Bit) /\ Len(acc) = 8 * q - n /\ \A i \in 1 .. 8 * q - n : acc[i] = f[n + i]
  <2>1. n \in 0 .. Len(f) /\ 8 * q \in n .. Len(f)
    BY <1>1, <1>2
  <2>2. QED
    BY <1>1, <2>1, PartBits DEF acc
<1>8. \A i \in DOMAIN acc : acc[i] = 0
  <2>1. TAKE i \in DOMAIN acc
  <2>2. DOMAIN acc = 1 .. Len(acc)
    BY <1>7
  <2>3. i \in 1 .. 8 * q - n
    BY <1>7, <2>2
  <2>4. f[n + i] = Padding(b)[i]
    <3>1. i \in 1 .. Len(Padding(b))
      BY <1>1, <2>3
    <3>2. (b \o Padding(b))[Len(b) + i] = Padding(b)[i]
      BY <1>1, <3>1, JoinIs
    <3>3. QED
      BY <1>3, <3>2
  <2>5. QED
    BY <1>1, <1>7, <2>3, <2>4
<1>9. Len(r.bytes) = BytesFor(r.total)
  BY <1>5, <1>6 DEF q
<1>10. Framed(r)
  BY <1>5, <1>8, <1>9, Zenon DEF Framed
<1>11. QED
  BY <1>10 DEF r, f

\* The verdict of a frame that was read.
Reads(verdict, codes, p, n) ==
  verdict.ok = TRUE /\ verdict.codes = codes /\ verdict.predictor = p /\ verdict.used = n

LEMMA ReadsWhole ==
  ASSUME type \in AllTypes, NEW b \in Seq(Bit), NEW p, NEW codes,
         Trail(type, 4, <<>>, b, NewPredictor, p, codes)
  PROVE  Reads(Verified(FlushZero(WriterOf(b)).bytes, Len(codes)), codes, p, Len(b))
<1> DEFINE f == Padded(b)
           bytes == WholeBytes(f)
           n == Len(codes)
           x == <<>>
           m == Len(b)
<1>1. Payload(f) /\ Ahead(f, 0, b) /\ m \in Nat
  BY PaddedIs
<1>2. FlushZero(WriterOf(b)).bytes = bytes
  BY FlushIs
<1>3. IsSeq(codes) /\ n \in Nat
  <2>1. IsSeq(codes)
    BY Zenon DEF Trail
  <2>2. QED
    BY <2>1, FirstsAreAll
<1>4. PICK chain : FrameChain(chain, bytes, n)
  BY <1>3, VerifiedIsChain
<1>5. NewReader(bytes) = ReaderAt(f, 0)
  BY <1>1, NewWriterIs
<1>6. chain[0] = ReadingState(f, 0, NewPredictor, x)
  BY <1>4, <1>5, Zenon DEF FrameChain, ReadingState
<1>7. \A state : NextOf(4, state) = NextBlock(state)
  BY DEF NextOf
<1>8. Len(x) = 0 /\ 0 + 0 = 0 /\ 0 + m = m
  BY <1>1
<1> HIDE DEF x, m
<1>9. Trail(type, 4, x, b, NewPredictor, p, codes)
  BY DEF x
<1>10. Runs(chain, 4, ReadingState(f, 0 + Len(x), NewPredictor, <<>>), n)
  <2>1. \A i \in 1 .. n : chain[i] = NextOf(4, chain[i - 1])
    BY <1>4, <1>7, Zenon DEF FrameChain
  <2>2. chain[0] = ReadingState(f, 0 + Len(x), NewPredictor, <<>>)
    BY <1>6, <1>8 DEF x
  <2>3. QED
    BY <2>1, <2>2, Zenon DEF Runs
<1>11. chain[n] = ReadingState(f, m, p, codes)
  <2>1. AllRead(4)
    BY BlocksRead
  <2>2. chain[n] = ReadingState(f, 0 + Len(b), p, codes)
    BY <1>1, <1>9, <1>10, <2>1, ReadsTrail
  <2>3. QED
    BY <1>8, <2>2 DEF m
<1>12. IsReading(ReadingState(f, m, p, codes), f, m, p, codes)
  BY ReadingIs, Zenon
<1> DEFINE last == chain[n]
<1>13. last.reader = ReaderAt(f, m) /\ last.reader.ok = TRUE /\ last.predictor = p /\
         last.codes = codes
  BY <1>11, <1>12, Zenon DEF IsReading
<1>14. ReaderAt(f, m).total = m
  BY ReaderIs
<1>15. Framed(ReaderAt(f, m))
  BY PaddingPasses DEF m
<1>16. Verified(bytes, n)
         = [ok |-> last.reader.ok /\ Framed(last.reader), codes |-> last.codes,
            predictor |-> last.predictor, used |-> last.reader.total]
  BY <1>4, Zenon DEF FrameChain
<1> HIDE DEF last, f, bytes, n
<1>17. Reads(Verified(bytes, n), codes, p, m)
  <2> DEFINE verdict == Verified(bytes, n)
             ok == last.reader.ok /\ Framed(last.reader)
  <2>1. ok = TRUE
    BY <1>13, <1>15, Zenon
  <2>2. last.reader.total = m
    BY <1>13, <1>14
  <2> HIDE DEF ok
  <2>3. verdict = [ok |-> ok, codes |-> codes, predictor |-> p, used |-> m]
    BY <1>13, <1>16, <2>2, Zenon DEF ok
  <2> HIDE DEF verdict
  <2>4. verdict.ok = ok /\ verdict.codes = codes /\ verdict.predictor = p /\ verdict.used = m
    BY <2>3
  <2>5. Reads(verdict, codes, p, m)
    BY <2>1, <2>4, Zenon DEF Reads
  <2>6. QED
    BY <2>5 DEF verdict
<1>18. QED
  BY <1>2, <1>17, Zenon DEF n, m

-----------------------------------------------------------------------------
(* The frame being written.                                                *)

\* The frame so far: its bits, and the codes they are.
FrameBits(t, w, p, codes) ==
  /\ Fit(p)
  /\ \E b \in Seq(Bit) : w = WriterOf(b) /\ Trail(t, 4, <<>>, b, NewPredictor, p, codes)

\* The inductive invariant of reading back.
FrameInv == FrameBits(type, writer, predictor, drawn)

LEMMA FrameStarts ==
  ASSUME Init
  PROVE  FrameInv
<1>1. writer = NewWriter /\ predictor = NewPredictor /\ drawn = <<>>
  BY DEF Init
<1>2. Fit(NewPredictor)
  BY DEF NewPredictor, Fit, Settled, Six
<1> DEFINE x == <<>>
<1>3. x \in Seq(Bit)
  OBVIOUS
<1>4. NewWriter = WriterOf(x)
  BY NewWriterIs
<1>5. Trail(type, 4, x, x, NewPredictor, NewPredictor, <<>>)
  BY <1>3, TrailStarts
<1>6. \E b \in Seq(Bit) :
        NewWriter = WriterOf(b) /\ Trail(type, 4, <<>>, b, NewPredictor, NewPredictor, <<>>)
  BY <1>3, <1>4, <1>5, Zenon
<1>7. FrameBits(type, NewWriter, NewPredictor, <<>>)
  BY <1>2, <1>6, Zenon DEF FrameBits
<1>8. QED
  BY <1>1, <1>7, Zenon DEF FrameInv

\* One more code behind the bits b.
LEMMA FrameGrows ==
  ASSUME NEW t, NEW b \in Seq(Bit), NEW p, NEW codes,
         Trail(t, 4, <<>>, b, NewPredictor, p, codes),
         NEW body, NEW q, NEW out, UnitBits(t, 4, p, body, q, out)
  PROVE  FrameBits(t, WriterOf(b \o body), q, Append(codes, out))
<1> DEFINE more == b \o body
<1>1. Trail(t, 4, <<>>, more, NewPredictor, q, Append(codes, out))
  BY TrailGrows
<1>2. Fit(q) /\ body \in Seq(Bit)
  BY UnitIs
<1>3. more \in Seq(Bit)
  BY <1>2, BitsJoin
<1> HIDE DEF more
<1>4. FrameBits(t, WriterOf(more), q, Append(codes, out))
  BY <1>1, <1>2, <1>3, Zenon DEF FrameBits
<1>5. QED
  BY <1>4 DEF more

LEMMA FrameCopy ==
  ASSUME SyntaxAssumption, OffersAreLegal, ChromaInv, FrameInv, EncodeCopy
  PROVE  FrameInv'
<1>1. PICK code \in Offered(type, wanted) :
        /\ code.op \in {"stationary", "motion"}
        /\ writer' = WriteCode([writer |-> writer, predictor |-> predictor, drawn |-> drawn],
                               4, code).writer
        /\ drawn' = WriteCode([writer |-> writer, predictor |-> predictor, drawn |-> drawn],
                              4, code).drawn
  BY DEF EncodeCopy
<1>2. type' = type /\ predictor' = predictor
  BY DEF EncodeCopy
<1>3. code \in LegalCopies(type, 4)
  BY <1>1, OfferIsLegal, LegalOfferIs
<1>4. type \in AllTypes
  BY DEF SyntaxAssumption, ChromaInv, ChromaWritten
<1>5. Fit(predictor)
  BY Zenon DEF FrameInv, FrameBits
<1>6. PICK b \in Seq(Bit) :
        writer = WriterOf(b) /\ Trail(type, 4, <<>>, b, NewPredictor, predictor, drawn)
  BY Zenon DEF FrameInv, FrameBits
<1> DEFINE s == CodingState(WriterOf(b), predictor, drawn)
<1>7. [writer |-> writer, predictor |-> predictor, drawn |-> drawn] = s
  BY <1>6, Zenon DEF CodingState
<1>8. 4 \in {2, 4} /\ code \in LegalCopies(type, 4) \union LegalData(type, 4)
  BY <1>3
<1>9. PICK body, q, out : Wrote(4, b, predictor, drawn, code, body, q, out)
  BY <1>4, <1>5, <1>8, WritesCode
<1>10. code.op # "data"
  BY <1>1
<1>11. q = predictor /\ UnitBits(type, 4, predictor, body, q, out)
  BY <1>9, <1>10, Zenon DEF Wrote, UnitBits
<1> DEFINE next == CodingState(WriterOf(b \o body), q, Append(drawn, out))
<1>12. WriteCode(s, 4, code) = next
  BY <1>9, Zenon DEF Wrote
<1>13. IsCoding(next, WriterOf(b \o body), q, Append(drawn, out))
  BY CodingIs, Zenon
<1> HIDE DEF s, next
<1>14. writer' = next.writer /\ drawn' = next.drawn
  BY <1>1, <1>7, <1>12, Zenon
<1>15. writer' = WriterOf(b \o body) /\ drawn' = Append(drawn, out)
  BY <1>13, <1>14, Zenon DEF IsCoding
<1>16. FrameBits(type, WriterOf(b \o body), q, Append(drawn, out))
  BY <1>6, <1>11, FrameGrows
<1>17. FrameBits(type, writer, predictor, drawn)'
  <2>1. FrameBits(type', writer', predictor', drawn')
    BY <1>2, <1>11, <1>15, <1>16, Zenon
  <2>2. QED
    BY <2>1
<1>18. QED
  BY <1>17 DEF FrameInv

\* A kept candidate comes behind what the frame has already.
LEMMA FrameKeeps ==
  ASSUME FrameInv, type' = type, NEW candidate, NEW c, NEW q, NEW code, NEW asDrawn,
         IsCandidate(candidate, c, q, asDrawn), Keep(candidate, code, asDrawn)
  PROVE  FrameInv'
<1>1. PICK b \in Seq(Bit) :
        writer = WriterOf(b) /\ Trail(type, 4, <<>>, b, NewPredictor, predictor, drawn)
  BY Zenon DEF FrameInv, FrameBits
<1>2. /\ UnitBits(type, 4, predictor, c, q, asDrawn)
      /\ candidate.writer = WriterOf(c) /\ candidate.predictor = q
  BY Zenon DEF IsCandidate
<1>3. c \in Seq(Bit)
  BY <1>2, UnitIs
<1>4. WriterOf(c).total = Len(c)
  BY DEF WriterOf
<1>5. /\ writer' = AppendCandidate(WriterOf(b), FlushZero(WriterOf(c)).bytes, Len(c))
      /\ predictor' = q /\ drawn' = Append(drawn, asDrawn)
  BY <1>1, <1>2, <1>4, Zenon DEF Keep
<1>6. writer' = WriterOf(b \o c)
  BY <1>3, <1>5, CandidateMoves
<1>7. FrameBits(type, WriterOf(b \o c), q, Append(drawn, asDrawn))
  BY <1>1, <1>2, FrameGrows
<1>8. FrameBits(type', writer', predictor', drawn')
  BY <1>5, <1>6, <1>7, Zenon
<1>9. QED
  BY <1>8 DEF FrameInv

LEMMA FrameBlock ==
  ASSUME SyntaxAssumption, OffersAreLegal, ChromaInv, FrameInv, EncodeBlock
  PROVE  FrameInv'
<1>1. PICK offer \in Offered(type, wanted), allowSplit \in BOOLEAN :
        /\ offer.op = "block"
        /\ KeepShorter(offer, allowSplit, DataCandidate(offer.data),
             SplitCandidate(offer.children))
  BY DEF EncodeBlock
<1>2. type' = type
  BY DEF EncodeBlock
<1>3. offer.data \in LegalData(type, 4) /\ offer.children \in LegalChildren(type)
  BY <1>1, OfferIsLegal, LegalBlockIs
<1>4. type \in AllTypes
  BY DEF SyntaxAssumption, ChromaInv, ChromaWritten
<1>5. Fit(predictor)
  BY Zenon DEF FrameInv, FrameBits
<1> DEFINE data == DataCandidate(offer.data)
           split == SplitCandidate(offer.children)
<1>6. PICK c, q : IsCandidate(data, c, q, data.drawn[1])
  BY <1>3, <1>4, <1>5, DataIsCandidate
<1>7. PICK e, r : IsCandidate(split, e, r, SplitCode(split.drawn))
  BY <1>3, <1>4, <1>5, SplitIsCandidate
<1> HIDE DEF data, split
<1>8. \/ Keep(split, SplitCode(offer.children), SplitCode(split.drawn))
      \/ Keep(data, offer.data, data.drawn[1])
  BY <1>1, Zenon DEF KeepShorter, data, split
<1>9. CASE Keep(split, SplitCode(offer.children), SplitCode(split.drawn))
  BY <1>2, <1>7, <1>9, FrameKeeps
<1>10. CASE Keep(data, offer.data, data.drawn[1])
  BY <1>2, <1>6, <1>10, FrameKeeps
<1>11. QED
  BY <1>8, <1>9, <1>10

LEMMA FrameStays ==
  ASSUME FrameInv, UNCHANGED <<type, writer, predictor, drawn>>
  PROVE  FrameInv'
BY DEF FrameInv

LEMMA WholeIsRead ==
  ASSUME SyntaxAssumption, ChromaInv, FrameInv, VerifyFrame
  PROVE  ReadsBack'
<1>1. PICK form \in {"whole", "cut", "joined"}, blocks \in Len(wanted) - 1 .. Len(wanted) + 4 :
        result' = [read |-> TRUE, form |-> form, blocks |-> blocks,
                   verdict |-> Verified(CASE form = "whole"  -> FlushZero(writer).bytes
                                          [] form = "cut"    -> SubSeq(FlushZero(writer).bytes, 1,
                                                                       Len(FlushZero(writer).bytes) - 1)
                                          [] form = "joined" -> FlushZero(writer).bytes
                                                                  \o FlushZero(writer).bytes,
                                        blocks)]
  BY Zenon DEF VerifyFrame
<1>2. UNCHANGED <<type, writer, predictor, wanted, drawn>>
  BY DEF VerifyFrame
<1>3. SUFFICES ASSUME Whole'
               PROVE  /\ result'.verdict.ok /\ result'.verdict.codes = drawn
                      /\ result'.verdict.predictor = predictor
                      /\ result'.verdict.used = writer.total
  BY <1>2 DEF ReadsBack
<1> DEFINE bytes == CASE form = "whole"  -> FlushZero(writer).bytes
                      [] form = "cut"    -> SubSeq(FlushZero(writer).bytes, 1,
                                                   Len(FlushZero(writer).bytes) - 1)
                      [] form = "joined" -> FlushZero(writer).bytes \o FlushZero(writer).bytes
           verdict == Verified(bytes, blocks)
<1>4. form = "whole" => bytes = FlushZero(writer).bytes
  OBVIOUS
<1>5. result' = [read |-> TRUE, form |-> form, blocks |-> blocks, verdict |-> verdict]
  BY <1>1, Zenon
<1> HIDE DEF bytes, verdict
<1>6. result'.form = form /\ result'.blocks = blocks /\ result'.verdict = verdict
  BY <1>5
<1>7. form = "whole" /\ blocks = Len(drawn)
  BY <1>2, <1>3, <1>6 DEF Whole, ChromaInv
<1>8. PICK b \in Seq(Bit) :
        writer = WriterOf(b) /\ Trail(type, 4, <<>>, b, NewPredictor, predictor, drawn)
  BY Zenon DEF FrameInv, FrameBits
<1>9. type \in AllTypes
  BY DEF SyntaxAssumption, ChromaInv, ChromaWritten
<1>10. Reads(Verified(FlushZero(WriterOf(b)).bytes, Len(drawn)), drawn, predictor, Len(b))
  BY <1>8, <1>9, ReadsWhole
<1>11. verdict = Verified(FlushZero(WriterOf(b)).bytes, Len(drawn))
  BY <1>4, <1>7, <1>8, Zenon DEF verdict
<1>12. WriterOf(b).total = Len(b)
  BY DEF WriterOf
<1>13. /\ verdict.ok /\ verdict.codes = drawn /\ verdict.predictor = predictor
       /\ verdict.used = writer.total
  BY <1>8, <1>10, <1>11, <1>12, Zenon DEF Reads
<1>14. QED
  BY <1>6, <1>13

LEMMA NotReadYet ==
  ASSUME ~ result'.read
  PROVE  ReadsBack'
BY DEF ReadsBack, Whole

\* Written candidate by candidate, each moved from its own buffer to whatever
\* bit the frame has reached, a frame of any blocks is read back as what was
\* drawn, to the last bit and with the same predictor (mb_encode.c:60,
\* mb_motion.c:48-100 against 252-284, mb_huffman.c).
THEOREM FramesAreReadBack ==
  ASSUME OffersAreLegal
  PROVE  Spec => []ReadsBack
<1>1. SyntaxAssumption
  BY SyntaxAssumption
<1>2. Init => FrameInv /\ ReadsBack
  <2>1. SUFFICES ASSUME Init PROVE FrameInv /\ ReadsBack
    OBVIOUS
  <2>2. ~ result.read
    BY <2>1 DEF Init
  <2>3. QED
    BY <2>1, <2>2, FrameStarts DEF ReadsBack, Whole
<1>3. ChromaInv /\ FrameInv /\ ReadsBack /\ [Next]_frameVars => (FrameInv /\ ReadsBack)'
  <2>1. SUFFICES ASSUME ChromaInv, FrameInv, ReadsBack, [Next]_frameVars
                 PROVE  FrameInv' /\ ReadsBack'
    OBVIOUS
  <2>2. CASE EncodeCopy
    <3>1. ~ result'.read
      BY <2>2 DEF EncodeCopy, Encoding
    <3>2. QED
      BY <1>1, <2>1, <2>2, <3>1, FrameCopy, NotReadYet
  <2>3. CASE EncodeBlock
    <3>1. ~ result'.read
      BY <2>3 DEF EncodeBlock, Encoding
    <3>2. QED
      BY <1>1, <2>1, <2>3, <3>1, FrameBlock, NotReadYet
  <2>4. CASE VerifyFrame
    <3>1. FrameInv'
      BY <2>1, <2>4, FrameStays DEF VerifyFrame
    <3>2. ReadsBack'
      BY <1>1, <2>1, <2>4, WholeIsRead
    <3>3. QED
      BY <3>1, <3>2
  <2>5. CASE UNCHANGED frameVars
    <3>1. FrameInv'
      BY <2>1, <2>5, FrameStays DEF frameVars
    <3>2. ReadsBack'
      BY <2>1, <2>5 DEF ReadsBack, Whole, frameVars
    <3>3. QED
      BY <3>1, <3>2
  <2>6. QED
    BY <2>1, <2>2, <2>3, <2>4, <2>5 DEF Next
<1>4. Spec => []ChromaInv
  BY ChromaKept
<1>5. QED
  BY <1>2, <1>3, <1>4, PTL DEF Spec
=============================================================================
