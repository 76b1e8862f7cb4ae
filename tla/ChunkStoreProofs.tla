-------------------------- MODULE ChunkStoreProofs --------------------------
(***************************************************************************)
(* Proofs about ChunkStore, Section and LightEngine, from the words of a   *)
(* section up to the store.                                                *)
(*                                                                         *)
(*   - Numbers, words and widths: entries packed into words are read as    *)
(*     they were written, and writing one leaves the others alone.         *)
(*   - Sections: set_block, fill_blocks and the generator give exactly the *)
(*     blocks they should, through every growth of the palette             *)
(*     (BlockWritten, FilledBlocks, GeneratedBlocks).                      *)
(*   - Orders and forgetting: evict_lru ends at the limit (EvictedTrim).   *)
(*   - The store: Typed is inductive; with FillsFit so are SoundStore and  *)
(*     LitStore, and every step is one of ChunkTable.                      *)
(*   - Light: the queue runs empty within its bound, and what it leaves is *)
(*     the light Explained demands (FloodFacts, BlockLightExplained); the  *)
(*     rounds of finalize leave no chunk with wrong light (Relighting).    *)
(*                                                                         *)
(* Loops written with FoldLeft are taken apart with the induction of       *)
(* Folding: one round is an operator Op, what holds after n rounds is P.   *)
(***************************************************************************)
EXTENDS ChunkStore, FiniteSetTheorems, SequenceTheorems, TLAPS

----------------------------------------------------------------------------
(* Numbers                                                                 *)

\* A set of numbers that is not empty has a least one.
LEMMA LeastOf ==
  ASSUME NEW T, T \subseteq Nat, T # {}
  PROVE  \E d \in T : \A e \in T : d <= e
<1> DEFINE L == OpToRel(<, Nat)
<1>1. IsWellFoundedOn(L, Nat)
  BY NatLessThanWellFounded
<1>2. \A x, y \in Nat : x < y => <<x, y>> \in L
  BY DEF OpToRel
<1> HIDE DEF L
<1>3. PICK d \in T : \A x \in T : ~(<<x, d>> \in L)
  BY <1>1, WFMin
<1>4. \A x \in T : ~(x < d)
  BY <1>2, <1>3
<1> QED BY <1>4

\* The recursion that defines the powers of two has a solution.
LEMMA PowersExist ==
  \E f : f = [b \in Nat |-> IF b = 0 THEN 1 ELSE 2 * f[b - 1]]
<1> DEFINE Goes(f, n) == f \in [0 .. n -> Int] /\ f[0] = 1 /\ \A b \in 1 .. n : f[b] = 2 * f[b - 1]
           Bad == {n \in Nat : ~ \E f : Goes(f, n)}
<1>1. \E f : Goes(f, 0)
  <2>1. Goes([b \in 0 .. 0 |-> 1], 0)
    OBVIOUS
  <2> QED BY <2>1
<1>2. ASSUME NEW n \in Nat, NEW f, Goes(f, n)
      PROVE  \E g : Goes(g, n + 1)
  <2> DEFINE g == [b \in 0 .. n + 1 |-> IF b = n + 1 THEN 2 * f[n] ELSE f[b]]
  <2>1. f[n] \in Int /\ 0 \in 0 .. n
    BY <1>2
  <2>2. g \in [0 .. n + 1 -> Int] /\ g[0] = 1
    BY <1>2, <2>1
  <2>3. ASSUME NEW b \in 1 .. n + 1
        PROVE  g[b] = 2 * g[b - 1]
    <3>1. CASE b = n + 1
      BY <3>1
    <3>2. CASE b # n + 1
      <4>1. b \in 1 .. n /\ b \in 0 .. n + 1 /\ b - 1 \in 0 .. n + 1 /\ b - 1 # n + 1
        BY <3>2
      <4>2. g[b] = f[b] /\ g[b - 1] = f[b - 1]
        BY <3>2, <4>1
      <4> QED BY <1>2, <4>1, <4>2
    <3> QED BY <3>1, <3>2
  <2>4. Goes(g, n + 1)
    BY <2>2, <2>3
  <2> QED BY <2>4
<1>3. ASSUME Bad # {}
      PROVE  FALSE
  <2>0. Bad \subseteq Nat
    OBVIOUS
  <2> HIDE DEF Bad
  <2>1. PICK d \in Bad : \A c \in Bad : d <= c
    BY <1>3, <2>0, LeastOf
  <2> USE DEF Bad
  <2>2. d \in Nat /\ d # 0
    BY <1>1, <2>1
  <2>3. d - 1 \in Nat /\ ~(d <= d - 1) /\ (d - 1) + 1 = d
    BY <2>2
  <2> HIDE DEF Goes
  <2>4. \E f : Goes(f, d - 1)
    BY <2>1, <2>3
  <2>5. \E g : Goes(g, d)
    BY <1>2, <2>3, <2>4
  <2> QED BY <2>1, <2>5
<1>4. \A n \in Nat : \E f : Goes(f, n)
  BY <1>3
<1> DEFINE h == [n \in Nat |-> CHOOSE f : Goes(f, n)]
<1>5. \A n \in Nat : Goes(h[n], n)
  BY <1>4
\* Two solutions agree where both are defined.
<1>6. ASSUME NEW m \in Nat, NEW n \in Nat, m <= n
      PROVE  h[n][m] = h[m][m]
  <2>0. Goes(h[n], n) /\ Goes(h[m], m)
    BY <1>5
  <2> DEFINE Off == {b \in 0 .. m : h[n][b] # h[m][b]}
  <2>1. ASSUME Off # {}
        PROVE  FALSE
    <3>0. Off \subseteq Nat
      OBVIOUS
    <3> HIDE DEF Off
    <3>1. PICK d \in Off : \A c \in Off : d <= c
      BY <2>1, <3>0, LeastOf
    <3> USE DEF Off
    <3> HIDE DEF h
    <3>2. d # 0
      BY <2>0, <3>1
    <3>3. d - 1 \in 0 .. m /\ ~(d <= d - 1) /\ d \in 1 .. m /\ d \in 1 .. n
      BY <1>6, <3>1, <3>2
    <3>4. h[n][d - 1] = h[m][d - 1]
      BY <3>1, <3>3
    <3> QED BY <2>0, <3>1, <3>3, <3>4
  <2> HIDE DEF h
  <2>2. m \in 0 .. m
    OBVIOUS
  <2> QED BY <2>1, <2>2
<1> DEFINE p == [n \in Nat |-> h[n][n]]
<1>7. ASSUME NEW b \in Nat
      PROVE  p[b] = IF b = 0 THEN 1 ELSE 2 * p[b - 1]
  <2>1. Goes(h[b], b)
    BY <1>5
  <2>2. CASE b = 0
    BY <2>1, <2>2
  <2>3. CASE b # 0
    <3>1. b - 1 \in Nat /\ b \in 1 .. b /\ b - 1 <= b
      BY <2>3
    <3>2. h[b][b] = 2 * h[b][b - 1]
      BY <2>1, <3>1
    <3>3. h[b][b - 1] = h[b - 1][b - 1]
      BY <1>6, <3>1
    <3> QED BY <2>3, <3>1, <3>2, <3>3
  <2> QED BY <2>2, <2>3
<1>8. p = [b \in Nat |-> IF b = 0 THEN 1 ELSE 2 * p[b - 1]]
  <2> HIDE DEF h
  <2>1. p = [b \in Nat |-> p[b]]
    OBVIOUS
  <2> QED BY <1>7, <2>1
<1> QED BY <1>8

\* The powers of two, from one to the next.
LEMMA PowerStep ==
  /\ Pow2[0] = 1
  /\ \A b \in Nat : Pow2[b + 1] = 2 * Pow2[b]
<1>1. Pow2 = [b \in Nat |-> IF b = 0 THEN 1 ELSE 2 * Pow2[b - 1]]
  BY PowersExist DEF Pow2
<1>2. ASSUME NEW b \in Nat
      PROVE  Pow2[b + 1] = 2 * Pow2[b]
  <2>1. b + 1 \in Nat /\ b + 1 # 0 /\ (b + 1) - 1 = b
    OBVIOUS
  <2> QED BY <1>1, <2>1
<1> QED BY <1>1, <1>2

\* Induction over n, for an assertion given as the set of the numbers for which it holds.
LEMMA FromZero ==
  ASSUME NEW S, 0 \in S, \A n \in Nat : n \in S => n + 1 \in S
  PROVE  Nat \subseteq S
<1> SUFFICES ASSUME Nat \ S # {} PROVE FALSE
  OBVIOUS
<1>1. PICK d \in Nat \ S : \A c \in Nat \ S : d <= c
  BY LeastOf
<1>2. d # 0 /\ d \in Nat /\ d - 1 \in Nat /\ (d - 1) + 1 = d /\ ~(d <= d - 1)
  BY <1>1
<1>3. d - 1 \in S
  BY <1>1, <1>2
<1> QED BY <1>1, <1>2, <1>3

\* Each power of two is a number above its exponent.
LEMMA PowerFacts ==
  /\ Pow2[0] = 1
  /\ \A b \in Nat : Pow2[b] \in Nat /\ Pow2[b] > b /\ Pow2[b + 1] = 2 * Pow2[b]
<1> DEFINE S == {b \in Nat : Pow2[b] \in Nat /\ Pow2[b] > b}
<1>1. 0 \in S
  BY PowerStep
<1>2. ASSUME NEW b \in Nat, b \in S
      PROVE  b + 1 \in S
  <2>1. Pow2[b + 1] = 2 * Pow2[b] /\ Pow2[b] \in Nat /\ Pow2[b] > b
    BY <1>2, PowerStep
  <2> QED BY <2>1
<1> HIDE DEF S
<1>3. Nat \subseteq S
  BY <1>1, <1>2, FromZero
<1> QED BY <1>3, PowerStep DEF S

\* The product of two powers of two.
LEMMA PowerSum ==
  ASSUME NEW m \in Nat, NEW n \in Nat
  PROVE  Pow2[m + n] = Pow2[m] * Pow2[n]
<1> DEFINE S == {k \in Nat : Pow2[m + k] = Pow2[m] * Pow2[k]}
<1>1. 0 \in S
  BY PowerFacts
<1>2. ASSUME NEW k \in Nat, k \in S
      PROVE  k + 1 \in S
  <2>1. Pow2[m + k] = Pow2[m] * Pow2[k] /\ m + k \in Nat /\ m + (k + 1) = (m + k) + 1
    BY <1>2
  <2>2. Pow2[(m + k) + 1] = 2 * Pow2[m + k] /\ Pow2[k + 1] = 2 * Pow2[k]
    BY <2>1, PowerFacts
  <2>3. Pow2[m] \in Nat /\ Pow2[k] \in Nat
    BY PowerFacts
  <2>4. 2 * (Pow2[m] * Pow2[k]) = Pow2[m] * (2 * Pow2[k])
    BY <2>3
  <2> QED BY <2>1, <2>2, <2>4
<1> HIDE DEF S
<1>3. Nat \subseteq S
  BY <1>1, <1>2, FromZero
<1> QED BY <1>3 DEF S

\* The powers of two grow.
LEMMA PowerMonotone ==
  ASSUME NEW m \in Nat, NEW n \in Nat, m <= n
  PROVE  Pow2[m] <= Pow2[n]
<1>1. n - m \in Nat /\ m + (n - m) = n
  OBVIOUS
<1>2. Pow2[n] = Pow2[m] * Pow2[n - m]
  BY <1>1, PowerSum
<1>3. Pow2[m] \in Nat /\ Pow2[n - m] \in Nat /\ Pow2[n - m] >= 1
  BY <1>1, PowerFacts
<1> DEFINE a == Pow2[m]
           b == Pow2[n - m]
<1>4. a * b >= a
  <2>1. a \in Nat /\ b - 1 \in Nat
    BY <1>3
  <2>2. a * b = a + a * (b - 1) /\ a * (b - 1) \in Nat
    BY <1>3, <2>1
  <2> QED BY <2>1, <2>2
<1> QED BY <1>2, <1>4

----------------------------------------------------------------------------
(* Quotients and remainders                                                *)

\* What quotient and remainder are.
LEMMA DivMod ==
  ASSUME NEW x \in Int, NEW a \in Nat \ {0}
  PROVE  /\ x \div a \in Int /\ x % a \in 0 .. a - 1
         /\ x = a * (x \div a) + (x % a)
  OBVIOUS

\* There is one way to write a number like that.
LEMMA DivModUnique ==
  ASSUME NEW a \in Nat \ {0}, NEW q \in Int, NEW r \in 0 .. a - 1
  PROVE  (a * q + r) \div a = q /\ (a * q + r) % a = r
<1> DEFINE x == a * q + r
           p == x \div a
           s == x % a
<1>1. x \in Int /\ p \in Int /\ s \in 0 .. a - 1 /\ x = a * p + s
  <2>1. x \in Int
    OBVIOUS
  <2> HIDE DEF x
  <2> QED BY <2>1, DivMod
<1>2. a * q + r = a * p + s
  BY <1>1
<1> HIDE DEF p, s, x
<1>3. ASSUME NEW m \in Int, NEW n \in Int, m < n
      PROVE  a * m + a <= a * n
  <2>1. n - m - 1 \in Nat
    BY <1>3
  <2>2. a * (n - m - 1) \in Nat
    BY <2>1
  <2>3. a * n = a * m + a + a * (n - m - 1)
    OBVIOUS
  <2>4. a * m \in Int /\ a * n \in Int
    OBVIOUS
  <2> QED BY <2>2, <2>3, <2>4
<1>4. a * p \in Int /\ a * q \in Int
  BY <1>1
<1>5. ~ p < q
  <2> SUFFICES ASSUME p < q PROVE FALSE
    OBVIOUS
  <2>1. a * p + a <= a * q
    BY <1>1, <1>3
  <2> QED BY <1>1, <1>2, <1>4, <2>1
<1>6. ~ q < p
  <2> SUFFICES ASSUME q < p PROVE FALSE
    OBVIOUS
  <2>1. a * q + a <= a * p
    BY <1>1, <1>3
  <2> QED BY <1>1, <1>2, <1>4, <2>1
<1>7. p = q
  BY <1>1, <1>5, <1>6
<1>8. s = r
  BY <1>1, <1>2, <1>4, <1>7
<1> QED BY <1>7, <1>8 DEF p, s, x

\* A multiple of the divisor changes the quotient only.
LEMMA AddMultiple ==
  ASSUME NEW x \in Int, NEW m \in Int, NEW a \in Nat \ {0}
  PROVE  (x + m * a) \div a = x \div a + m /\ (x + m * a) % a = x % a
<1> DEFINE q == x \div a
           r == x % a
<1>1. q \in Int /\ r \in 0 .. a - 1 /\ x = a * q + r
  BY DivMod
<1> HIDE DEF q, r
<1>2. x + m * a = a * (q + m) + r /\ q + m \in Int
  BY <1>1
<1>3. (a * (q + m) + r) \div a = q + m /\ (a * (q + m) + r) % a = r
  BY <1>1, <1>2, DivModUnique
<1> QED BY <1>2, <1>3 DEF q, r

\* Dividing twice is dividing by the product.
LEMMA DivTwice ==
  ASSUME NEW x \in Int, NEW a \in Nat \ {0}, NEW b \in Nat \ {0}
  PROVE  x \div (a * b) = (x \div a) \div b
<1> DEFINE q == x \div a
           r == x % a
           p == q \div b
           s == q % b
<1>1. q \in Int /\ r \in 0 .. a - 1 /\ x = a * q + r
  BY DivMod
<1>2. p \in Int /\ s \in 0 .. b - 1 /\ q = b * p + s
  <2> HIDE DEF q
  <2> QED BY <1>1, DivMod
<1> HIDE DEF q, r, p, s
<1>3. a * b \in Nat \ {0}
  OBVIOUS
<1>4. x = (a * b) * p + (a * s + r)
  BY <1>1, <1>2
<1>5. a * s + r \in 0 .. a * b - 1
  <2>1. b - 1 - s \in Nat
    BY <1>2
  <2>2. a * (b - 1 - s) \in Nat /\ a * s \in Nat
    BY <1>2, <2>1
  <2>3. a * b = a * s + a + a * (b - 1 - s)
    BY <1>2
  <2> QED BY <1>1, <2>2, <2>3
<1>6. x \div (a * b) = p
  BY <1>2, <1>3, <1>4, <1>5, DivModUnique
<1> QED BY <1>6 DEF q, p

\* The remainder of what is below the divisor.
LEMMA SmallMod ==
  ASSUME NEW a \in Nat, NEW r \in 0 .. a - 1
  PROVE  r % a = r
<1>1. a \in Nat \ {0} /\ 0 \in Int
  OBVIOUS
<1>2. (a * 0 + r) % a = r
  BY <1>1, DivModUnique
<1>3. a * 0 + r = r
  OBVIOUS
<1> QED BY <1>2, <1>3

----------------------------------------------------------------------------
(* Entries of a word                                                       *)

\* The entry at position p of a word, and what one there is worth.
UnitOf(b, p) == Pow2[p * b]
Digit(x, b, p) == (x \div UnitOf(b, p)) % Pow2[b]

\* The unit of an entry divides those of the entries above it.
LEMMA UnitFacts ==
  ASSUME NEW b \in Nat \ {0}, NEW p \in Nat
  PROVE  /\ Pow2[b] \in Nat \ {0} /\ UnitOf(b, p) \in Nat \ {0}
         /\ \A q \in Nat : q > p =>
              \E v \in Nat \ {0} : UnitOf(b, q) = UnitOf(b, p) * (Pow2[b] * v)
<1>1. \A k \in Nat : Pow2[k] \in Nat \ {0}
  <2> TAKE k \in Nat
  <2>1. Pow2[k] \in Nat /\ Pow2[k] > k
    BY PowerFacts
  <2> QED BY <2>1
<1>2. \A n \in Nat : n * b \in Nat
  OBVIOUS
<1>3. ASSUME NEW q \in Nat, q > p
      PROVE  \E v \in Nat \ {0} : UnitOf(b, q) = UnitOf(b, p) * (Pow2[b] * v)
  <2> DEFINE d == q - p - 1
  <2>1. d \in Nat /\ q = p + 1 + d
    BY <1>3
  <2>2. q * b = p * b + (b + d * b)
    BY <2>1
  <2>3. p * b \in Nat /\ d * b \in Nat /\ b + d * b \in Nat
    BY <1>2, <2>1
  <2>4. Pow2[q * b] = Pow2[p * b] * (Pow2[b] * Pow2[d * b])
    <3>1. Pow2[p * b + (b + d * b)] = Pow2[p * b] * Pow2[b + d * b]
      BY <2>3, PowerSum
    <3>2. Pow2[b + d * b] = Pow2[b] * Pow2[d * b]
      BY <2>3, PowerSum
    <3> QED BY <2>2, <3>1, <3>2
  <2>5. Pow2[d * b] \in Nat \ {0}
    BY <1>1, <2>3
  <2> QED BY <2>4, <2>5 DEF UnitOf
<1> QED BY <1>1, <1>2, <1>3 DEF UnitOf

\* An entry of b bits is below the power of b.
LEMMA DigitType ==
  ASSUME NEW x \in Int, NEW b \in Nat \ {0}, NEW p \in Nat
  PROVE  Digit(x, b, p) \in 0 .. Pow2[b] - 1
<1>1. UnitOf(b, p) \in Nat \ {0} /\ Pow2[b] \in Nat \ {0}
  BY UnitFacts
<1> DEFINE u == UnitOf(b, p)
<1> HIDE DEF u
<1>2. x \div u \in Int
  BY <1>1, DivMod DEF u
<1>3. (x \div u) % Pow2[b] \in 0 .. Pow2[b] - 1
  BY <1>1, <1>2, DivMod
<1> QED BY <1>3 DEF Digit, u

\* The word with entry k at position p.
Rewritten(x, b, p, k) == x + (k - Digit(x, b, p)) * UnitOf(b, p)

\* Writing an entry leaves the others of its word alone.
LEMMA DigitWritten ==
  ASSUME NEW x \in Int, NEW b \in Nat \ {0}, NEW p \in Nat, NEW q \in Nat,
         NEW k \in 0 .. Pow2[b] - 1
  PROVE  /\ Rewritten(x, b, p, k) \in Int
         /\ Digit(Rewritten(x, b, p, k), b, q) = IF q = p THEN k ELSE Digit(x, b, q)
<1> DEFINE y == Rewritten(x, b, p, k)
<1>14. y = x + (k - Digit(x, b, p)) * UnitOf(b, p)
  BY DEF Rewritten
<1> HIDE DEF y
<1> DEFINE B == Pow2[b]
           u == UnitOf(b, p)
           e == Digit(x, b, p)
           d == k - e
<1>1. B \in Nat \ {0} /\ u \in Nat \ {0}
  BY UnitFacts
<1>2. e \in 0 .. B - 1 /\ d \in Int
  <2>1. Digit(x, b, p) \in 0 .. Pow2[b] - 1
    BY DigitType
  <2> HIDE DEF e
  <2>2. e \in 0 .. B - 1 /\ k \in 0 .. B - 1
    BY <2>1 DEF e
  <2> QED BY <1>1, <2>2
<1>13. y = x + d * u
  BY <1>14
<1>3. y \in Int
  BY <1>1, <1>2, <1>13
<1>4. y \div u = x \div u + d
  <2> HIDE DEF u, d
  <2> QED BY <1>13, <1>1, <1>2, AddMultiple
<1> DEFINE W == x \div u
           h == W \div B
<1>5. W \in Int /\ W % B = e
  <2>1. x \div u \in Int
    <3> HIDE DEF u
    <3> QED BY <1>1, DivMod
  <2> QED BY <2>1 DEF Digit
<1>6. h \in Int /\ W = B * h + e
  <2> HIDE DEF W, B
  <2>1. W = B * (W \div B) + (W % B) /\ W \div B \in Int
    BY <1>1, <1>5, DivMod
  <2> QED BY <1>5, <2>1
<1>7. W + d = B * h + k
  BY <1>1, <1>2, <1>6
<1>8. (W + d) \div B = h /\ (W + d) % B = k
  <2>1. (B * h + k) \div B = h /\ (B * h + k) % B = k
    <3> HIDE DEF h, B
    <3>1. k \in 0 .. B - 1
      BY DEF B
    <3> QED BY <1>1, <1>6, <3>1, DivModUnique
  <2> QED BY <1>7, <2>1
<1>0. \A z, n : Digit(z, b, n) = (z \div UnitOf(b, n)) % B
  BY DEF Digit
<1> HIDE DEF e, h
<1>9. ASSUME q = p
      PROVE  Digit(y, b, q) = k
  BY <1>0, <1>4, <1>8, <1>9
<1>10. ASSUME q > p
       PROVE  Digit(y, b, q) = Digit(x, b, q)
  <2>1. PICK v \in Nat \ {0} : UnitOf(b, q) = u * (B * v)
    BY <1>10, UnitFacts
  <2>2. \A z \in Int : z \div (u * (B * v)) = ((z \div u) \div B) \div v
    <3> TAKE z \in Int
    <3> HIDE DEF u, B
    <3>1. B * v \in Nat \ {0}
      BY <1>1, <2>1
    <3>2. z \div (u * (B * v)) = (z \div u) \div (B * v)
      BY <1>1, <3>1, DivTwice
    <3>3. z \div u \in Int
      BY <1>1, DivMod
    <3>4. (z \div u) \div (B * v) = ((z \div u) \div B) \div v
      BY <1>1, <2>1, <3>3, DivTwice
    <3> QED BY <3>2, <3>4
  <2>3. y \div UnitOf(b, q) = h \div v
    BY <1>3, <1>4, <1>8, <2>1, <2>2 DEF h
  <2>4. x \div UnitOf(b, q) = h \div v
    BY <2>1, <2>2 DEF h
  <2> QED BY <1>0, <2>3, <2>4
<1>11. ASSUME q < p
       PROVE  Digit(y, b, q) = Digit(x, b, q)
  <2> DEFINE t == UnitOf(b, q)
  <2>1. PICK v \in Nat \ {0} : u = t * (B * v)
    BY <1>11, UnitFacts
  <2>2. t \in Nat \ {0}
    BY UnitFacts
  <2> DEFINE m == d * v
  <2>3. y = x + (m * B) * t /\ m \in Int /\ m * B \in Int
    BY <1>1, <1>2, <1>13, <2>1, <2>2
  <2>4. y \div t = x \div t + m * B
    <3> HIDE DEF t, m, B
    <3> QED BY <2>2, <2>3, AddMultiple
  <2>5. x \div t \in Int
    <3> HIDE DEF t
    <3> QED BY <2>2, DivMod
  <2>6. (x \div t + m * B) % B = (x \div t) % B
    <3> HIDE DEF t, m, B
    <3> QED BY <1>1, <2>3, <2>5, AddMultiple
  <2> QED BY <1>0, <2>4, <2>6
<1>12. Digit(y, b, q) = IF q = p THEN k ELSE Digit(x, b, q)
  BY <1>9, <1>10, <1>11
<1> QED BY <1>3, <1>12 DEF y

\* An empty word has entries 0.
LEMMA DigitOfZero ==
  ASSUME NEW b \in Nat \ {0}, NEW p \in Nat
  PROVE  Digit(0, b, p) = 0
<1>1. \A a \in Nat \ {0} : 0 \div a = 0 /\ 0 % a = 0
  OBVIOUS
<1>2. UnitOf(b, p) \in Nat \ {0} /\ Pow2[b] \in Nat \ {0}
  BY UnitFacts
<1> QED BY <1>1, <1>2 DEF Digit

\* The sizes of a section and of its words.
LEMMA SizeFacts ==
  /\ Volume \in Nat \ {0} /\ WordBits \in Nat \ {0} /\ MinBits \in Nat \ {0}
  /\ MaxBits \in Nat \ {0} /\ DirectBits \in Nat \ {0}
  /\ MinBits <= MaxBits /\ MaxBits < DirectBits /\ DirectBits <= WordBits
  BY SectionAssumption

\* Words of a section with entries of b bits.
WordsFor(b) == (Volume + PerWord(b) - 1) \div PerWord(b)

\* Quotients keep the order.
LEMMA DivMonotone ==
  ASSUME NEW x \in Int, NEW y \in Int, NEW a \in Nat \ {0}, x <= y
  PROVE  x \div a <= y \div a
<1> DEFINE p == x \div a
           q == y \div a
           r == x % a
           s == y % a
<1>1. /\ p \in Int /\ r \in 0 .. a - 1 /\ x = a * p + r
      /\ q \in Int /\ s \in 0 .. a - 1 /\ y = a * q + s
  BY DivMod
<1> HIDE DEF p, q, r, s
<1>2. SUFFICES ASSUME q < p PROVE FALSE
  BY <1>1 DEF p, q
<1>3. p - q - 1 \in Nat
  BY <1>1, <1>2
<1>4. a * (p - q - 1) \in Nat
  BY <1>3
<1>5. a * p = a * q + a + a * (p - q - 1)
  BY <1>1
<1>6. a * q \in Int /\ a * p \in Int
  BY <1>1
<1> QED BY <1>1, <1>4, <1>5, <1>6

\* The place of a cell: its word and its position there.
LEMMA CellPlace ==
  ASSUME NEW b \in 1 .. WordBits, NEW i \in Cells
  PROVE  /\ PerWord(b) \in Nat \ {0}
         /\ i % PerWord(b) \in Nat /\ i \div PerWord(b) + 1 \in 1 .. WordsFor(b)
         /\ \A j \in Cells : i \div PerWord(b) = j \div PerWord(b) /\ i % PerWord(b) = j % PerWord(b) => i = j
<1>1. WordBits \in Nat \ {0} /\ Volume \in Nat \ {0} /\ b \in Nat \ {0} /\ b <= WordBits
  BY SizeFacts
<1> DEFINE per == PerWord(b)
<1>2. per \in Nat \ {0}
  <2>1. WordBits \div b \in Int /\ WordBits % b \in 0 .. b - 1
        /\ WordBits = b * (WordBits \div b) + (WordBits % b)
    BY <1>1, DivMod
  <2> DEFINE k == WordBits \div b
  <2>2. k >= 1
    <3> HIDE DEF k
    <3> SUFFICES ASSUME k <= 0 PROVE FALSE
      BY <2>1 DEF k
    <3>1. b * (0 - k) \in Nat /\ b * k = 0 - b * (0 - k)
      BY <1>1, <2>1 DEF k
    <3> QED BY <1>1, <2>1, <3>1 DEF k
  <2> QED BY <2>1, <2>2 DEF PerWord
<1> HIDE DEF per
<1>3. i \in Nat /\ i <= Volume - 1
  BY <1>1 DEF Cells
<1>4. \A j \in Nat : j \div per \in Int /\ j % per \in 0 .. per - 1 /\ j = per * (j \div per) + (j % per)
  BY <1>2, DivMod
<1>5. i \div per + 1 <= (Volume + per - 1) \div per
  <2>1. (i + 1 * per) \div per = i \div per + 1
    <3>1. i \in Int /\ 1 \in Int
      BY <1>3
    <3> QED BY <1>2, <3>1, AddMultiple
  <2>2. i + 1 * per \in Int /\ Volume + per - 1 \in Int /\ i + 1 * per <= Volume + per - 1
    BY <1>1, <1>2, <1>3
  <2>3. (i + 1 * per) \div per <= (Volume + per - 1) \div per
    BY <1>2, <2>2, DivMonotone
  <2> QED BY <2>1, <2>3
<1>6. i \div per \in Nat
  <2>1. 0 \div per <= i \div per
    BY <1>2, <1>3, DivMonotone
  <2>2. 0 \div per = 0
    BY <1>2
  <2> QED BY <1>3, <1>4, <2>1, <2>2
<1>7. WordsFor(b) = (Volume + per - 1) \div per
  BY DEF WordsFor, per
<1>8. (Volume + per - 1) \div per \in Int
  <2>1. Volume + per - 1 \in Int
    BY <1>1, <1>2
  <2> QED BY <1>2, <2>1, DivMod
<1>9. i % per \in Nat /\ i \div per + 1 \in 1 .. WordsFor(b)
  BY <1>2, <1>3, <1>4, <1>5, <1>6, <1>7, <1>8
<1>10. \A j \in Cells : j \in Nat
  BY DEF Cells
<1>11. ASSUME NEW j \in Cells, i \div per = j \div per, i % per = j % per
       PROVE  i = j
  <2>1. i = per * (i \div per) + (i % per) /\ j = per * (j \div per) + (j % per)
    BY <1>3, <1>4, <1>10
  <2> QED BY <1>11, <2>1
<1> QED BY <1>2, <1>9, <1>11 DEF per

\* An entry of a section.
LEMMA EntryIs ==
  ASSUME NEW data, NEW b, NEW i
  PROVE  Entry(data, b, i) = Digit(data[i \div PerWord(b) + 1], b, i % PerWord(b))
  BY DEF Entry, Digit, UnitOf

----------------------------------------------------------------------------
(* Packing all cells                                                       *)

\* A word with the entry of cell i put in; z has the entries and their width.
InWord(x, i, z) == (z[1][i] % Pow2[z[2]]) * Pow2[(i % PerWord(z[2])) * z[2]] + x

\* The word x has the entries of the cells T, and nothing else.
HasEntries(x, T, z) ==
  LET entries == z[1]
      b       == z[2]
  IN  /\ x \in Int
      /\ \A i \in T : Digit(x, b, i % PerWord(b)) = entries[i] % Pow2[b]
      /\ \A q \in Nat : (\A i \in T : i % PerWord(b) # q) => Digit(x, b, q) = 0
Word == INSTANCE Folding WITH Op <- InWord, P <- HasEntries

Kept(b, w) == {i \in Cells : i \div PerWord(b) + 1 = w}

\* pack_words: a word has the entries of its cells and no others.
LEMMA PackedWord ==
  ASSUME NEW b \in 1 .. WordBits, NEW entries \in [Cells -> Nat], NEW w \in 1 .. WordsFor(b)
  PROVE  HasEntries(Packed(entries, b)[w], Kept(b, w), <<entries, b>>)
<1> DEFINE z == <<entries, b>>
           S == Kept(b, w)
           fold(T) == Word!OverSet(0, T, z)
<1>1. IsFiniteSet(S) /\ b \in Nat \ {0}
  <2>1. IsFiniteSet(Cells)
    BY SizeFacts, FS_Interval DEF Cells
  <2>2. S \subseteq Cells
    BY DEF Kept
  <2> QED BY <2>1, <2>2, FS_Subset, SizeFacts
<1>2. Packed(entries, b)[w] = fold(S)
  BY DEF Packed, WordsFor, Kept, MapThenSumSet, MapThenFoldSet, Word!OverSet, Word!MapThenFoldSet, InWord
<1>3. HasEntries(fold({}), {}, z)
  <2>0. IsFiniteSet({})
    BY FS_EmptySet
  <2>1. fold({}) = 0
    BY <2>0, Word!OverSetStep DEF Word!IsFiniteSet, IsFiniteSet
  <2>2. \A q \in Nat : Digit(0, b, q) = 0
    BY <1>1, DigitOfZero
  <2> QED BY <2>1, <2>2 DEF HasEntries
<1>4. ASSUME NEW T \in SUBSET S, T # {},
             HasEntries(fold(T \ {Word!Chosen(T)}), T \ {Word!Chosen(T)}, z)
      PROVE  HasEntries(fold(T), T, z)
  <2> DEFINE c == Word!Chosen(T)
             R == T \ {c}
             x == fold(R)
             p == c % PerWord(b)
             k == entries[c] % Pow2[b]
  <2>1. c \in T /\ c \in Cells /\ c \div PerWord(b) + 1 = w
    BY <1>4 DEF Word!Chosen, Kept
  <2>2. IsFiniteSet(T)
    BY <1>1, FS_Subset
  <2>3. fold(T) = InWord(x, c, z)
    BY <1>4, <2>2, Word!OverSetStep DEF Word!IsFiniteSet, IsFiniteSet
  <2>4. x \in Int /\ (\A i \in R : Digit(x, b, i % PerWord(b)) = entries[i] % Pow2[b])
        /\ \A q \in Nat : (\A i \in R : i % PerWord(b) # q) => Digit(x, b, q) = 0
    BY <1>4 DEF HasEntries
  <2> HIDE DEF c, R, fold, x
  <2>5. p \in Nat /\ PerWord(b) \in Nat \ {0}
    BY <2>1, CellPlace
  <2>6. k \in 0 .. Pow2[b] - 1
    <3>1. Pow2[b] \in Nat \ {0} /\ entries[c] \in Int
      BY <1>1, <2>1, UnitFacts
    <3> QED BY <3>1, DivMod
  <2>7. \A i \in R : i \in Cells /\ i # c /\ i \in T /\ i % PerWord(b) # p
    <3> TAKE i \in R
    <3>1. i \in T /\ i # c /\ i \in Cells /\ i \div PerWord(b) + 1 = w
      BY DEF R, Kept
    <3>2. i \div PerWord(b) = c \div PerWord(b)
      <4>1. i \div PerWord(b) \in Int /\ c \div PerWord(b) \in Int
        <5>1. i \in Int /\ c \in Int
          BY <2>1, <3>1, SizeFacts DEF Cells
        <5> QED BY <2>5, <5>1, DivMod
      <4> QED BY <2>1, <3>1, <4>1
    <3> QED BY <2>1, <3>1, <3>2, CellPlace
  <2>8. Digit(x, b, p) = 0
    BY <2>4, <2>5, <2>7
  <2> DEFINE y == Rewritten(x, b, p, k)
  <2>9. y \in Int /\ \A q \in Nat : Digit(y, b, q) = IF q = p THEN k ELSE Digit(x, b, q)
    <3> HIDE DEF p, k
    <3>1. x \in Int /\ b \in Nat \ {0} /\ p \in Nat
      BY <1>1, <2>4, <2>5
    <3>2. \A q \in Nat : y \in Int /\ Digit(y, b, q) = IF q = p THEN k ELSE Digit(x, b, q)
      BY <2>6, <3>1, DigitWritten, SMTT(30)
    <3> QED BY <2>5, <3>2
  <2>10. fold(T) = y
    <3>1. fold(T) = k * UnitOf(b, p) + x
      BY <2>3 DEF InWord, UnitOf
    <3>2. UnitOf(b, p) \in Nat /\ k \in Int
      BY <1>1, <2>5, <2>6, UnitFacts
    <3> HIDE DEF k, p
    <3> QED BY <2>4, <2>8, <3>1, <3>2 DEF Rewritten
  <2> HIDE DEF y, k, p
  <2>11. T = R \cup {c}
    BY <2>1 DEF R
  <2>12. ASSUME NEW i \in T
         PROVE  Digit(y, b, i % PerWord(b)) = entries[i] % Pow2[b]
    <3>1. CASE i = c
      BY <2>5, <2>9, <3>1 DEF k, p
    <3>2. CASE i # c
      <4>1. i \in R
        BY <2>11, <3>2
      <4>2. i % PerWord(b) \in Nat
        BY <2>7, <4>1, CellPlace
      <4> QED BY <2>4, <2>7, <2>9, <4>1, <4>2
    <3> QED BY <3>1, <3>2
  <2>13. ASSUME NEW q \in Nat, \A i \in T : i % PerWord(b) # q
         PROVE  Digit(y, b, q) = 0
    <3>1. q # p /\ \A i \in R : i % PerWord(b) # q
      BY <2>11, <2>13 DEF p
    <3> QED BY <2>4, <2>9, <3>1
  <2> QED BY <2>9, <2>10, <2>12, <2>13 DEF HasEntries
<1> HIDE DEF z
<1>5. HasEntries(fold(S), S, z)
  <2> HIDE DEF S
  <2> QED BY <1>1, <1>3, <1>4, Word!OverSetInduction DEF Word!IsFiniteSet, IsFiniteSet
<1> QED BY <1>2, <1>5 DEF z

\* What is packed is what is read, cut to its width.
LEMMA PackedEntries ==
  ASSUME NEW b \in 1 .. WordBits, NEW entries \in [Cells -> Nat]
  PROVE  /\ Packed(entries, b) \in [1 .. WordsFor(b) -> Int]
         /\ \A i \in Cells : Entry(Packed(entries, b), b, i) = entries[i] % Pow2[b]
<1>1. \A w \in 1 .. WordsFor(b) : Packed(entries, b)[w] \in Int
  BY PackedWord DEF HasEntries
<1>2. /\ DOMAIN Packed(entries, b) = 1 .. WordsFor(b)
      /\ Packed(entries, b) = [w \in DOMAIN Packed(entries, b) |-> Packed(entries, b)[w]]
  BY DEF Packed, WordsFor
<1>3. ASSUME NEW i \in Cells
      PROVE  Entry(Packed(entries, b), b, i) = entries[i] % Pow2[b]
  <2> DEFINE w == i \div PerWord(b) + 1
  <2>1. w \in 1 .. WordsFor(b) /\ i \in Kept(b, w)
    BY CellPlace DEF Kept
  <2>2. Digit(Packed(entries, b)[w], b, i % PerWord(b)) = entries[i] % Pow2[b]
    <3> HIDE DEF w
    <3> QED BY <2>1, PackedWord DEF HasEntries
  <2> QED BY <2>2, EntryIs
<1> QED BY <1>1, <1>2, <1>3

\* The words after the entry of cell i is written.
WordsWith(data, b, i, k) ==
  [data EXCEPT ![i \div PerWord(b) + 1] = @ + (k - Entry(data, b, i)) * Pow2[(i % PerWord(b)) * b]]

\* Writing one entry.
LEMMA EntryWritten ==
  ASSUME NEW b \in 1 .. WordBits, NEW data \in [1 .. WordsFor(b) -> Int], NEW i \in Cells,
         NEW k \in 0 .. Pow2[b] - 1,
         NEW new, new = WordsWith(data, b, i, k)
  PROVE  /\ new \in [1 .. WordsFor(b) -> Int]
         /\ \A j \in Cells : Entry(new, b, j) = IF j = i THEN k ELSE Entry(data, b, j)
<1> DEFINE w(j) == j \div PerWord(b) + 1
           p(j) == j % PerWord(b)
           x == data[w(i)]
           y == Rewritten(x, b, p(i), k)
<1>1. b \in Nat \ {0} /\ \A j \in Cells : w(j) \in 1 .. WordsFor(b) /\ p(j) \in Nat
  BY CellPlace, SizeFacts
<1>2. x \in Int
  BY <1>1
<1>3. y \in Int /\ \A q \in Nat : Digit(y, b, q) = IF q = p(i) THEN k ELSE Digit(x, b, q)
  <2>1. p(i) \in Nat
    BY <1>1
  <2> HIDE DEF p, x
  <2>2. \A v \in Int, n \in Nat, q \in Nat :
          Rewritten(v, b, n, k) \in Int /\ Digit(Rewritten(v, b, n, k), b, q) = IF q = n THEN k ELSE Digit(v, b, q)
    <3>1. b \in Nat \ {0}
      BY <1>1
    <3> HIDE <1>1, <1>2, <2>1
    <3> QED BY <3>1, DigitWritten, SMTT(30)
  <2> QED BY <1>2, <2>1, <2>2
<1>4. new = [data EXCEPT ![w(i)] = y]
  BY EntryIs DEF UnitOf, Rewritten, WordsWith
<1> HIDE DEF y
<1>5. new \in [1 .. WordsFor(b) -> Int] /\ new[w(i)] = y
      /\ \A j \in Cells : w(j) # w(i) => new[w(j)] = data[w(j)]
  <2> HIDE DEF w, x
  <2> QED BY <1>1, <1>3, <1>4
<1>6. ASSUME NEW j \in Cells
      PROVE  Entry(new, b, j) = IF j = i THEN k ELSE Entry(data, b, j)
  <2>1. Entry(new, b, j) = Digit(new[w(j)], b, p(j)) /\ Entry(data, b, j) = Digit(data[w(j)], b, p(j))
    BY EntryIs
  <2>2. CASE j = i
    BY <1>1, <1>3, <1>5, <2>1, <2>2
  <2>3. CASE j # i /\ w(j) # w(i)
    BY <1>5, <2>1, <2>3
  <2>4. CASE j # i /\ w(j) = w(i)
    <3>1. p(j) # p(i)
      <4>1. j \div PerWord(b) = i \div PerWord(b)
        <5>1. PerWord(b) \in Nat \ {0} /\ j \in Int /\ i \in Int
          BY CellPlace DEF Cells
        <5>2. j \div PerWord(b) \in Int /\ i \div PerWord(b) \in Int
          BY <5>1, DivMod
        <5> QED BY <2>4, <5>2
      <4> QED BY <2>4, <4>1, CellPlace
    <3>2. Digit(y, b, p(j)) = Digit(x, b, p(j))
      BY <1>1, <1>3, <3>1
    <3> QED BY <1>5, <2>1, <2>4, <3>2
  <2> QED BY <2>2, <2>3, <2>4
<1> QED BY <1>5, <1>6

----------------------------------------------------------------------------
(* Widths                                                                  *)

\* The larger of two numbers.
LEMMA MaxOfTwo ==
  ASSUME NEW a \in Int, NEW b \in Int
  PROVE  Max({a, b}) = IF a >= b THEN a ELSE b
<1> DEFINE m == IF a >= b THEN a ELSE b
<1>1. m \in {a, b} /\ \A y \in {a, b} : m >= y
  OBVIOUS
<1>2. \A x \in {a, b} : (\A y \in {a, b} : x >= y) => x = m
  OBVIOUS
<1> QED BY <1>1, <1>2 DEF Max

\* bits_to_represent: the fewest bits that hold n.
LEMMA BitsFacts ==
  ASSUME NEW n \in Nat
  PROVE  /\ BitsToRepresent(n) \in 0 .. n /\ Pow2[BitsToRepresent(n)] > n
         /\ \A k \in Nat : n < Pow2[k] => BitsToRepresent(n) <= k
<1> DEFINE Enough == {b \in Nat : Pow2[b] > n}
           IsIt(b) == Pow2[b] > n /\ (b > 0 => Pow2[b - 1] <= n)
<1>1. n \in Enough /\ Enough \subseteq Nat
  BY PowerFacts
<1>2. PICK d \in Enough : \A c \in Enough : d <= c
  <2> HIDE DEF Enough
  <2> QED BY <1>1, LeastOf
<1>3. d \in 0 .. n /\ IsIt(d)
  <2>1. d \in Nat /\ d <= n /\ Pow2[d] > n
    BY <1>1, <1>2
  <2>2. ASSUME d > 0
        PROVE  Pow2[d - 1] <= n
    <3>1. d - 1 \in Nat /\ ~(d <= d - 1)
      BY <2>1, <2>2
    <3>2. ~(Pow2[d - 1] > n) /\ Pow2[d - 1] \in Nat
      BY <1>2, <3>1, PowerFacts
    <3> QED BY <3>2
  <2> QED BY <2>1, <2>2
<1> DEFINE r == BitsToRepresent(n)
<1>4. r \in 0 .. n /\ IsIt(r)
  <2> HIDE DEF IsIt
  <2>1. r = CHOOSE b \in 0 .. n : IsIt(b)
    BY DEF BitsToRepresent, IsIt
  <2> HIDE DEF r
  <2> QED BY <1>3, <2>1
<1> HIDE DEF r
<1>5. ASSUME NEW k \in Nat, n < Pow2[k]
      PROVE  r <= k
  <2> SUFFICES ASSUME r > k PROVE FALSE
    BY <1>4
  <2>1. r - 1 \in Nat /\ k <= r - 1 /\ r > 0
    BY <1>4
  <2>2. Pow2[k] <= Pow2[r - 1] /\ Pow2[k] \in Nat /\ Pow2[r - 1] \in Nat
    BY <2>1, PowerMonotone, PowerFacts
  <2> QED BY <1>4, <1>5, <2>1, <2>2
<1> QED BY <1>4, <1>5 DEF r

\* The width that a palette of n blocks is given.
LEMMA PaletteBits ==
  ASSUME NEW n \in Nat
  PROVE  /\ BitsForPaletteLen(n) \in 1 .. DirectBits
         /\ n < Pow2[MaxBits] => n < Pow2[BitsForPaletteLen(n)]
         /\ n < Pow2[MaxBits] => BitsForPaletteLen(n) # DirectBits
<1> DEFINE r == BitsToRepresent(n)
           bits == Max({MinBits, r})
<1>1. /\ r \in Nat /\ Pow2[r] > n /\ (n < Pow2[MaxBits] => r <= MaxBits)
      /\ MinBits \in Nat \ {0} /\ MinBits <= MaxBits /\ MaxBits \in Nat
      /\ MaxBits < DirectBits /\ DirectBits \in Nat
  BY BitsFacts, SizeFacts
<1>2. bits = IF MinBits >= r THEN MinBits ELSE r
  <2> HIDE DEF r
  <2> QED BY <1>1, MaxOfTwo
<1> HIDE DEF r
<1>3. bits \in Nat \ {0} /\ bits >= r /\ (n < Pow2[MaxBits] => bits <= MaxBits)
  BY <1>1, <1>2
<1> HIDE DEF bits
<1>4. Pow2[r] <= Pow2[bits] /\ Pow2[r] \in Nat /\ Pow2[bits] \in Nat
  BY <1>1, <1>3, PowerMonotone, PowerFacts
<1>5. n < Pow2[bits]
  BY <1>1, <1>4
<1>6. BitsForPaletteLen(n) = IF bits > MaxBits THEN DirectBits ELSE bits
  BY DEF BitsForPaletteLen, bits, r
<1> QED BY <1>1, <1>3, <1>5, <1>6

\* The width of the entries of a section whose palette is not too long.
LEMMA StorageFacts ==
  ASSUME NEW s, s.bits \in 0 .. WordBits, Len(s.palette_ids) \in Nat,
         Len(s.palette_ids) < Pow2[WordBits]
  PROVE  /\ StorageBits(s) \in s.bits .. WordBits
         /\ Len(s.palette_ids) < Pow2[StorageBits(s)]
         /\ Len(s.palette_ids) < Pow2[s.bits] => StorageBits(s) = s.bits
<1> DEFINE n == Len(s.palette_ids)
           r == BitsToRepresent(n)
<1>1. /\ r \in Nat /\ Pow2[r] > n /\ r <= WordBits /\ WordBits \in Nat /\ s.bits \in Nat
      /\ n < Pow2[s.bits] => r <= s.bits
  <2> HIDE DEF n
  <2>1. n \in Nat /\ n < Pow2[WordBits] /\ WordBits \in Nat /\ s.bits \in Nat
    BY SizeFacts DEF n
  <2>2. r \in 0 .. n /\ Pow2[r] > n /\ \A k \in Nat : n < Pow2[k] => r <= k
    BY <2>1, BitsFacts
  <2> HIDE DEF r
  <2> QED BY <2>1, <2>2
<1> HIDE DEF r
<1>2. StorageBits(s) = IF s.bits >= r THEN s.bits ELSE r
  <2>1. StorageBits(s) = Max({s.bits, r})
    BY DEF StorageBits, AirIndex, r
  <2> QED BY <1>1, <2>1, MaxOfTwo
<1>3. StorageBits(s) \in s.bits .. WordBits /\ StorageBits(s) >= r
  BY <1>1, <1>2
<1> DEFINE t == StorageBits(s)
<1> HIDE DEF t
<1>4. Pow2[r] <= Pow2[t] /\ Pow2[r] \in Nat /\ Pow2[t] \in Nat
  <2>1. t \in Nat /\ r <= t
    BY <1>1, <1>3 DEF t
  <2> QED BY <1>1, <2>1, PowerMonotone, PowerFacts
<1>5. n < Pow2[t]
  <2>1. n \in Nat
    OBVIOUS
  <2> HIDE DEF n
  <2> QED BY <1>1, <1>4, <2>1
<1> QED BY <1>1, <1>2, <1>3, <1>5 DEF t

----------------------------------------------------------------------------
(* Sequences without repetition                                            *)

\* A sequence with one more element.
LEMMA AppendFacts ==
  ASSUME NEW S, NEW s \in Seq(S), NEW m \in S
  PROVE  /\ Append(s, m) \in Seq(S) /\ Append(s, m) # <<>>
         /\ Len(s) \in Nat /\ Len(Append(s, m)) = Len(s) + 1
         /\ DOMAIN s = 1 .. Len(s) /\ DOMAIN Append(s, m) = 1 .. Len(s) + 1
         /\ Append(s, m)[Len(s) + 1] = m
         /\ \A i \in 1 .. Len(s) : Append(s, m)[i] = s[i]
  BY AppendProperties, LenProperties

\* A new element at the end.
LEMMA AppendDistinct ==
  ASSUME NEW S, NEW s \in Seq(S), NEW m \in S
  PROVE  /\ ToSet(Append(s, m)) = ToSet(s) \cup {m}
         /\ IsInjective(s) /\ m \notin ToSet(s) => IsInjective(Append(s, m))
<1> DEFINE t == Append(s, m)
           n == Len(s)
<1>1. /\ n \in Nat /\ DOMAIN s = 1 .. n /\ DOMAIN t = 1 .. n + 1 /\ t[n + 1] = m
      /\ \A i \in 1 .. n : t[i] = s[i]
  BY AppendFacts
<1> HIDE DEF t, n
<1>2. n + 1 \in 1 .. n + 1 /\ \A i \in 1 .. n + 1 : i \in 1 .. n \/ i = n + 1
  BY <1>1
<1>3. 1 .. n \subseteq 1 .. n + 1
  BY <1>1
<1>4. ToSet(t) = ToSet(s) \cup {m}
  BY <1>1, <1>2, <1>3 DEF ToSet
<1>5. ASSUME IsInjective(s), m \notin ToSet(s)
      PROVE  IsInjective(t)
  <2> SUFFICES ASSUME NEW i \in 1 .. n + 1, NEW j \in 1 .. n + 1, t[i] = t[j]
               PROVE  i = j
    BY <1>1 DEF IsInjective
  <2>1. \A k \in 1 .. n : s[k] # m
    BY <1>1, <1>5 DEF ToSet
  <2> QED BY <1>1, <1>2, <1>5, <2>1 DEF IsInjective
<1> QED BY <1>4, <1>5 DEF t

\* A sequence without repetition is no longer than the set it comes from.
LEMMA DistinctLength ==
  ASSUME NEW S, IsFiniteSet(S), NEW s \in Seq(S), IsInjective(s)
  PROVE  Len(s) \in Nat /\ Len(s) <= Cardinality(S) /\ Cardinality(S) \in Nat
<1> DEFINE n == Len(s)
<1>1. n \in Nat /\ s \in [1 .. n -> S]
  BY LenProperties, SeqDef
<1>2. s \in Injection(1 .. n, S)
  BY <1>1 DEF Injection
<1>3. Cardinality(1 .. n) <= Cardinality(S)
  <2> HIDE DEF n
  <2> QED BY <1>2, FS_Injection
<1>4. Cardinality(1 .. n) = n
  BY <1>1, FS_Interval
<1>5. Cardinality(S) \in Nat
  BY FS_CardinalityType
<1> QED BY <1>1, <1>3, <1>4, <1>5

\* The first place of an element.
IndexOf(s, x) == SelectInSeq(s, LAMBDA y : y = x)

\* The place of a block in the palette, 0 if it is not there.
LEMMA IndexFacts ==
  ASSUME NEW S, NEW s \in Seq(S), NEW x
  PROVE  /\ x \in ToSet(s) => IndexOf(s, x) \in 1 .. Len(s) /\ s[IndexOf(s, x)] = x
         /\ x \notin ToSet(s) => IndexOf(s, x) = 0
         /\ Contains(s, x) <=> x \in ToSet(s)
<1> DEFINE I == {i \in 1 .. Len(s) : s[i] = x}
<1>1. Len(s) \in Nat /\ DOMAIN s = 1 .. Len(s)
  BY LenProperties
<1>2. IndexOf(s, x) = IF I # {} THEN Min(I) ELSE 0
  BY DEF IndexOf, SelectInSeq
<1>3. x \in ToSet(s) <=> I # {}
  BY <1>1 DEF ToSet
<1>4. ASSUME I # {}
      PROVE  Min(I) \in I
  <2>1. I \subseteq Nat
    BY <1>1
  <2> HIDE DEF I
  <2>2. \E d \in I : \A e \in I : d <= e
    BY <1>4, <2>1, LeastOf
  <2> QED BY <2>2 DEF Min
<1>5. Contains(s, x) <=> x \in ToSet(s)
  BY <1>1 DEF Contains, ToSet
<1> QED BY <1>2, <1>3, <1>4, <1>5

----------------------------------------------------------------------------
(* Sections                                                                *)

\* A section that has entries, each of them the index of a block or that of air.
HasPalette(s) ==
  /\ s.palette_ids \in Seq(Ids \ {Air}) /\ s.palette_ids # <<>> /\ IsInjective(s.palette_ids)
  /\ s.bits \in 1 .. DirectBits
  /\ s.data \in [1 .. WordsFor(StorageBits(s)) -> Int]
  /\ \A i \in Cells : Entry(s.data, StorageBits(s), i) <= Len(s.palette_ids)

Sound(s) ==
  /\ s = [palette_ids |-> s.palette_ids, bits |-> s.bits, data |-> s.data]
  /\ s = EmptySection \/ HasPalette(s)

\* The block that index k stands for in a section with palette ids.
BlockAt(ids, k) == IF k < Len(ids) THEN ids[k + 1] ELSE Air

\* A palette of different blocks, and its width.
LEMMA PaletteFacts ==
  ASSUME NEW ids \in Seq(Ids \ {Air}), ids # <<>>, IsInjective(ids)
  PROVE  /\ Len(ids) \in Nat \ {0} /\ Len(ids) < Cardinality(Ids) /\ Len(ids) < Pow2[WordBits]
         /\ DOMAIN ids = 1 .. Len(ids) /\ Pow2[WordBits] \in Nat
         /\ \A k \in Nat : BlockAt(ids, k) \in Ids
<1>1. IsFiniteSet(Ids) /\ Air \in Ids /\ Cardinality(Ids) <= Pow2[WordBits]
  BY StoreAssumption
<1>2. /\ IsFiniteSet(Ids \ {Air}) /\ Cardinality(Ids \ {Air}) = Cardinality(Ids) - 1
      /\ Cardinality(Ids) \in Nat
  BY <1>1, FS_RemoveElement, FS_CardinalityType
<1>3. Len(ids) \in Nat /\ Len(ids) <= Cardinality(Ids \ {Air})
  BY <1>2, DistinctLength
<1>4. DOMAIN ids = 1 .. Len(ids) /\ Len(ids) # 0
  BY LenProperties, EmptySeq
<1>5. Pow2[WordBits] \in Nat
  BY SizeFacts, PowerFacts
<1>6. ASSUME NEW k \in Nat
      PROVE  BlockAt(ids, k) \in Ids
  <2>1. CASE k < Len(ids)
    <3>1. k + 1 \in 1 .. Len(ids)
      BY <1>3, <2>1
    <3>2. ids[k + 1] \in Ids \ {Air}
      BY <3>1, ElementOfSeq
    <3> QED BY <2>1, <3>2 DEF BlockAt
  <2>2. CASE ~(k < Len(ids))
    BY <1>1, <2>2 DEF BlockAt
  <2> QED BY <2>1, <2>2
<1>7. Len(ids) \in Nat \ {0} /\ Len(ids) < Cardinality(Ids) /\ Len(ids) < Pow2[WordBits]
  BY <1>1, <1>2, <1>3, <1>4, <1>5
<1> QED BY <1>4, <1>5, <1>6, <1>7

\* storage_bits: an entry holds every index of the palette and that of air.
LEMMA PaletteWidth ==
  ASSUME NEW s, s.palette_ids \in Seq(Ids \ {Air}), s.palette_ids # <<>>, IsInjective(s.palette_ids),
         s.bits \in 1 .. DirectBits
  PROVE  /\ StorageBits(s) \in 1 .. WordBits
         /\ Len(s.palette_ids) \in Nat \ {0}
         /\ Pow2[StorageBits(s)] \in Nat /\ Len(s.palette_ids) < Pow2[StorageBits(s)]
         /\ Len(s.palette_ids) < Pow2[s.bits] => StorageBits(s) = s.bits
<1>1. Len(s.palette_ids) \in Nat \ {0} /\ Len(s.palette_ids) < Pow2[WordBits]
  BY PaletteFacts
<1>2. s.bits \in 0 .. WordBits /\ s.bits \in Nat /\ s.bits >= 1 /\ WordBits \in Nat
  BY SizeFacts
<1>3. /\ StorageBits(s) \in s.bits .. WordBits
      /\ Len(s.palette_ids) < Pow2[StorageBits(s)]
      /\ Len(s.palette_ids) < Pow2[s.bits] => StorageBits(s) = s.bits
  <2>1. Len(s.palette_ids) \in Nat
    BY <1>1
  <2> QED BY <1>1, <1>2, <2>1, StorageFacts
<1>4. StorageBits(s) \in 1 .. WordBits
  BY <1>2, <1>3
<1>5. Pow2[StorageBits(s)] \in Nat
  <2>1. StorageBits(s) \in Nat
    BY <1>2, <1>4
  <2> QED BY <2>1, PowerFacts
<1> QED BY <1>1, <1>3, <1>4, <1>5

\* The entries of a section are numbers.
LEMMA EntryType ==
  ASSUME NEW b \in 1 .. WordBits, NEW data \in [1 .. WordsFor(b) -> Int], NEW i \in Cells
  PROVE  Entry(data, b, i) \in 0 .. Pow2[b] - 1 /\ Entry(data, b, i) \in Nat
<1>1. b \in Nat \ {0}
  BY SizeFacts
<1>2. data[i \div PerWord(b) + 1] \in Int /\ i % PerWord(b) \in Nat
  BY CellPlace
<1>3. Digit(data[i \div PerWord(b) + 1], b, i % PerWord(b)) \in 0 .. Pow2[b] - 1
  BY <1>1, <1>2, DigitType
<1>4. Pow2[b] \in Nat
  BY <1>1, PowerFacts
<1>5. Entry(data, b, i) = Digit(data[i \div PerWord(b) + 1], b, i % PerWord(b))
  BY EntryIs
<1>6. Entry(data, b, i) \in 0 .. Pow2[b] - 1
  BY <1>3, <1>5
<1> QED BY <1>4, <1>6

\* The blocks of a section, from its entries.
LEMMA BlocksOfPalette ==
  ASSUME NEW s, HasPalette(s)
  PROVE  /\ \A i \in Cells : Entry(s.data, StorageBits(s), i) \in 0 .. Len(s.palette_ids)
         /\ Blocks(s) = [i \in Cells |-> BlockAt(s.palette_ids, Entry(s.data, StorageBits(s), i))]
         /\ Blocks(s) \in [Cells -> Ids]
<1> DEFINE b == StorageBits(s)
           n == Len(s.palette_ids)
<1>1. b \in 1 .. WordBits /\ n \in Nat \ {0} /\ s.data \in [1 .. WordsFor(b) -> Int]
  BY PaletteWidth DEF HasPalette
<1>2. \A i \in Cells : Entry(s.data, b, i) \in 0 .. n
  <2> TAKE i \in Cells
  <2>1. Entry(s.data, b, i) <= n
    BY DEF HasPalette
  <2> HIDE DEF b, n
  <2>2. Entry(s.data, b, i) \in Nat
    BY <1>1, EntryType
  <2> QED BY <1>1, <2>1, <2>2
<1>3. Blocks(s) = [i \in Cells |-> BlockAt(s.palette_ids, Entry(s.data, b, i))]
  <2>1. s.bits # 0
    BY SizeFacts DEF HasPalette
  <2> QED BY <2>1 DEF Blocks, BlockAt
<1>4. Blocks(s) \in [Cells -> Ids]
  <2>1. \A i \in Cells : BlockAt(s.palette_ids, Entry(s.data, b, i)) \in Ids
    BY <1>1, <1>2, PaletteFacts DEF HasPalette
  <2> QED BY <1>3, <2>1
<1> QED BY <1>2, <1>3, <1>4

\* A new section holds air.
LEMMA EmptyFacts ==
  /\ Sound(EmptySection) /\ Blocks(EmptySection) = [i \in Cells |-> Air]
  /\ EmptySection.bits = 0 /\ EmptySection.palette_ids = <<Air>>
<1>1. EmptySection.bits = 0 /\ EmptySection.palette_ids = <<Air>>
  BY DEF EmptySection
<1>2. Sound(EmptySection)
  BY DEF Sound, EmptySection
<1>3. Len(EmptySection.palette_ids) = 1 /\ EmptySection.palette_ids[1] = Air
  BY <1>1
<1>4. Blocks(EmptySection) = [i \in Cells |-> Air]
  BY <1>1, <1>3 DEF Blocks
<1> QED BY <1>1, <1>2, <1>4

\* What a sound section holds is a block in every cell.
LEMMA BlocksType ==
  ASSUME NEW s, Sound(s)
  PROVE  Blocks(s) \in [Cells -> Ids]
<1>1. CASE s = EmptySection
  BY <1>1, EmptyFacts, StoreAssumption
<1>2. CASE HasPalette(s)
  BY <1>2, BlocksOfPalette
<1> QED BY <1>1, <1>2 DEF Sound

----------------------------------------------------------------------------
(* Blocks that are written                                                 *)

\* The section with another palette, before its entries are packed anew.
Widened(s, ids, bits) == [s EXCEPT !.palette_ids = ids, !.bits = bits]

\* The parts of a section are replaced.
LEMMA Renewed ==
  ASSUME NEW s, s = [palette_ids |-> s.palette_ids, bits |-> s.bits, data |-> s.data], NEW p, NEW w
  PROVE  Widened(s, p, w) = [palette_ids |-> p, bits |-> w, data |-> s.data]
<1> DEFINE t == [s EXCEPT !.palette_ids = p]
<1>1. t = [palette_ids |-> p, bits |-> s.bits, data |-> s.data]
  OBVIOUS
<1>2. Widened(s, p, w) = [t EXCEPT !.bits = w]
  BY DEF Widened
<1>3. [t EXCEPT !.bits = w] = [palette_ids |-> p, bits |-> w, data |-> s.data]
  <2> HIDE DEF t
  <2> QED BY ONLY <1>1
<1> QED BY <1>2, <1>3

\* One entry of a section is written.
LEMMA EntrySet ==
  ASSUME NEW s, Sound(s), HasPalette(s), NEW i \in Cells, NEW k \in 0 .. Len(s.palette_ids)
  PROVE  /\ Sound(WithEntry(s, i, k))
         /\ Blocks(WithEntry(s, i, k)) = [Blocks(s) EXCEPT ![i] = BlockAt(s.palette_ids, k)]
<1> DEFINE b == StorageBits(s)
           n == Len(s.palette_ids)
           e(j) == Entry(s.data, b, j)
           new == [s.data EXCEPT ![i \div PerWord(b) + 1] =
                     @ + (k - Entry(s.data, b, i)) * Pow2[(i % PerWord(b)) * b]]
           t == [s EXCEPT !.data = new]
<1>1. /\ b \in 1 .. WordBits /\ n \in Nat \ {0} /\ n < Pow2[b] /\ Pow2[b] \in Nat
      /\ s.data \in [1 .. WordsFor(b) -> Int] /\ s.bits # 0
  BY PaletteWidth, SizeFacts DEF HasPalette
<1>2. k \in 0 .. Pow2[b] - 1 /\ k % Pow2[b] = k
  <2> HIDE DEF b
  <2>1. k \in 0 .. Pow2[b] - 1
    BY <1>1
  <2> QED BY <1>1, <2>1, SmallMod
<1>3. WithEntry(s, i, k) = t
  BY <1>1, <1>2 DEF WithEntry
<1>4. /\ new \in [1 .. WordsFor(b) -> Int]
      /\ \A j \in Cells : Entry(new, b, j) = IF j = i THEN k ELSE e(j)
  <2> DEFINE y == new
  <2>1. y = WordsWith(s.data, b, i, k)
    BY DEF WordsWith
  <2>3. k \in 0 .. Pow2[b] - 1
    BY <1>2
  <2>4. b \in 1 .. WordBits /\ s.data \in [1 .. WordsFor(b) -> Int]
    BY <1>1
  <2> HIDE DEF b, y, e
  <2>2. /\ y \in [1 .. WordsFor(b) -> Int]
        /\ \A j \in Cells : Entry(y, b, j) = IF j = i THEN k ELSE Entry(s.data, b, j)
    BY ONLY i \in Cells, <2>1, <2>3, <2>4, EntryWritten
  <2> QED BY <2>2 DEF y, e
<1> HIDE DEF new
<1>5. t = [palette_ids |-> s.palette_ids, bits |-> s.bits, data |-> new]
  BY DEF Sound
<1>6. t.palette_ids = s.palette_ids /\ t.bits = s.bits /\ t.data = new
  BY <1>5
<1> HIDE DEF t
<1>7. StorageBits(t) = b
  BY <1>6 DEF StorageBits, AirIndex
<1>8. \A j \in Cells : e(j) \in 0 .. n
  BY BlocksOfPalette
<1>9. \A j \in Cells : Entry(t.data, StorageBits(t), j) <= Len(t.palette_ids)
  <2>1. n \in Nat /\ k <= n /\ \A j \in Cells : e(j) <= n
    BY <1>1, <1>8
  <2> HIDE DEF n, e, b
  <2>2. \A j \in Cells : Entry(new, b, j) <= n
    BY <1>4, <2>1
  <2> QED BY <1>6, <1>7, <2>2 DEF n
<1>10. HasPalette(t)
  BY <1>4, <1>6, <1>7, <1>9 DEF HasPalette
<1>11. Sound(t)
  BY <1>5, <1>6, <1>10 DEF Sound
<1>12. Blocks(t) = [j \in Cells |-> BlockAt(s.palette_ids, IF j = i THEN k ELSE e(j))]
  BY <1>4, <1>6, <1>7, <1>10, BlocksOfPalette
<1>13. Blocks(s) = [j \in Cells |-> BlockAt(s.palette_ids, e(j))]
  BY BlocksOfPalette
<1>14. Blocks(t) = [Blocks(s) EXCEPT ![i] = BlockAt(s.palette_ids, k)]
  <2> HIDE DEF e
  <2> QED BY <1>12, <1>13
<1> QED BY <1>3, <1>11, <1>14

\* The width of the entries of a section.
WidthOf(ids, bits) == Max({bits, BitsToRepresent(Len(ids))})

\* The section with palette ids of that width and entries e.
SectionOf(ids, bits, e) ==
  [palette_ids |-> ids, bits |-> bits, data |-> Packed(e, WidthOf(ids, bits))]

\* A section of which the entries are known.
LEMMA PackedSection ==
  ASSUME NEW ids \in Seq(Ids \ {Air}), ids # <<>>, IsInjective(ids), NEW bits \in 1 .. DirectBits,
         NEW e \in [Cells -> 0 .. Len(ids)],
         NEW s, s = SectionOf(ids, bits, e)
  PROVE  Sound(s) /\ HasPalette(s) /\ Blocks(s) = [i \in Cells |-> BlockAt(ids, e[i])]
<1> DEFINE b == WidthOf(ids, bits)
<1>0. s = [palette_ids |-> ids, bits |-> bits, data |-> Packed(e, b)]
  BY DEF SectionOf
<1>1. s.palette_ids = ids /\ s.bits = bits /\ s.data = Packed(e, b) /\ StorageBits(s) = b
  BY <1>0 DEF StorageBits, AirIndex, WidthOf
<1> HIDE DEF b
<1>2. b \in 1 .. WordBits /\ Len(ids) \in Nat \ {0} /\ Pow2[b] \in Nat /\ Len(ids) < Pow2[b]
  BY <1>1, PaletteWidth
<1>3. e \in [Cells -> Nat]
  BY <1>2
<1>4. /\ Packed(e, b) \in [1 .. WordsFor(b) -> Int]
      /\ \A i \in Cells : Entry(Packed(e, b), b, i) = e[i] % Pow2[b]
  BY <1>2, <1>3, PackedEntries
<1>5. ASSUME NEW i \in Cells
      PROVE  Entry(Packed(e, b), b, i) = e[i]
  <2>1. e[i] \in 0 .. Pow2[b] - 1
    BY <1>2
  <2>2. e[i] % Pow2[b] = e[i]
    BY <1>2, <2>1, SmallMod
  <2> QED BY <1>4, <2>2
<1>6. \A i \in Cells : Entry(s.data, StorageBits(s), i) <= Len(s.palette_ids)
  BY <1>1, <1>2, <1>5
<1>7. HasPalette(s)
  BY <1>1, <1>4, <1>6 DEF HasPalette
<1>8. Sound(s)
  BY <1>0, <1>1, <1>7 DEF Sound
<1>9. Blocks(s) = [i \in Cells |-> BlockAt(ids, e[i])]
  BY <1>1, <1>5, <1>7, BlocksOfPalette
<1> QED BY <1>7, <1>8, <1>9

\* The section packed anew with the palette ids.
Grown(s, ids) == Repacked(Widened(s, ids, BitsForPaletteLen(Len(ids))), StorageBits(s))

\* The entries of air follow when the palette grows.
LEMMA RepackedBlocks ==
  ASSUME NEW s, Sound(s), HasPalette(s), NEW id \in Ids \ (ToSet(s.palette_ids) \cup {Air}),
         NEW ids, ids = Append(s.palette_ids, id),
         NEW r, r = Grown(s, ids)
  PROVE  /\ Sound(r) /\ HasPalette(r) /\ Blocks(r) = Blocks(s) /\ r.palette_ids = ids
         /\ Len(ids) - 1 \in 0 .. Len(ids) /\ BlockAt(ids, Len(ids) - 1) = id
<1> DEFINE old == StorageBits(s)
           n == Len(s.palette_ids)
           bits == BitsForPaletteLen(Len(ids))
           g == [s EXCEPT !.palette_ids = ids, !.bits = bits]
           b == StorageBits(g)
           x(i) == Entry(s.data, old, i)
           e == [i \in Cells |-> IF x(i) = n THEN n + 1 ELSE x(i)]
<1>1. s.palette_ids \in Seq(Ids \ {Air}) /\ IsInjective(s.palette_ids) /\ s.palette_ids # <<>>
  BY DEF HasPalette
<1>2. /\ ids \in Seq(Ids \ {Air}) /\ ids # <<>> /\ IsInjective(ids) /\ Len(ids) = n + 1
      /\ n \in Nat /\ ids[n + 1] = id /\ \A i \in 1 .. n : ids[i] = s.palette_ids[i]
  BY <1>1, AppendFacts, AppendDistinct
<1>3. bits \in 1 .. DirectBits
  <2>1. Len(ids) \in Nat
    BY <1>2
  <2> QED BY <2>1, PaletteBits
<1>4. g = [palette_ids |-> ids, bits |-> bits, data |-> s.data]
  <2>1. s = [palette_ids |-> s.palette_ids, bits |-> s.bits, data |-> s.data]
    BY DEF Sound
  <2>2. g = Widened(s, ids, bits)
    BY DEF Widened
  <2> HIDE DEF bits, g
  <2> QED BY ONLY <2>1, <2>2, Renewed
<1>5. \A i \in Cells : x(i) \in 0 .. n
  BY BlocksOfPalette
<1>6. e \in [Cells -> 0 .. Len(ids)]
  <2> HIDE DEF x, n
  <2> QED BY <1>2, <1>5
<1>7. b = WidthOf(ids, bits)
  <2>1. g.palette_ids = ids /\ g.bits = bits
    BY <1>4
  <2> HIDE DEF bits, g
  <2> QED BY <2>1 DEF StorageBits, AirIndex, WidthOf
<1>8. r = [palette_ids |-> ids, bits |-> bits, data |-> Packed(e, b)]
  <2>1. g.data = s.data /\ AirIndex(g) = n + 1 /\ g.palette_ids = ids /\ g.bits = bits
    BY <1>2, <1>4 DEF AirIndex
  <2>2. e = [i \in Cells |-> IF Entry(g.data, old, i) = AirIndex(g) - 1 THEN AirIndex(g)
                             ELSE Entry(g.data, old, i)]
    <3>1. (n + 1) - 1 = n
      BY <1>2
    <3> HIDE DEF old, g, n, bits
    <3> QED BY <2>1, <3>1
  <2>3. r = [g EXCEPT !.data = Packed(e, b)]
    <3>1. r = Repacked(g, old)
      BY DEF Widened, Grown
    <3> HIDE DEF e, g, old, b
    <3>2. Repacked(g, old) = [g EXCEPT !.data = Packed(e, StorageBits(g))]
      BY <2>2 DEF Repacked
    <3> QED BY <3>1, <3>2 DEF b
  <2> HIDE DEF e, b, bits
  <2> QED BY <1>4, <2>3
<1>9. Sound(r) /\ HasPalette(r) /\ Blocks(r) = [i \in Cells |-> BlockAt(ids, e[i])]
  <2>1. ids \in Seq(Ids \ {Air}) /\ ids # <<>> /\ IsInjective(ids)
    BY <1>2
  <2> HIDE DEF e, b, bits
  <2>2. r = SectionOf(ids, bits, e)
    BY <1>7, <1>8 DEF SectionOf
  <2> QED BY ONLY <1>3, <1>6, <2>1, <2>2, PackedSection
<1>10. Blocks(s) = [i \in Cells |-> BlockAt(s.palette_ids, x(i))]
  BY BlocksOfPalette
<1>11. ASSUME NEW i \in Cells
       PROVE  BlockAt(ids, e[i]) = BlockAt(s.palette_ids, x(i))
  <2>1. x(i) \in 0 .. n /\ e[i] = IF x(i) = n THEN n + 1 ELSE x(i)
    BY <1>5
  <2> HIDE DEF x, e, n
  <2>2. CASE x(i) = n
    BY <1>2, <2>1, <2>2 DEF BlockAt, n
  <2>3. CASE x(i) # n
    <3>1. x(i) + 1 \in 1 .. n /\ x(i) < n /\ x(i) < n + 1 /\ e[i] = x(i)
      BY <1>2, <2>1, <2>3
    <3> QED BY <1>2, <3>1 DEF BlockAt, n
  <2> QED BY <2>2, <2>3
<1>12. Blocks(r) = Blocks(s)
  <2> HIDE DEF e, x
  <2> QED BY <1>9, <1>10, <1>11
<1>13. Len(ids) - 1 \in 0 .. Len(ids) /\ BlockAt(ids, Len(ids) - 1) = id
  <2>1. Len(ids) = n + 1 /\ n \in Nat /\ (n + 1) - 1 = n /\ n < n + 1
    BY <1>2
  <2> HIDE DEF n
  <2> QED BY <1>2, <2>1 DEF BlockAt
<1>14. r.palette_ids = ids
  BY <1>8
<1> QED BY <1>9, <1>12, <1>13, <1>14

\* The first block but air gives a section its entries.
LEMMA FirstBlock ==
  ASSUME NEW id \in Ids \ {Air},
         NEW w, w = Widened(EmptySection, <<id>>, MinBits),
         NEW t, t = [w EXCEPT !.data = Packed([j \in Cells |-> 1], StorageBits(w))]
  PROVE  /\ Sound(t) /\ HasPalette(t) /\ t.palette_ids = <<id>>
         /\ Blocks(t) = [j \in Cells |-> Air]
<1> DEFINE e == [j \in Cells |-> 1]
           ids == <<id>>
           b == StorageBits(w)
<1>1. w = [palette_ids |-> ids, bits |-> MinBits, data |-> EmptySection.data]
  <2>1. EmptySection = [palette_ids |-> EmptySection.palette_ids, bits |-> EmptySection.bits,
                        data |-> EmptySection.data]
    BY DEF EmptySection
  <2> HIDE DEF ids
  <2> QED BY ONLY w = Widened(EmptySection, ids, MinBits), <2>1, Renewed DEF ids
<1>2. t = [palette_ids |-> ids, bits |-> MinBits, data |-> Packed(e, b)]
  <2> HIDE DEF e, b, ids
  <2>1. t = [w EXCEPT !.data = Packed(e, b)]
    BY DEF e, b
  <2> QED BY ONLY <1>1, <2>1
<1>3. ids \in Seq(Ids \ {Air}) /\ ids # <<>> /\ IsInjective(ids) /\ Len(ids) = 1 /\ ids[1] = id
  BY DEF IsInjective
<1>4. MinBits \in 1 .. DirectBits
  BY SizeFacts
<1>5. b = WidthOf(ids, MinBits)
  <2>1. w.palette_ids = ids /\ w.bits = MinBits
    BY <1>1
  <2> HIDE DEF ids
  <2> QED BY <2>1 DEF StorageBits, AirIndex, WidthOf
<1>6. e \in [Cells -> 0 .. Len(ids)]
  BY <1>3
<1>7. ids \in Seq(Ids \ {Air}) /\ ids # <<>> /\ IsInjective(ids)
  BY <1>3
<1>8. Sound(t) /\ HasPalette(t) /\ Blocks(t) = [j \in Cells |-> BlockAt(ids, e[j])]
  <2> HIDE DEF e, ids, b
  <2>1. t = SectionOf(ids, MinBits, e)
    BY <1>2, <1>5 DEF SectionOf
  <2> QED BY ONLY <1>4, <1>6, <1>7, <2>1, PackedSection
<1>9. \A j \in Cells : BlockAt(ids, e[j]) = Air
  BY <1>3 DEF BlockAt
<1>10. Blocks(t) = [j \in Cells |-> Air]
  <2> HIDE DEF e, ids
  <2> QED BY <1>8, <1>9
<1>11. t.palette_ids = ids
  <2> HIDE DEF ids, b, e
  <2> QED BY ONLY <1>2
<1> QED BY <1>8, <1>10, <1>11

\* set_block_id: one cell changes and nothing else, whether the palette has the block,
\* grows, changes its width, or is the first.
LEMMA BlockWritten ==
  ASSUME NEW s, Sound(s), NEW i \in Cells, NEW id \in Ids
  PROVE  /\ Sound(WithBlock(s, i, id))
         /\ Blocks(WithBlock(s, i, id)) = [Blocks(s) EXCEPT ![i] = id]
<1> DEFINE at == IndexOf(s.palette_ids, id)
           ids == Append(s.palette_ids, id)
           n == Len(s.palette_ids)
<1>a. Blocks(s) \in [Cells -> Ids]
  BY BlocksType
<1>b. s = EmptySection \/ HasPalette(s)
  BY DEF Sound
<1>c. HasPalette(s) => /\ n \in Nat \ {0} /\ DOMAIN s.palette_ids = 1 .. n /\ s.bits # 0
                       /\ s.palette_ids \in Seq(Ids \ {Air})
  <2> SUFFICES ASSUME HasPalette(s)
               PROVE  /\ n \in Nat \ {0} /\ DOMAIN s.palette_ids = 1 .. n /\ s.bits # 0
                      /\ s.palette_ids \in Seq(Ids \ {Air})
    OBVIOUS
  <2>1. /\ s.palette_ids \in Seq(Ids \ {Air}) /\ s.palette_ids # <<>> /\ IsInjective(s.palette_ids)
        /\ s.bits \in 1 .. DirectBits
    BY DEF HasPalette
  <2>2. s.bits # 0
    BY <2>1, SizeFacts
  <2> QED BY <2>1, <2>2, PaletteFacts
<1>1. CASE id = Air /\ s = EmptySection
  <2>1. WithBlock(s, i, id) = s
    BY <1>1, EmptyFacts DEF WithBlock, WithEntry
  <2>2. Blocks(s) = [Blocks(s) EXCEPT ![i] = id]
    BY <1>1, EmptyFacts
  <2> QED BY <2>1, <2>2
<1>2. CASE id = Air /\ HasPalette(s)
  <2>1. WithBlock(s, i, id) = WithEntry(s, i, n)
    BY <1>2 DEF WithBlock, AirIndex
  <2>2. n \in 0 .. n /\ BlockAt(s.palette_ids, n) = Air
    BY <1>2, <1>c DEF BlockAt
  <2> HIDE DEF n, at, ids
  <2> QED BY <1>2, <2>1, <2>2, EntrySet DEF n
<1>3. CASE id # Air /\ at > 0
  <2>1. IndexOf(s.palette_ids, id) # 0
    BY <1>3
  <2>2. HasPalette(s)
    <3>1. ASSUME s = EmptySection
          PROVE  FALSE
      <4>1. s.palette_ids = <<Air>> /\ <<Air>> \in Seq({Air}) /\ id \notin ToSet(<<Air>>)
        BY <1>3, <3>1, EmptyFacts DEF ToSet
      <4>2. IndexOf(<<Air>>, id) = 0
        BY <4>1, IndexFacts
      <4> QED BY <2>1, <4>1, <4>2
    <3> QED BY <1>b, <3>1
  <2>3. at \in 1 .. n /\ s.palette_ids[at] = id
    <3>1. s.palette_ids \in Seq(Ids \ {Air})
      BY <1>c, <2>2
    <3>2. id \in ToSet(s.palette_ids)
      BY <2>1, <3>1, IndexFacts
    <3> QED BY <3>1, <3>2, IndexFacts
  <2>4. WithBlock(s, i, id) = WithEntry(s, i, at - 1)
    BY <1>3 DEF WithBlock, IndexOf
  <2>5. at - 1 \in 0 .. n /\ at - 1 < n /\ (at - 1) + 1 = at
    BY <1>c, <2>2, <2>3
  <2>6. BlockAt(s.palette_ids, at - 1) = id
    <3> HIDE DEF at
    <3> QED BY <2>3, <2>5 DEF BlockAt
  <2> HIDE DEF at, ids
  <2> QED BY <2>2, <2>4, <2>5, <2>6, EntrySet
<1>4. CASE id # Air /\ ~(at > 0) /\ s = EmptySection
  <2> DEFINE w == Widened(EmptySection, <<id>>, MinBits)
             t == [w EXCEPT !.data = Packed([j \in Cells |-> 1], StorageBits(w))]
  <2>1. WithBlock(s, i, id) = WithEntry(t, i, 0)
    BY <1>4, EmptyFacts DEF WithBlock, IndexOf, Widened
  <2>2. Sound(t) /\ HasPalette(t) /\ t.palette_ids = <<id>> /\ Blocks(t) = [j \in Cells |-> Air]
    <3>1. id \in Ids \ {Air}
      BY <1>4
    <3> HIDE DEF w
    <3>2. w = Widened(EmptySection, <<id>>, MinBits)
      BY DEF w
    <3> HIDE DEF t
    <3>3. t = [w EXCEPT !.data = Packed([j \in Cells |-> 1], StorageBits(w))]
      BY DEF t
    <3> QED BY ONLY <3>1, <3>2, <3>3, FirstBlock
  <2> HIDE DEF t
  <2>3. Len(t.palette_ids) = 1 /\ 0 \in 0 .. Len(t.palette_ids)
    BY <2>2
  <2>4. BlockAt(t.palette_ids, 0) = id
    BY <2>2 DEF BlockAt
  <2>5. /\ Sound(WithEntry(t, i, 0))
        /\ Blocks(WithEntry(t, i, 0)) = [Blocks(t) EXCEPT ![i] = BlockAt(t.palette_ids, 0)]
    BY <2>2, <2>3, EntrySet
  <2>6. Blocks(t) = Blocks(s)
    BY <1>4, <2>2, EmptyFacts
  <2> QED BY <2>1, <2>4, <2>5, <2>6
<1>5. CASE id # Air /\ ~(at > 0) /\ HasPalette(s)
  <2> DEFINE r == Grown(s, ids)
  <2>1. WithBlock(s, i, id) = WithEntry(r, i, Len(ids) - 1)
    BY <1>5, <1>c DEF WithBlock, IndexOf, Widened, Grown
  <2>2. id \in Ids \ (ToSet(s.palette_ids) \cup {Air})
    <3>1. s.palette_ids \in Seq(Ids \ {Air})
      BY <1>c, <1>5
    <3>2. ASSUME id \in ToSet(s.palette_ids)
          PROVE  FALSE
      <4>1. at \in 1 .. n
        BY <3>1, <3>2, IndexFacts
      <4> HIDE DEF at, n
      <4> QED BY <1>5, <1>c, <4>1
    <3> QED BY <1>5, <3>2
  <2>3. /\ Sound(r) /\ HasPalette(r) /\ Blocks(r) = Blocks(s) /\ r.palette_ids = ids
        /\ Len(ids) - 1 \in 0 .. Len(ids) /\ BlockAt(ids, Len(ids) - 1) = id
    <3> HIDE DEF ids
    <3>1. ids = Append(s.palette_ids, id)
      BY DEF ids
    <3> HIDE DEF r
    <3>2. r = Grown(s, ids)
      BY DEF r
    <3>3. HasPalette(s)
      BY <1>5
    <3> QED BY ONLY Sound(s), <2>2, <3>1, <3>2, <3>3, RepackedBlocks, ZenonT(60)
  <2> HIDE DEF ids, r
  <2>4. /\ Sound(WithEntry(r, i, Len(ids) - 1))
        /\ Blocks(WithEntry(r, i, Len(ids) - 1))
             = [Blocks(r) EXCEPT ![i] = BlockAt(r.palette_ids, Len(ids) - 1)]
    BY <2>3, EntrySet
  <2> QED BY <2>1, <2>3, <2>4
<1> QED BY <1>b, <1>1, <1>2, <1>3, <1>4, <1>5

----------------------------------------------------------------------------
(* Sections that are filled                                                *)

\* The cells in their order.
CellOrder == [k \in 1 .. Volume |-> k - 1]

\* The cells in their order.
LEMMA CellOrderFacts ==
  /\ CellOrder \in Seq(Cells) /\ Len(CellOrder) = Volume /\ Volume \in Nat
  /\ \A n \in 1 .. Volume : CellOrder[n] = n - 1 /\ n - 1 \in Cells
<1>1. Volume \in Nat
  BY SizeFacts
<1>2. \A n \in 1 .. Volume : n - 1 \in Cells
  BY <1>1 DEF Cells
<1>3. CellOrder \in Seq(Cells)
  BY <1>1, <1>2, IsASeq DEF CellOrder
<1>4. Len(CellOrder) = Volume
  BY <1>1, <1>3, LenProperties DEF CellOrder
<1> QED BY <1>1, <1>2, <1>3, <1>4 DEF CellOrder

\* The body of the loop over the cells that collects the palette, and what holds of
\* the palette seen after n cells.
Gather(seen, i, f) == IF f[i] = Air \/ Contains(seen, f[i]) THEN seen ELSE Append(seen, f[i])
Gathered(seen, n, f) ==
  /\ seen \in Seq(Ids \ {Air}) /\ IsInjective(seen)
  /\ ToSet(seen) = {f[i] : i \in 0 .. n - 1} \ {Air}

Gathering == INSTANCE Folding WITH Op <- Gather, P <- Gathered

\* The palette of f has every block of f but air once.
LEMMA PaletteGathered ==
  ASSUME NEW f \in [Cells -> Ids]
  PROVE  Gathered(PaletteOf(f), Volume, f)
<1>1. PaletteOf(f) = Gathering!OverSeq(<<>>, CellOrder, f)
  BY DEF PaletteOf, CellOrder, FoldLeft, Gathering!OverSeq, MapThenFoldSet,
         Gathering!MapThenFoldSet, Max, Gathering!Largest, Gather
<1>2. Gathered(<<>>, 0, f)
  <2>1. <<>> \in Seq(Ids \ {Air}) /\ DOMAIN <<>> = {}
    BY EmptySeq
  <2>2. ToSet(<<>>) = {} /\ IsInjective(<<>>)
    BY <2>1 DEF ToSet, IsInjective
  <2> QED BY <2>1, <2>2 DEF Gathered
<1>3. ASSUME NEW a, NEW n \in 1 .. Volume, Gathered(a, n - 1, f)
      PROVE  Gathered(Gather(a, n - 1, f), n, f)
  <2> DEFINE i == n - 1
             new == {f[j] : j \in 0 .. n - 1} \ {Air}
  <2>1. i \in Cells /\ f[i] \in Ids
    BY CellOrderFacts
  <2>2. new = ({f[j] : j \in 0 .. (n - 1) - 1} \cup {f[i]}) \ {Air}
    <3>1. 0 .. n - 1 = 0 .. (n - 1) - 1 \cup {i}
      BY CellOrderFacts
    <3> QED BY <3>1
  <2>3. a \in Seq(Ids \ {Air}) /\ IsInjective(a) /\ new = (ToSet(a) \cup {f[i]}) \ {Air} /\ Air \notin ToSet(a)
    <3>1. a \in Seq(Ids \ {Air}) /\ IsInjective(a)
          /\ ToSet(a) = {f[j] : j \in 0 .. (n - 1) - 1} \ {Air}
      BY <1>3 DEF Gathered
    <3> HIDE DEF i, new
    <3> QED BY <2>2, <3>1
  <2> HIDE DEF i, new
  <2>4. CASE f[i] = Air \/ f[i] \in ToSet(a)
    <3>1. Gather(a, i, f) = a
      BY <2>3, <2>4, IndexFacts DEF Gather
    <3>2. new = ToSet(a)
      BY <2>3, <2>4
    <3> QED BY <2>3, <3>1, <3>2 DEF Gathered, new, i
  <2>5. CASE f[i] # Air /\ f[i] \notin ToSet(a)
    <3>1. Gather(a, i, f) = Append(a, f[i])
      BY <2>3, <2>5, IndexFacts DEF Gather
    <3>2. f[i] \in Ids \ {Air}
      BY <2>1, <2>5
    <3>3. /\ Append(a, f[i]) \in Seq(Ids \ {Air}) /\ IsInjective(Append(a, f[i]))
          /\ ToSet(Append(a, f[i])) = ToSet(a) \cup {f[i]}
      BY <2>3, <2>5, <3>2, AppendFacts, AppendDistinct
    <3>4. new = ToSet(a) \cup {f[i]}
      BY <2>3, <2>5
    <3> QED BY <3>1, <3>3, <3>4 DEF Gathered, new, i
  <2> QED BY <2>4, <2>5 DEF i
<1>4. \A a : \A n \in 1 .. Len(CellOrder) :
        Gathered(a, n - 1, f) => Gathered(Gather(a, CellOrder[n], f), n, f)
  BY <1>3, CellOrderFacts
<1>5. Gathered(Gathering!OverSeq(<<>>, CellOrder, f), Len(CellOrder), f)
  BY <1>2, <1>4, CellOrderFacts, Gathering!OverSeqInduction
<1> QED BY <1>1, <1>5, CellOrderFacts

\* A filling that the palette of a section can hold: with a palette, or wider than that
\* and without air, whose entry would be that of the first block (chunk.rs:207-223).
Fits(f) ==
  \/ Len(PaletteOf(f)) < Pow2[MaxBits]
  \/ (\A i \in Cells : f[i] # Air) /\ Len(PaletteOf(f)) < Pow2[DirectBits]

\* fill_blocks: a section that holds exactly what it was filled with.
LEMMA FilledBlocks ==
  ASSUME NEW f \in [Cells -> Ids], Fits(f)
  PROVE  Sound(Filled(f)) /\ Blocks(Filled(f)) = f
<1> DEFINE ids == PaletteOf(f)
           n == Len(ids)
           bits == IF n > Pow2[MaxBits] - 1 THEN DirectBits ELSE BitsForPaletteLen(n)
           entry(id) == IF id # Air THEN IndexOf(ids, id) - 1
                        ELSE IF bits = DirectBits THEN 0 ELSE n
           e == [i \in Cells |-> entry(f[i])]
           s == [palette_ids |-> ids, bits |-> bits, data |-> Packed(e, bits)]
<1>1. Filled(f) = IF ids = <<>> THEN EmptySection ELSE s
  BY DEF Filled, IndexOf
<1>2. /\ ids \in Seq(Ids \ {Air}) /\ IsInjective(ids)
      /\ ToSet(ids) = {f[i] : i \in Cells} \ {Air}
  BY PaletteGathered DEF Gathered, Cells
<1>3. CASE ids = <<>>
  <2>1. ToSet(ids) = {}
    BY <1>3 DEF ToSet
  <2>2. \A i \in Cells : f[i] = Air
    BY <1>2, <2>1
  <2> HIDE DEF ids, s
  <2>3. f = [i \in Cells |-> Air]
    BY <2>2
  <2> QED BY <1>1, <1>3, <2>3, EmptyFacts
<1>4. CASE ids # <<>>
  <2>1. n \in Nat \ {0} /\ Pow2[MaxBits] \in Nat /\ DirectBits \in Nat \ {0} /\ DOMAIN ids = 1 .. n
        /\ \A k \in Nat : BlockAt(ids, k) \in Ids
    <3>1. MaxBits \in Nat /\ DirectBits \in Nat \ {0}
      BY SizeFacts
    <3> HIDE DEF ids
    <3> QED BY <1>2, <1>4, <3>1, PowerFacts, PaletteFacts DEF n
  <2>2. /\ bits \in 1 .. DirectBits /\ n < Pow2[bits]
        /\ bits = DirectBits => \A i \in Cells : f[i] # Air
    <3> HIDE DEF n, ids
    <3>1. n \in Nat
      BY <2>1
    <3>2. /\ BitsForPaletteLen(n) \in 1 .. DirectBits
          /\ n < Pow2[MaxBits] => n < Pow2[BitsForPaletteLen(n)]
          /\ n < Pow2[MaxBits] => BitsForPaletteLen(n) # DirectBits
      BY <3>1, PaletteBits
    <3>3. \/ n < Pow2[MaxBits]
          \/ (\A i \in Cells : f[i] # Air) /\ n < Pow2[DirectBits]
      BY DEF Fits, n, ids
    <3>4. CASE n < Pow2[MaxBits]
      <4>1. ~(n > Pow2[MaxBits] - 1)
        BY <2>1, <3>4
      <4> QED BY <3>2, <3>4, <4>1
    <3>5. CASE ~(n < Pow2[MaxBits])
      <4>1. n > Pow2[MaxBits] - 1
        BY <2>1, <3>5
      <4>2. bits = DirectBits
        BY <4>1
      <4> HIDE DEF bits
      <4> QED BY <2>1, <3>3, <3>5, <4>2
    <3> QED BY <3>4, <3>5
  <2>3. bits = WidthOf(ids, bits)
    <3> DEFINE t == [palette_ids |-> ids, bits |-> bits, data |-> <<>>]
    <3>1. t.palette_ids = ids /\ t.bits = bits
      OBVIOUS
    <3> HIDE DEF t, bits, ids
    <3>2. t.palette_ids \in Seq(Ids \ {Air}) /\ t.palette_ids # <<>> /\ IsInjective(t.palette_ids)
          /\ t.bits \in 1 .. DirectBits
      BY <1>2, <1>4, <2>2, <3>1
    <3>3. Len(t.palette_ids) < Pow2[t.bits]
      BY <2>2, <3>1
    <3>4. StorageBits(t) = t.bits
      BY <3>2, <3>3, PaletteWidth
    <3> QED BY <3>1, <3>4 DEF StorageBits, AirIndex, WidthOf
  <2>4. ASSUME NEW i \in Cells
        PROVE  e[i] \in 0 .. n /\ BlockAt(ids, e[i]) = f[i]
    <3>1. e[i] = entry(f[i])
      OBVIOUS
    <3>2. CASE f[i] = Air
      <4>1. e[i] = n
        BY <2>2, <3>1, <3>2
      <4> HIDE DEF e
      <4> QED BY <2>1, <3>2, <4>1 DEF BlockAt
    <3>3. CASE f[i] # Air
      <4>1. e[i] = IndexOf(ids, f[i]) - 1
        BY <3>1, <3>3
      <4>2. f[i] \in ToSet(ids)
        BY <1>2, <3>3
      <4> HIDE DEF e, ids
      <4>3. IndexOf(ids, f[i]) \in 1 .. n /\ ids[IndexOf(ids, f[i])] = f[i]
        BY <1>2, <4>2, IndexFacts
      <4> HIDE DEF n
      <4>4. e[i] \in 0 .. n /\ e[i] < n /\ e[i] + 1 = IndexOf(ids, f[i])
        BY <2>1, <4>1, <4>3
      <4> QED BY <4>3, <4>4 DEF BlockAt, n
    <3> QED BY <3>2, <3>3
  <2>5. e \in [Cells -> 0 .. Len(ids)]
    <3> HIDE DEF ids, entry
    <3>1. e = [i \in Cells |-> e[i]]
      OBVIOUS
    <3> HIDE DEF e
    <3> QED BY <2>4, <3>1
  <2>6. Sound(s) /\ Blocks(s) = [i \in Cells |-> BlockAt(ids, e[i])]
    <3>1. ids \in Seq(Ids \ {Air}) /\ ids # <<>> /\ IsInjective(ids) /\ bits \in 1 .. DirectBits
      BY <1>2, <1>4, <2>2
    <3> HIDE DEF ids, bits, e
    <3>2. s = SectionOf(ids, bits, e)
      BY <2>3 DEF s, SectionOf
    <3> HIDE DEF s
    <3> QED BY ONLY <2>5, <3>1, <3>2, PackedSection
  <2>7. Blocks(s) = f
    <3> HIDE DEF s, e, ids
    <3> QED BY <2>4, <2>6
  <2> QED BY <1>1, <1>4, <2>6, <2>7
<1> QED BY <1>3, <1>4

\* The body of the loop that writes what the generator made, and what holds of the
\* section after n cells.
Generate(s, i, f) == WithBlock(s, i, f[i])
GeneratedTo(s, n, f) == Sound(s) /\ Blocks(s) = [i \in Cells |-> IF i < n THEN f[i] ELSE Air]

Generating == INSTANCE Folding WITH Op <- Generate, P <- GeneratedTo

\* get_or_generate_chunk: the section holds what the generator made.
Generation(f) == FoldLeft(LAMBDA s, i : WithBlock(s, i, f[i]), EmptySection,
                          [k \in 1 .. Volume |-> k - 1])

\* generate_chunk: setting the blocks one by one gives a section with exactly these blocks.
LEMMA GeneratedBlocks ==
  ASSUME NEW f \in [Cells -> Ids]
  PROVE  Sound(Generation(f)) /\ Blocks(Generation(f)) = f
<1>1. Generation(f) = Generating!OverSeq(EmptySection, CellOrder, f)
  BY DEF Generation, CellOrder, FoldLeft, Generating!OverSeq, MapThenFoldSet,
         Generating!MapThenFoldSet, Max, Generating!Largest, Generate
<1>2. GeneratedTo(EmptySection, 0, f)
  <2>1. \A i \in Cells : ~(i < 0)
    BY DEF Cells
  <2>2. [i \in Cells |-> IF i < 0 THEN f[i] ELSE Air] = [i \in Cells |-> Air]
    BY <2>1
  <2> QED BY <2>2, EmptyFacts DEF GeneratedTo
<1>3. ASSUME NEW a, NEW n \in 1 .. Volume, GeneratedTo(a, n - 1, f)
      PROVE  GeneratedTo(Generate(a, n - 1, f), n, f)
  <2>1. n - 1 \in Cells /\ f[n - 1] \in Ids
    BY CellOrderFacts
  <2>2. Sound(a) /\ Blocks(a) = [i \in Cells |-> IF i < n - 1 THEN f[i] ELSE Air]
    BY <1>3 DEF GeneratedTo
  <2>3. /\ Sound(Generate(a, n - 1, f))
        /\ Blocks(Generate(a, n - 1, f)) = [Blocks(a) EXCEPT ![n - 1] = f[n - 1]]
    BY <2>1, <2>2, BlockWritten DEF Generate
  <2>4. \A i \in Cells : i < n <=> i < n - 1 \/ i = n - 1
    BY CellOrderFacts DEF Cells
  <2>5. Blocks(Generate(a, n - 1, f)) = [i \in Cells |-> IF i < n THEN f[i] ELSE Air]
    BY <2>1, <2>2, <2>3, <2>4
  <2> QED BY <2>3, <2>5 DEF GeneratedTo
<1>4. \A a : \A n \in 1 .. Len(CellOrder) :
        GeneratedTo(a, n - 1, f) => GeneratedTo(Generate(a, CellOrder[n], f), n, f)
  BY <1>3, CellOrderFacts
<1>5. GeneratedTo(Generation(f), Volume, f)
  BY <1>1, <1>2, <1>4, CellOrderFacts, Generating!OverSeqInduction
<1>6. \A i \in Cells : i < Volume
  BY CellOrderFacts DEF Cells
<1> QED BY <1>5, <1>6 DEF GeneratedTo

----------------------------------------------------------------------------
(* The two orders                                                          *)

\* A sequence of members of V, each at most once.
Distinct(s, V) == s \in Seq(V) /\ IsInjective(s)

\* An order without repetition lists a finite set, of its length.
LEMMA DistinctFacts ==
  ASSUME NEW V, NEW s, Distinct(s, V)
  PROVE  /\ s \in Seq(V) /\ IsInjective(s) /\ Len(s) \in Nat /\ DOMAIN s = 1 .. Len(s)
         /\ ToSet(s) \subseteq V /\ IsFiniteSet(ToSet(s)) /\ Cardinality(ToSet(s)) = Len(s)
         /\ s = <<>> <=> Len(s) = 0
         /\ s = <<>> <=> ToSet(s) = {}
         /\ \A i \in 1 .. Len(s) : s[i] \in ToSet(s)
<1> DEFINE n == Len(s)
<1>1. s \in Seq(V) /\ IsInjective(s) /\ n \in Nat /\ DOMAIN s = 1 .. n /\ s \in [1 .. n -> V]
  BY LenProperties DEF Distinct
<1>2. (s = <<>> <=> n = 0)
  BY <1>1, EmptySeq
<1>3. ToSet(s) = {s[i] : i \in 1 .. n} /\ ToSet(s) \subseteq V
  BY <1>1 DEF ToSet
<1> HIDE DEF n
<1>4. (s = <<>> <=> ToSet(s) = {})
  <2>1. CASE n = 0
    <3>1. 1 .. n = {}
      BY <2>1
    <3> QED BY <1>2, <1>3, <2>1, <3>1
  <2>2. CASE n # 0
    <3>1. 1 \in 1 .. n
      BY <1>1, <2>2
    <3> QED BY <1>2, <1>3, <2>2, <3>1
  <2> QED BY <2>1, <2>2
<1>5. s \in Bijection(1 .. n, ToSet(s))
  <2>1. s \in [1 .. n -> ToSet(s)]
    BY <1>1, <1>3
  <2> QED BY <1>1, <1>3, <2>1 DEF Bijection, Injection, Surjection
<1>6. IsFiniteSet(1 .. n) /\ Cardinality(1 .. n) = n
  <2>1. n \in Nat
    BY <1>1
  <2> QED BY ONLY <2>1, FS_Interval
<1>7. IsFiniteSet(ToSet(s)) /\ Cardinality(ToSet(s)) = n
  BY ONLY <1>5, <1>6, FS_Bijection DEF ExistsBijection
<1> QED BY <1>1, <1>2, <1>3, <1>4, <1>7 DEF n

\* The empty order.
LEMMA EmptyDistinct ==
  ASSUME NEW V
  PROVE  Distinct(<<>>, V) /\ ToSet(<<>>) = {}
<1>1. <<>> \in Seq(V) /\ DOMAIN <<>> = {}
  BY EmptySeq
<1> QED BY <1>1 DEF Distinct, ToSet, IsInjective

\* An order of some chunks is one of chunks among them.
LEMMA DistinctIn ==
  ASSUME NEW V, NEW W, NEW s, Distinct(s, V), ToSet(s) \subseteq W
  PROVE  Distinct(s, W)
<1>1. s \in [1 .. Len(s) -> V] /\ Len(s) \in Nat /\ s \in Seq(V) /\ IsInjective(s)
  BY LenProperties DEF Distinct
<1>2. \A i \in 1 .. Len(s) : s[i] \in W
  BY <1>1 DEF ToSet
<1>3. [i \in 1 .. Len(s) |-> s[i]] \in Seq(W)
  BY <1>1, <1>2, IsASeq
<1>4. s = [i \in 1 .. Len(s) |-> s[i]]
  BY <1>1
<1> QED BY <1>1, <1>3, <1>4 DEF Distinct

\* One order behind another.
LEMMA ConcatDistinct ==
  ASSUME NEW V, NEW s, NEW t, Distinct(s, V), Distinct(t, V), ToSet(s) \cap ToSet(t) = {}
  PROVE  Distinct(s \o t, V) /\ ToSet(s \o t) = ToSet(s) \cup ToSet(t)
<1> DEFINE m == Len(s)
           n == Len(t)
           u == s \o t
<1>1. /\ m \in Nat /\ DOMAIN s = 1 .. m /\ IsInjective(s) /\ s \in Seq(V)
      /\ n \in Nat /\ DOMAIN t = 1 .. n /\ IsInjective(t) /\ t \in Seq(V)
  BY DistinctFacts
<1>2. /\ u \in Seq(V) /\ Len(u) = m + n /\ DOMAIN u = 1 .. m + n
      /\ \A i \in 1 .. m + n : u[i] = IF i <= m THEN s[i] ELSE t[i - m]
  <2>1. /\ u \in Seq(V) /\ Len(u) = m + n
        /\ \A i \in 1 .. m + n : u[i] = IF i <= m THEN s[i] ELSE t[i - m]
    BY <1>1, ConcatProperties
  <2> QED BY <2>1, LenProperties
<1> HIDE DEF m, n, u
<1>3. \A i \in 1 .. m : i \in 1 .. m + n /\ u[i] = s[i]
  BY <1>1, <1>2
<1>4. \A i \in 1 .. n : m + i \in 1 .. m + n /\ u[m + i] = t[i]
  <2> TAKE i \in 1 .. n
  <2>1. m + i \in 1 .. m + n /\ ~(m + i <= m) /\ (m + i) - m = i
    BY <1>1
  <2> QED BY <1>2, <2>1
<1>5. \A i \in 1 .. m + n : i \in 1 .. m \/ \E j \in 1 .. n : i = m + j
  <2> TAKE i \in 1 .. m + n
  <2>1. i \in 1 .. m \/ (i - m \in 1 .. n /\ i = m + (i - m))
    BY <1>1
  <2> QED BY <2>1
<1>6. ToSet(u) = ToSet(s) \cup ToSet(t)
  <2>1. ASSUME NEW x \in ToSet(u) PROVE x \in ToSet(s) \cup ToSet(t)
    <3>1. PICK i \in 1 .. m + n : x = u[i]
      BY <1>2, <2>1 DEF ToSet
    <3>2. CASE i \in 1 .. m
      <4>1. x = s[i]
        BY <1>3, <3>1, <3>2
      <4> QED BY <1>1, <3>2, <4>1 DEF ToSet
    <3>3. ASSUME NEW j \in 1 .. n, i = m + j
          PROVE  x \in ToSet(s) \cup ToSet(t)
      <4>1. x = t[j]
        BY <1>4, <3>1, <3>3
      <4> QED BY <1>1, <4>1 DEF ToSet
    <3> QED BY <1>5, <3>2, <3>3
  <2>2. ToSet(s) \subseteq ToSet(u)
    BY <1>1, <1>2, <1>3, <1>4 DEF ToSet
  <2>3. ASSUME NEW x \in ToSet(t) PROVE x \in ToSet(u)
    <3>1. PICK j \in 1 .. n : x = t[j]
      BY <1>1, <2>3 DEF ToSet
    <3>2. x = u[m + j] /\ m + j \in 1 .. m + n
      BY <1>4, <3>1
    <3> QED BY <1>2, <3>2 DEF ToSet
  <2> QED BY <2>1, <2>2, <2>3
<1>7. ASSUME NEW i \in 1 .. m, NEW j \in 1 .. n
      PROVE  s[i] # t[j]
  BY <1>1 DEF ToSet
<1>8. IsInjective(u)
  <2> SUFFICES ASSUME NEW i \in 1 .. m + n, NEW j \in 1 .. m + n, u[i] = u[j]
               PROVE  i = j
    BY <1>2 DEF IsInjective
  <2>1. CASE i \in 1 .. m /\ j \in 1 .. m
    BY <1>1, <1>3, <2>1 DEF IsInjective
  <2>2. CASE ~(i \in 1 .. m) /\ ~(j \in 1 .. m)
    <3>1. PICK p \in 1 .. n, q \in 1 .. n : i = m + p /\ j = m + q
      BY <1>5, <2>2
    <3> QED BY <1>1, <1>4, <3>1 DEF IsInjective
  <2>3. CASE ~(i \in 1 .. m <=> j \in 1 .. m)
    BY <1>3, <1>4, <1>5, <1>7, <2>3
  <2> QED BY <2>1, <2>2, <2>3
<1> QED BY <1>2, <1>6, <1>8 DEF Distinct, u

\* A chunk alone.
LEMMA OneDistinct ==
  ASSUME NEW V, NEW c \in V
  PROVE  Distinct(<<c>>, V) /\ ToSet(<<c>>) = {c}
  BY DEF Distinct, IsInjective, ToSet

\* The body of the loop of retain, and what holds of what is kept of the first n.
Keep(kept, x, z) == IF x \in z.gone THEN kept ELSE Append(kept, x)
KeptOf(kept, n, z) ==
  /\ Distinct(kept, z.of) /\ Len(kept) <= n
  /\ ToSet(kept) = {z.seq[i] : i \in 1 .. n} \ z.gone

Keeping == INSTANCE Folding WITH Op <- Keep, P <- KeptOf

\* retain: the others stay in their order.
LEMMA MinusFacts ==
  ASSUME NEW V, NEW s, Distinct(s, V), NEW T
  PROVE  /\ Distinct(Minus(s, T), V) /\ ToSet(Minus(s, T)) = ToSet(s) \ T
         /\ Len(Minus(s, T)) <= Len(s)
<1> DEFINE z == [seq |-> s, gone |-> T, of |-> V]
           n == Len(s)
<1>1. Minus(s, T) = Keeping!OverSeq(<<>>, s, z)
  BY DEF Minus, FoldLeft, Keeping!OverSeq, MapThenFoldSet, Keeping!MapThenFoldSet, Max,
         Keeping!Largest, Keep
<1>2. z.seq = s /\ z.gone = T /\ z.of = V
  OBVIOUS
<1>3. s \in Seq(V) /\ IsInjective(s) /\ n \in Nat /\ DOMAIN s = 1 .. n
  BY DistinctFacts
<1> HIDE DEF z, n
<1>4. KeptOf(<<>>, 0, z)
  <2>1. Distinct(<<>>, V) /\ ToSet(<<>>) = {} /\ Len(<<>>) = 0
    BY EmptyDistinct, EmptySeq
  <2>2. {s[i] : i \in 1 .. 0} = {}
    OBVIOUS
  <2> QED BY <1>2, <2>1, <2>2 DEF KeptOf
<1>5. ASSUME NEW a, NEW k \in 1 .. n, KeptOf(a, k - 1, z)
      PROVE  KeptOf(Keep(a, s[k], z), k, z)
  <2> DEFINE old == {s[i] : i \in 1 .. k - 1}
             new == {s[i] : i \in 1 .. k}
  <2>1. 1 .. k = 1 .. k - 1 \cup {k} /\ k \in Nat /\ k - 1 <= k /\ 1 .. k \subseteq 1 .. n
    BY <1>3
  <2>2. new = old \cup {s[k]}
    BY <2>1
  <2>3. s[k] \notin old
    <3>1. \A i \in 1 .. k - 1 : i \in 1 .. n /\ i # k
      BY <1>3
    <3> QED BY <1>3, <3>1 DEF IsInjective
  <2>4. Distinct(a, V) /\ Len(a) <= k - 1 /\ ToSet(a) = old \ T
    BY <1>2, <1>5 DEF KeptOf
  <2>5. /\ a \in Seq(V) /\ IsInjective(a) /\ Len(a) \in Nat
    BY <2>4, DistinctFacts
  <2> HIDE DEF old
  <2>6. CASE s[k] \in T
    <3>1. Keep(a, s[k], z) = a /\ new \ T = old \ T
      BY <1>2, <2>2, <2>6 DEF Keep
    <3>2. Len(a) <= k
      BY <2>1, <2>4, <2>5
    <3> QED BY <1>2, <2>4, <3>1, <3>2 DEF KeptOf
  <2>7. CASE s[k] \notin T
    <3>1. Keep(a, s[k], z) = Append(a, s[k]) /\ new \ T = (old \ T) \cup {s[k]}
      BY <1>2, <2>2, <2>7 DEF Keep
    <3>2. s[k] \in V
      BY <1>3, ElementOfSeq DEF n
    <3>3. /\ Append(a, s[k]) \in Seq(V) /\ Len(Append(a, s[k])) = Len(a) + 1
          /\ ToSet(Append(a, s[k])) = ToSet(a) \cup {s[k]} /\ IsInjective(Append(a, s[k]))
      <4>1. s[k] \notin ToSet(a)
        BY <2>3, <2>4
      <4> QED BY <2>5, <3>2, <4>1, AppendFacts, AppendDistinct
    <3>4. Len(a) + 1 <= k
      BY <2>1, <2>4, <2>5
    <3>5. Distinct(Append(a, s[k]), V) /\ ToSet(Append(a, s[k])) = new \ T
          /\ Len(Append(a, s[k])) <= k
      BY <2>4, <3>1, <3>3, <3>4 DEF Distinct
    <3> QED BY <1>2, <3>1, <3>5 DEF KeptOf
  <2> QED BY <2>6, <2>7
<1>6. \A a : \A k \in 1 .. Len(s) : KeptOf(a, k - 1, z) => KeptOf(Keep(a, s[k], z), k, z)
  BY <1>5 DEF n
<1>7. KeptOf(Minus(s, T), n, z)
  BY <1>1, <1>3, <1>4, <1>6, Keeping!OverSeqInduction DEF n
<1>8. ToSet(s) = {s[i] : i \in 1 .. n}
  BY <1>3 DEF ToSet
<1> QED BY <1>2, <1>7, <1>8 DEF KeptOf, n

\* An access, and an insertion, move a chunk and lose none.
LEMMA AccessedFacts ==
  ASSUME NEW V, NEW s, Distinct(s, V), NEW c \in V
  PROVE  /\ Distinct(Accessed(s, c), V) /\ ToSet(Accessed(s, c)) = ToSet(s) \cup {c}
         /\ Distinct(Inserted(s, c), V) /\ ToSet(Inserted(s, c)) = ToSet(s) \cup {c}
<1> DEFINE m == Minus(s, {c})
<1>1. Distinct(m, V) /\ ToSet(m) = ToSet(s) \ {c}
  BY MinusFacts
<1> HIDE DEF m
<1>2. Distinct(<<c>>, V) /\ ToSet(<<c>>) = {c}
  BY OneDistinct
<1>3. Distinct(<<c>> \o m, V) /\ ToSet(<<c>> \o m) = {c} \cup (ToSet(s) \ {c})
  <2>1. ToSet(<<c>>) \cap ToSet(m) = {}
    BY <1>1, <1>2
  <2> HIDE DEF Distinct
  <2> QED BY <1>1, <1>2, <2>1, ConcatDistinct
<1>4. m \in Seq(V) /\ IsInjective(m) /\ c \notin ToSet(m)
  BY <1>1 DEF Distinct
<1>5. Distinct(Append(m, c), V) /\ ToSet(Append(m, c)) = (ToSet(s) \ {c}) \cup {c}
  BY <1>1, <1>4, AppendFacts, AppendDistinct DEF Distinct
<1> QED BY <1>3, <1>5 DEF Accessed, Inserted, m

\* An order read from its end.
LEMMA ReverseDistinct ==
  ASSUME NEW V, NEW s, Distinct(s, V)
  PROVE  Distinct(Reverse(s), V) /\ ToSet(Reverse(s)) = ToSet(s)
<1> DEFINE n == Len(s)
           r == Reverse(s)
<1>1. n \in Nat /\ DOMAIN s = 1 .. n /\ IsInjective(s) /\ s \in Seq(V)
  BY DistinctFacts
<1>2. \A i \in 1 .. n : (n - i) + 1 \in 1 .. n /\ s[(n - i) + 1] \in V
  <2> TAKE i \in 1 .. n
  <2>1. (n - i) + 1 \in 1 .. n
    BY <1>1
  <2> QED BY <1>1, <2>1, ElementOfSeq DEF n
<1>3. r = [i \in 1 .. n |-> s[(n - i) + 1]]
  BY DEF Reverse
<1> HIDE DEF r, n
<1>4. r \in Seq(V)
  BY <1>1, <1>2, <1>3, IsASeq
<1>5. DOMAIN r = 1 .. n /\ \A i \in 1 .. n : r[i] = s[(n - i) + 1]
  BY <1>3
<1>6. IsInjective(r)
  <2> SUFFICES ASSUME NEW i \in 1 .. n, NEW j \in 1 .. n, r[i] = r[j]
               PROVE  i = j
    BY <1>5 DEF IsInjective
  <2>1. (n - i) + 1 = (n - j) + 1
    BY <1>1, <1>2, <1>5 DEF IsInjective
  <2> QED BY <1>1, <2>1
<1>7. ToSet(r) = ToSet(s)
  <2>1. \A i \in 1 .. n : (n - i) + 1 \in 1 .. n /\ (n - ((n - i) + 1)) + 1 = i
    BY <1>1
  <2>2. \A i \in 1 .. n : s[i] = r[(n - i) + 1]
    BY <1>5, <2>1
  <2> QED BY <1>1, <1>5, <2>1, <2>2 DEF ToSet
<1> QED BY <1>4, <1>6, <1>7 DEF Distinct, r

\* An arbitrary order of a set.
LEMMA AnyOrder ==
  ASSUME NEW T, IsFiniteSet(T), NEW s \in SetToSeqs(T)
  PROVE  Distinct(s, T) /\ ToSet(s) = T
<1> DEFINE n == Cardinality(T)
<1>1. n \in Nat
  BY FS_CardinalityType
<1>2. s \in [1 .. n -> T] /\ \A i, j \in 1 .. n : i # j => s[i] # s[j]
  BY DEF SetToSeqs
<1> HIDE DEF n
<1>3. s \in Seq(T) /\ DOMAIN s = 1 .. n
  BY <1>1, <1>2, SeqDef
<1>4. Len(s) = n
  <2>1. Len(s) \in Nat /\ DOMAIN s = 1 .. Len(s)
    BY <1>3, LenProperties
  <2> QED BY <1>1, <1>3, <2>1
<1>5. Distinct(s, T)
  BY <1>2, <1>3 DEF Distinct, IsInjective
<1>6. ToSet(s) \subseteq T /\ Cardinality(ToSet(s)) = n
  BY <1>4, <1>5, DistinctFacts
<1>7. ToSet(s) = T
  BY <1>6, FS_Subset DEF n
<1> QED BY <1>5, <1>7

\* The order without its last, or its first.
LEMMA FrontDistinct ==
  ASSUME NEW V, NEW s, Distinct(s, V), s # <<>>
  PROVE  /\ Distinct(Front(s), V) /\ ToSet(Front(s)) = ToSet(s) \ {Last(s)}
         /\ Last(s) \in ToSet(s) /\ Len(Front(s)) = Len(s) - 1
<1> DEFINE n == Len(s)
           t == Front(s)
<1>1. n \in Nat /\ DOMAIN s = 1 .. n /\ IsInjective(s) /\ s \in Seq(V) /\ n # 0
  BY DistinctFacts
<1>2. \A i \in 1 .. n - 1 : s[i] \in V
  <2> TAKE i \in 1 .. n - 1
  <2>1. i \in 1 .. n
    BY <1>1
  <2> QED BY <1>1, <2>1, ElementOfSeq DEF n
<1>3. /\ t \in Seq(V) /\ Len(t) = n - 1 /\ \A i \in 1 .. n - 1 : t[i] = s[i]
  <2>1. 1 \in Int /\ n - 1 \in Int /\ (n - 1) - 1 + 1 = n - 1
        /\ \A i \in 1 .. n - 1 : 1 + i - 1 = i
    BY <1>1
  <2> HIDE DEF n
  <2>2. /\ SubSeq(s, 1, n - 1) \in Seq(V)
        /\ Len(SubSeq(s, 1, n - 1)) = IF 1 <= n - 1 THEN (n - 1) - 1 + 1 ELSE 0
        /\ \A i \in 1 .. (n - 1) - 1 + 1 : SubSeq(s, 1, n - 1)[i] = s[1 + i - 1]
    BY <1>2, <2>1, SubSeqProperties
  <2>3. Len(SubSeq(s, 1, n - 1)) = n - 1
    BY <1>1, <2>2
  <2> QED BY <2>1, <2>2, <2>3 DEF Front, n
<1>4. DOMAIN t = 1 .. n - 1
  BY <1>3, LenProperties
<1>5. Last(s) = s[n] /\ n \in 1 .. n /\ \A i \in 1 .. n : i \in 1 .. n - 1 \/ i = n
  <2>1. Last(s) = s[n]
    BY DEF Last
  <2> HIDE DEF n
  <2>2. n \in 1 .. n
    BY <1>1
  <2>3. \A i \in 1 .. n : i \in 1 .. n - 1 \/ i = n
    BY <1>1
  <2> QED BY <2>1, <2>2, <2>3
<1> HIDE DEF n, t
<1>6. \A i \in 1 .. n - 1 : i \in 1 .. n /\ i # n
  BY <1>1
<1>7. IsInjective(t)
  BY <1>1, <1>3, <1>4, <1>6 DEF IsInjective
<1>8. \A i \in 1 .. n - 1 : s[i] # s[n]
  BY <1>1, <1>5, <1>6 DEF IsInjective
<1>9. ToSet(t) = ToSet(s) \ {s[n]}
  <2>1. ToSet(t) \subseteq ToSet(s) \ {s[n]}
    BY <1>1, <1>3, <1>4, <1>6, <1>8 DEF ToSet
  <2>2. ToSet(s) \ {s[n]} \subseteq ToSet(t)
    BY <1>1, <1>3, <1>4, <1>5 DEF ToSet
  <2> QED BY <2>1, <2>2
<1>10. s[n] \in ToSet(s)
  BY <1>1, <1>5 DEF ToSet
<1> QED BY <1>3, <1>5, <1>7, <1>9, <1>10 DEF Distinct, n, t

\* The order without its first.
LEMMA TailDistinct ==
  ASSUME NEW V, NEW s, Distinct(s, V), s # <<>>
  PROVE  /\ Distinct(Tail(s), V) /\ ToSet(Tail(s)) = ToSet(s) \ {Head(s)}
         /\ Head(s) \in ToSet(s) /\ Len(Tail(s)) = Len(s) - 1
<1> DEFINE n == Len(s)
           t == Tail(s)
<1>1. n \in Nat /\ DOMAIN s = 1 .. n /\ IsInjective(s) /\ s \in Seq(V) /\ n # 0
  BY DistinctFacts
<1>2. t \in Seq(V) /\ Len(t) = n - 1 /\ \A i \in 1 .. Len(t) : t[i] = s[i + 1]
  BY <1>1, HeadTailProperties
<1>3. DOMAIN t = 1 .. n - 1
  BY <1>2, LenProperties
<1>4. Head(s) = s[1] /\ 1 \in 1 .. n
  BY <1>1
<1> HIDE DEF n, t
<1>5. \A i \in 1 .. n - 1 : i + 1 \in 1 .. n /\ i + 1 # 1 /\ t[i] = s[i + 1]
  BY <1>1, <1>2
<1>6. \A i \in 1 .. n : i = 1 \/ \E j \in 1 .. n - 1 : i = j + 1
  <2> TAKE i \in 1 .. n
  <2>1. i = 1 \/ (i - 1 \in 1 .. n - 1 /\ i = (i - 1) + 1)
    BY <1>1
  <2> QED BY <2>1
<1>7. IsInjective(t)
  <2> SUFFICES ASSUME NEW i \in 1 .. n - 1, NEW j \in 1 .. n - 1, t[i] = t[j]
               PROVE  i = j
    BY <1>3 DEF IsInjective
  <2>1. i + 1 = j + 1
    BY <1>1, <1>5 DEF IsInjective
  <2> QED BY <1>1, <2>1
<1>8. \A i \in 1 .. n - 1 : t[i] # s[1]
  BY <1>1, <1>4, <1>5 DEF IsInjective
<1>9. ToSet(t) = ToSet(s) \ {s[1]}
  <2>1. ToSet(t) \subseteq ToSet(s) \ {s[1]}
    BY <1>1, <1>3, <1>5, <1>8 DEF ToSet
  <2>2. ASSUME NEW x \in ToSet(s) \ {s[1]} PROVE x \in ToSet(t)
    <3>1. PICK i \in 1 .. n : x = s[i]
      BY <1>1, <2>2 DEF ToSet
    <3>2. PICK j \in 1 .. n - 1 : i = j + 1
      BY <1>6, <2>2, <3>1
    <3>3. x = t[j]
      BY <1>5, <3>1, <3>2
    <3> QED BY <1>3, <3>3 DEF ToSet
  <2> QED BY <2>1, <2>2
<1>10. s[1] \in ToSet(s)
  BY <1>1, <1>4 DEF ToSet
<1> QED BY <1>2, <1>4, <1>7, <1>9, <1>10 DEF Distinct, n, t

----------------------------------------------------------------------------
(* Forgetting chunks                                                       *)

\* A store, from its parts.
StoreOf(chunks, dirty, access, insertion) ==
  [chunks |-> chunks, dirty_chunks |-> dirty, access_order |-> access, insertion_order |-> insertion]

\* The parts of a store.
LEMMA StoreParts ==
  ASSUME NEW c, NEW d, NEW a, NEW i
  PROVE  /\ StoreOf(c, d, a, i).chunks = c /\ StoreOf(c, d, a, i).dirty_chunks = d
         /\ StoreOf(c, d, a, i).access_order = a /\ StoreOf(c, d, a, i).insertion_order = i
  BY DEF StoreOf

\* Several parts of a store replaced, as the operations do.
WithLast(S, x, y, z)       == [S EXCEPT !.access_order = x, !.chunks = y, !.insertion_order = z]
WithFirst(S, y, z)         == [S EXCEPT !.insertion_order = z, !.chunks = y]
WithChunks(S, y, z)        == [S EXCEPT !.chunks = y, !.insertion_order = z]
WithPending(S, y, z, w, x) == [S EXCEPT !.chunks = y, !.insertion_order = z, !.dirty_chunks = w,
                                        !.access_order = x]

\* What the operations replace in a store.
LEMMA StoreWithMany ==
  ASSUME NEW S, S = StoreOf(S.chunks, S.dirty_chunks, S.access_order, S.insertion_order),
         NEW x, NEW y, NEW z, NEW w
  PROVE  /\ WithLast(S, x, y, z) = StoreOf(y, S.dirty_chunks, x, z)
         /\ WithFirst(S, y, z) = StoreOf(y, S.dirty_chunks, S.access_order, z)
         /\ WithChunks(S, y, z) = StoreOf(y, S.dirty_chunks, S.access_order, z)
         /\ WithPending(S, y, z, w, x) = StoreOf(y, w, x, z)
<1> DEFINE d  == S.dirty_chunks
           a  == S.access_order
           i  == S.insertion_order
           L1 == [S EXCEPT !.access_order = x]
           L2 == [L1 EXCEPT !.chunks = y]
           F1 == [S EXCEPT !.insertion_order = z]
           C1 == [S EXCEPT !.chunks = y]
           C2 == [C1 EXCEPT !.insertion_order = z]
           C3 == [C2 EXCEPT !.dirty_chunks = w]
<1>0. S = StoreOf(S.chunks, d, a, i)
  OBVIOUS
<1>1. /\ WithLast(S, x, y, z) = [L2 EXCEPT !.insertion_order = z]
      /\ WithFirst(S, y, z) = [F1 EXCEPT !.chunks = y]
      /\ WithChunks(S, y, z) = C2
      /\ WithPending(S, y, z, w, x) = [C3 EXCEPT !.access_order = x]
  BY DEF WithLast, WithFirst, WithChunks, WithPending
<1> HIDE DEF d, a, i
<1>2. /\ L1 = StoreOf(S.chunks, d, x, i) /\ F1 = StoreOf(S.chunks, d, a, z)
      /\ C1 = StoreOf(y, d, a, i)
  BY ONLY <1>0 DEF StoreOf
<1> HIDE DEF L1, F1, C1
<1>3. L2 = StoreOf(y, d, x, i) /\ [F1 EXCEPT !.chunks = y] = StoreOf(y, d, a, z)
      /\ C2 = StoreOf(y, d, a, z)
  BY ONLY <1>2 DEF StoreOf
<1> HIDE DEF L2, C2
<1>4. [L2 EXCEPT !.insertion_order = z] = StoreOf(y, d, x, z) /\ C3 = StoreOf(y, w, a, z)
  BY ONLY <1>3 DEF StoreOf
<1> HIDE DEF C3
<1>5. [C3 EXCEPT !.access_order = x] = StoreOf(y, w, x, z)
  BY ONLY <1>4 DEF StoreOf
<1> QED BY <1>1, <1>3, <1>4, <1>5 DEF d, a, i

\* A store whose order of insertion has the loaded chunks.
Ordered(S) ==
  /\ S = StoreOf(S.chunks, S.dirty_chunks, S.access_order, S.insertion_order)
  /\ S.chunks = [c \in DOMAIN S.chunks |-> S.chunks[c]]
  /\ Distinct(S.access_order, Coords) /\ Distinct(S.insertion_order, Coords)
  /\ ToSet(S.insertion_order) = DOMAIN S.chunks

\* T is S without some of its chunks.
Cut(T, S) ==
  /\ Ordered(T) /\ T.dirty_chunks = S.dirty_chunks
  /\ DOMAIN T.chunks \subseteq DOMAIN S.chunks
  /\ \A c \in DOMAIN T.chunks : T.chunks[c] = S.chunks[c]

Loaded(S)  == Cardinality(DOMAIN S.chunks)
Lengths(S) == Len(S.access_order) + Len(S.insertion_order)

\* A store in order has as many chunks as its order of insertion is long.
LEMMA OrderedFacts ==
  ASSUME NEW S, Ordered(S)
  PROVE  /\ IsFiniteSet(DOMAIN S.chunks) /\ Loaded(S) \in Nat /\ DOMAIN S.chunks \subseteq Coords
         /\ Len(S.access_order) \in Nat /\ Len(S.insertion_order) \in Nat /\ Lengths(S) \in Nat
         /\ Loaded(S) = Len(S.insertion_order)
<1>1. /\ Len(S.access_order) \in Nat /\ Len(S.insertion_order) \in Nat
      /\ IsFiniteSet(ToSet(S.insertion_order)) /\ ToSet(S.insertion_order) \subseteq Coords
      /\ Cardinality(ToSet(S.insertion_order)) = Len(S.insertion_order)
  BY DistinctFacts DEF Ordered
<1>2. ToSet(S.insertion_order) = DOMAIN S.chunks
  BY DEF Ordered
<1>3. Lengths(S) \in Nat
  <2> DEFINE p == Len(S.access_order)
             q == Len(S.insertion_order)
  <2>1. p \in Nat /\ q \in Nat /\ Lengths(S) = p + q
    BY <1>1 DEF Lengths
  <2> HIDE DEF p, q
  <2> QED BY <2>1
<1> QED BY <1>1, <1>2, <1>3 DEF Loaded

\* The store without chunk c, and with these orders.
WithoutChunk(T, c, a, i) == StoreOf(Without(T.chunks, c), T.dirty_chunks, a, i)

\* One chunk less, if it was there.
LEMMA WithoutOne ==
  ASSUME NEW T, Ordered(T), NEW c, NEW a, NEW i,
         Distinct(a, Coords), Distinct(i, Coords), ToSet(i) = ToSet(T.insertion_order) \ {c},
         NEW U, U = WithoutChunk(T, c, a, i)
  PROVE  /\ Cut(U, T) /\ DOMAIN U.chunks = DOMAIN T.chunks \ {c}
         /\ U.access_order = a /\ U.insertion_order = i
         /\ Loaded(U) \in Nat /\ Loaded(U) >= Loaded(T) - 1
<1>1. /\ U.chunks = Without(T.chunks, c) /\ U.dirty_chunks = T.dirty_chunks
      /\ U.access_order = a /\ U.insertion_order = i
  BY StoreParts DEF WithoutChunk
<1>2. /\ DOMAIN U.chunks = DOMAIN T.chunks \ {c}
      /\ U.chunks = [d \in DOMAIN U.chunks |-> U.chunks[d]]
      /\ \A d \in DOMAIN U.chunks : U.chunks[d] = T.chunks[d]
  BY <1>1 DEF Without
<1>3. ToSet(i) = DOMAIN U.chunks
  BY <1>2 DEF Ordered
<1>4. Ordered(U)
  BY <1>1, <1>2, <1>3 DEF Ordered, WithoutChunk
<1>5. Cut(U, T)
  BY <1>1, <1>2, <1>4 DEF Cut
<1>6. IsFiniteSet(DOMAIN T.chunks) /\ Loaded(T) \in Nat
  BY OrderedFacts
<1>7. Cardinality(DOMAIN T.chunks \ {c}) =
        IF c \in DOMAIN T.chunks THEN Cardinality(DOMAIN T.chunks) - 1
        ELSE Cardinality(DOMAIN T.chunks)
  BY <1>6, FS_RemoveElement
<1>8. Loaded(U) \in Nat
  BY <1>4, OrderedFacts
<1>9. Loaded(U) >= Loaded(T) - 1
  BY <1>2, <1>6, <1>7 DEF Loaded
<1> QED BY <1>1, <1>2, <1>5, <1>8, <1>9

\* Forgetting again is forgetting.
LEMMA CutAgain ==
  ASSUME NEW S, NEW T, NEW U, Cut(T, S), Cut(U, T)
  PROVE  Cut(U, S)
  BY DEF Cut

\* One round of the loop of evict_lru: the store is within the limit, or one of the orders
\* gets shorter and at most one chunk is forgotten.
LEMMA ForgottenOne ==
  ASSUME NEW T, Ordered(T), NEW limit, limit \in Nat \/ limit = Unlimited
  PROVE  /\ limit = Unlimited \/ Loaded(T) <= limit => ForgetOne(T, limit) = T
         /\ limit # Unlimited /\ Loaded(T) > limit =>
              /\ Cut(ForgetOne(T, limit), T) /\ Loaded(ForgetOne(T, limit)) \in Nat
              /\ Loaded(ForgetOne(T, limit)) >= limit
              /\ Lengths(ForgetOne(T, limit)) \in Nat
              /\ Lengths(ForgetOne(T, limit)) <= Lengths(T) - 1
<1>1. ASSUME limit = Unlimited \/ Loaded(T) <= limit
      PROVE  ForgetOne(T, limit) = T
  BY <1>1 DEF ForgetOne, Loaded
<1>2. ASSUME limit # Unlimited, Loaded(T) > limit
      PROVE  /\ Cut(ForgetOne(T, limit), T) /\ Loaded(ForgetOne(T, limit)) \in Nat
             /\ Loaded(ForgetOne(T, limit)) >= limit
             /\ Lengths(ForgetOne(T, limit)) \in Nat
             /\ Lengths(ForgetOne(T, limit)) <= Lengths(T) - 1
  <2>1. /\ IsFiniteSet(DOMAIN T.chunks) /\ Loaded(T) \in Nat /\ DOMAIN T.chunks \subseteq Coords
        /\ Len(T.access_order) \in Nat /\ Len(T.insertion_order) \in Nat
        /\ Loaded(T) = Len(T.insertion_order)
    BY OrderedFacts
  <2>2. limit \in Nat /\ ~(Loaded(T) <= limit) /\ Len(T.insertion_order) # 0
    BY <1>2, <2>1
  <2>3. Distinct(T.access_order, Coords) /\ Distinct(T.insertion_order, Coords)
        /\ ToSet(T.insertion_order) = DOMAIN T.chunks
        /\ T = StoreOf(T.chunks, T.dirty_chunks, T.access_order, T.insertion_order)
    BY DEF Ordered
  <2>4. T.insertion_order # <<>>
    BY <2>2, <2>3, DistinctFacts
  <2>5. \A U : Cut(U, T) => Len(U.access_order) \in Nat /\ Len(U.insertion_order) \in Nat
    BY OrderedFacts DEF Cut
  <2>6. CASE T.access_order # <<>>
    <3> DEFINE c == Last(T.access_order)
               a == Front(T.access_order)
               i == IF c \in DOMAIN T.chunks THEN Minus(T.insertion_order, {c}) ELSE T.insertion_order
               U == WithoutChunk(T, c, a, i)
    <3>1. ForgetOne(T, limit) = U
      <4>1. ForgetOne(T, limit) = WithLast(T, a, Without(T.chunks, c), i)
        BY <1>2, <2>2, <2>6 DEF ForgetOne, Loaded, WithLast
      <4> HIDE DEF c, a, i
      <4> QED BY <2>3, <4>1, StoreWithMany DEF WithoutChunk
    <3>2. Distinct(a, Coords) /\ Len(a) = Len(T.access_order) - 1
      BY <2>3, <2>6, FrontDistinct
    <3>3. Distinct(i, Coords) /\ ToSet(i) = ToSet(T.insertion_order) \ {c}
          /\ Len(i) <= Len(T.insertion_order)
      <4> HIDE DEF c
      <4> QED BY <2>1, <2>3, MinusFacts
    <3> HIDE DEF a, i, c
    <3>4. U = WithoutChunk(T, c, a, i)
      OBVIOUS
    <3> HIDE DEF U
    <3>5. /\ Cut(U, T) /\ U.access_order = a /\ U.insertion_order = i
          /\ Loaded(U) \in Nat /\ Loaded(U) >= Loaded(T) - 1
      BY <3>2, <3>3, <3>4, WithoutOne
    <3>6. Len(a) \in Nat /\ Len(i) \in Nat
      BY <2>5, <3>5
    <3>7. Loaded(U) >= limit
      BY <1>2, <2>1, <2>2, <3>5
    <3>8. Lengths(U) \in Nat /\ Lengths(U) <= Lengths(T) - 1
      <4> DEFINE p == Len(T.access_order)
                 q == Len(T.insertion_order)
                 m == Len(a)
                 n == Len(i)
      <4>1. p \in Nat /\ q \in Nat /\ m \in Nat /\ n \in Nat /\ m + n <= p + q - 1
        <5>1. p \in Nat /\ q \in Nat /\ m \in Nat /\ n \in Nat
          BY <2>1, <3>6
        <5>2. m = p - 1 /\ n <= q
          BY <3>2, <3>3
        <5> HIDE DEF p, q, m, n
        <5> QED BY <5>1, <5>2
      <4>2. Lengths(U) = m + n /\ Lengths(T) = p + q
        BY <3>5 DEF Lengths
      <4> HIDE DEF p, q, m, n
      <4> QED BY <4>1, <4>2
    <3> QED BY <3>1, <3>5, <3>7, <3>8
  <2>7. CASE T.access_order = <<>>
    <3> DEFINE c == Head(T.insertion_order)
               a == T.access_order
               i == Tail(T.insertion_order)
               U == WithoutChunk(T, c, a, i)
    <3>1. ForgetOne(T, limit) = U
      <4>1. ForgetOne(T, limit) = WithFirst(T, Without(T.chunks, c), i)
        BY <1>2, <2>2, <2>4, <2>7 DEF ForgetOne, Loaded, WithFirst
      <4> HIDE DEF c, i
      <4> QED BY <2>3, <4>1, StoreWithMany DEF WithoutChunk
    <3>2. Distinct(a, Coords)
      BY <2>3
    <3>3. Distinct(i, Coords) /\ ToSet(i) = ToSet(T.insertion_order) \ {c}
          /\ Len(i) = Len(T.insertion_order) - 1
      BY <2>3, <2>4, TailDistinct
    <3> HIDE DEF a, i, c
    <3>4. U = WithoutChunk(T, c, a, i)
      OBVIOUS
    <3> HIDE DEF U
    <3>5. /\ Cut(U, T) /\ U.access_order = a /\ U.insertion_order = i
          /\ Loaded(U) \in Nat /\ Loaded(U) >= Loaded(T) - 1
      BY <3>2, <3>3, <3>4, WithoutOne
    <3>6. Len(a) \in Nat /\ Len(i) \in Nat /\ Len(a) = Len(T.access_order)
      BY <2>5, <3>5 DEF a
    <3>7. Loaded(U) >= limit
      BY <1>2, <2>1, <2>2, <3>5
    <3>8. Lengths(U) \in Nat /\ Lengths(U) <= Lengths(T) - 1
      <4> DEFINE p == Len(T.access_order)
                 q == Len(T.insertion_order)
                 m == Len(a)
                 n == Len(i)
      <4>1. p \in Nat /\ q \in Nat /\ m \in Nat /\ n \in Nat /\ m + n <= p + q - 1
        <5>1. p \in Nat /\ q \in Nat /\ m \in Nat /\ n \in Nat
          BY <2>1, <3>6
        <5>2. m = p /\ n = q - 1
          BY <3>3, <3>6
        <5> HIDE DEF p, q, m, n
        <5> QED BY <5>1, <5>2
      <4>2. Lengths(U) = m + n /\ Lengths(T) = p + q
        BY <3>5 DEF Lengths
      <4> HIDE DEF p, q, m, n
      <4> QED BY <4>1, <4>2
    <3> QED BY <3>1, <3>5, <3>7, <3>8
  <2> QED BY <2>6, <2>7
<1> QED BY <1>1, <1>2

\* The body of the loop of evict_lru, and what holds of the store after n rounds.
Forget(T, k, z) == ForgetOne(T, z.limit)
Forgot(T, n, z) ==
  /\ Cut(T, z.of)
  /\ z.limit = Unlimited => T = z.of
  /\ T = z.of \/ Loaded(T) >= z.limit
  /\ z.limit = Unlimited \/ Loaded(T) <= z.limit \/ Lengths(T) <= Lengths(z.of) - n

Forgetting == INSTANCE Folding WITH Op <- Forget, P <- Forgot

\* evict_lru ends at the limit: chunks are forgotten only beyond it, exactly as many, and
\* both orders stay those of the chunks that are left.
LEMMA EvictedFacts ==
  ASSUME NEW S, Ordered(S), max_chunks \in Nat \/ max_chunks = Unlimited
  PROVE  /\ Cut(Evicted(S), S)
         /\ max_chunks = Unlimited => Evicted(S) = S
         /\ Evicted(S) = S \/ Loaded(Evicted(S)) >= max_chunks
         /\ max_chunks = Unlimited \/ Loaded(Evicted(S)) <= max_chunks
<1> DEFINE z == [of |-> S, limit |-> max_chunks]
           total == Len(S.access_order) + Len(S.insertion_order)
           rounds == [k \in 1 .. total |-> k]
           E == Evicted(S)
<1>0. z.of = S /\ z.limit = max_chunks
  OBVIOUS
<1>1. E = Forgetting!OverSeq(S, rounds, z)
  BY DEF Evicted, FoldLeft, Forgetting!OverSeq, MapThenFoldSet, Forgetting!MapThenFoldSet, Max,
         Forgetting!Largest, Forget
<1> HIDE DEF z, E
<1>2. total \in Nat /\ total = Lengths(S)
  <2>1. Lengths(S) \in Nat
    BY OrderedFacts
  <2> QED BY <2>1 DEF Lengths
<1> HIDE DEF total
<1>3. rounds \in Seq(Nat) /\ Len(rounds) = total
  <2>1. \A k \in 1 .. total : k \in Nat
    BY <1>2
  <2>2. rounds \in Seq(Nat)
    BY <1>2, <2>1, IsASeq
  <2>3. DOMAIN rounds = 1 .. Len(rounds) /\ Len(rounds) \in Nat
    BY <2>2, LenProperties
  <2> QED BY <1>2, <2>2, <2>3
<1> HIDE DEF rounds
<1>4. Forgot(S, 0, z)
  <2>1. Cut(S, S)
    BY DEF Cut
  <2>2. Lengths(S) <= Lengths(S) - 0
    BY <1>2
  <2> QED BY <1>0, <2>1, <2>2 DEF Forgot
<1>5. ASSUME NEW T, NEW n \in 1 .. total, NEW k, Forgot(T, n - 1, z)
      PROVE  Forgot(Forget(T, k, z), n, z)
  <2> DEFINE U == ForgetOne(T, max_chunks)
  <2>0. Forget(T, k, z) = U
    BY <1>0 DEF Forget
  <2>1. /\ Cut(T, S) /\ (max_chunks = Unlimited => T = S) /\ (T = S \/ Loaded(T) >= max_chunks)
        /\ max_chunks = Unlimited \/ Loaded(T) <= max_chunks \/ Lengths(T) <= Lengths(S) - (n - 1)
    BY <1>0, <1>5 DEF Forgot
  <2>2. Ordered(T) /\ Loaded(T) \in Nat /\ Lengths(T) \in Nat
    <3>1. Ordered(T)
      BY <2>1 DEF Cut
    <3> QED BY <3>1, OrderedFacts
  <2>3. CASE max_chunks = Unlimited \/ Loaded(T) <= max_chunks
    <3>1. U = T
      BY <2>2, <2>3, ForgottenOne
    <3> QED BY <1>0, <2>0, <2>1, <2>3, <3>1 DEF Forgot
  <2>4. CASE max_chunks # Unlimited /\ ~(Loaded(T) <= max_chunks)
    <3>1. Loaded(T) > max_chunks /\ max_chunks \in Nat
      BY <2>2, <2>4
    <3>2. /\ Cut(U, T) /\ Loaded(U) >= max_chunks /\ Lengths(U) \in Nat
          /\ Lengths(U) <= Lengths(T) - 1
      <4> HIDE DEF U
      <4> USE DEF U
      <4> QED BY <2>2, <2>4, <3>1, ForgottenOne
    <3> HIDE DEF U
    <3>3. Cut(U, S)
      BY <2>1, <3>2, CutAgain
    <3>4. Lengths(U) <= Lengths(S) - n
      <4> DEFINE u == Lengths(U)
                 t == Lengths(T)
                 s == Lengths(S)
      <4>1. u \in Nat /\ t \in Nat /\ s \in Nat /\ u <= t - 1 /\ t <= s - (n - 1) /\ n \in Int
        BY <1>2, <2>1, <2>2, <2>4, <3>2
      <4> HIDE DEF u, t, s
      <4>2. u <= s - n
        BY <4>1
      <4> QED BY <4>2 DEF u, s
    <3> QED BY <1>0, <2>0, <2>4, <3>2, <3>3, <3>4 DEF Forgot
  <2> QED BY <2>3, <2>4
<1>6. \A T : \A n \in 1 .. Len(rounds) : Forgot(T, n - 1, z) => Forgot(Forget(T, rounds[n], z), n, z)
  BY <1>3, <1>5
<1>7. Forgot(E, total, z)
  BY <1>1, <1>3, <1>4, <1>6, Forgetting!OverSeqInduction
<1>8. /\ Cut(E, S) /\ (max_chunks = Unlimited => E = S) /\ (E = S \/ Loaded(E) >= max_chunks)
      /\ max_chunks = Unlimited \/ Loaded(E) <= max_chunks \/ Lengths(E) <= Lengths(S) - total
  BY <1>0, <1>7 DEF Forgot
<1>9. max_chunks = Unlimited \/ Loaded(E) <= max_chunks
  <2> SUFFICES ASSUME max_chunks \in Nat, Lengths(E) <= Lengths(S) - total
               PROVE  Loaded(E) <= max_chunks
    BY <1>8
  <2>1. Ordered(E)
    BY <1>8 DEF Cut
  <2> DEFINE p == Len(E.access_order)
             q == Len(E.insertion_order)
  <2>2. p \in Nat /\ q \in Nat /\ Lengths(E) = p + q /\ Loaded(E) = q
    BY <2>1, OrderedFacts DEF Lengths
  <2>3. p + q <= 0
    <3> DEFINE s == Lengths(S)
    <3>1. p + q <= s - total /\ total = s /\ s \in Nat
      BY <1>2, <2>2
    <3> HIDE DEF p, q, s
    <3> QED BY <2>2, <3>1
  <2> HIDE DEF p, q
  <2> QED BY <2>2, <2>3
<1> QED BY <1>8, <1>9 DEF E

----------------------------------------------------------------------------
(* The store under its operations                                          *)

\* A chunk, and a table of chunks.
IsChunk(x) == x = [section |-> x.section, light |-> x.light]
Shaped(f) ==
  /\ f = [c \in DOMAIN f |-> f[c]]
  /\ \A c \in DOMAIN f : IsChunk(f[c])

\* What evict_lru makes of the table f.
Trim(g, f) ==
  /\ DOMAIN g \subseteq DOMAIN f /\ \A c \in DOMAIN g : g[c] = f[c]
  /\ Cardinality(DOMAIN g) =
       IF max_chunks = Unlimited \/ Cardinality(DOMAIN f) <= max_chunks
       THEN Cardinality(DOMAIN f) ELSE max_chunks

\* evict_lru leaves as many chunks as the limit allows, as they were.
LEMMA EvictedTrim ==
  ASSUME NEW S, Ordered(S), Shaped(S.chunks), max_chunks \in Nat \/ max_chunks = Unlimited
  PROVE  /\ Ordered(Evicted(S)) /\ Evicted(S).dirty_chunks = S.dirty_chunks
         /\ Shaped(Evicted(S).chunks) /\ Trim(Evicted(S).chunks, S.chunks)
<1> DEFINE E == Evicted(S)
<1>1. /\ Cut(E, S) /\ (max_chunks = Unlimited => E = S) /\ (E = S \/ Loaded(E) >= max_chunks)
      /\ max_chunks = Unlimited \/ Loaded(E) <= max_chunks
  BY EvictedFacts
<1> HIDE DEF E
<1>2. /\ Ordered(E) /\ E.dirty_chunks = S.dirty_chunks /\ DOMAIN E.chunks \subseteq DOMAIN S.chunks
      /\ \A c \in DOMAIN E.chunks : E.chunks[c] = S.chunks[c]
  BY <1>1 DEF Cut
<1>3. Shaped(E.chunks)
  <2>1. E.chunks = [c \in DOMAIN E.chunks |-> E.chunks[c]]
    BY <1>2 DEF Ordered
  <2> QED BY <1>2, <2>1 DEF Shaped
<1>4. /\ IsFiniteSet(DOMAIN S.chunks) /\ Loaded(S) \in Nat /\ Loaded(E) \in Nat
  BY <1>2, OrderedFacts
<1>5. Loaded(E) <= Loaded(S)
  BY <1>2, <1>4, FS_Subset DEF Loaded
<1>6. Loaded(E) = IF max_chunks = Unlimited \/ Loaded(S) <= max_chunks THEN Loaded(S) ELSE max_chunks
  <2>1. CASE E = S
    BY <1>1, <1>4, <2>1
  <2>2. CASE E # S
    <3>1. max_chunks \in Nat /\ max_chunks # Unlimited /\ Loaded(E) >= max_chunks /\ Loaded(E) <= max_chunks
      BY <1>1, <2>2
    <3> QED BY <1>4, <1>5, <3>1
  <2> QED BY <2>1, <2>2
<1>7. Trim(E.chunks, S.chunks)
  BY <1>2, <1>6 DEF Trim, Loaded
<1> QED BY <1>2, <1>3, <1>7 DEF E

\* mark_accessed concerns the order of access only.
LEMMA MarkedFacts ==
  ASSUME NEW S, Ordered(S), NEW c \in Coords
  PROVE  /\ Ordered(Marked(S, c)) /\ Marked(S, c).chunks = S.chunks
         /\ Marked(S, c).dirty_chunks = S.dirty_chunks
<1> DEFINE M == StoreOf(S.chunks, S.dirty_chunks, Accessed(S.access_order, c), S.insertion_order)
<1>1. S = StoreOf(S.chunks, S.dirty_chunks, S.access_order, S.insertion_order)
  BY DEF Ordered
<1>2. Marked(S, c) = M
  <2> DEFINE y == Accessed(S.access_order, c)
  <2>1. Marked(S, c) = [S EXCEPT !.access_order = y]
    BY DEF Marked
  <2> HIDE DEF y
  <2>2. [S EXCEPT !.access_order = y] = StoreOf(S.chunks, S.dirty_chunks, y, S.insertion_order)
    BY <1>1 DEF StoreOf
  <2> QED BY <2>1, <2>2 DEF y
<1>3. /\ M.chunks = S.chunks /\ M.dirty_chunks = S.dirty_chunks
      /\ M.access_order = Accessed(S.access_order, c) /\ M.insertion_order = S.insertion_order
  BY StoreParts
<1> HIDE DEF M
<1>4. Distinct(Accessed(S.access_order, c), Coords)
  BY AccessedFacts DEF Ordered
<1>5. Ordered(M)
  BY <1>1, <1>2, <1>3, <1>4 DEF Ordered, M
<1> QED BY <1>2, <1>3, <1>5

\* A store with another table and the order of insertion that belongs to it.
LEMMA OrderedStore ==
  ASSUME NEW f, f = [c \in DOMAIN f |-> f[c]], NEW d, NEW a, NEW i,
         Distinct(a, Coords), Distinct(i, Coords), ToSet(i) = DOMAIN f
  PROVE  Ordered(StoreOf(f, d, a, i))
  BY StoreParts DEF Ordered

\* Light is computed again for one chunk.
LEMMA RelitFacts ==
  ASSUME NEW f, Shaped(f), NEW c
  PROVE  /\ Shaped(Relit(f, c)) /\ DOMAIN Relit(f, c) = DOMAIN f
         /\ \A d \in DOMAIN f : Relit(f, c)[d].section = f[d].section
         /\ \A d \in DOMAIN f : d # c => Relit(f, c)[d] = f[d]
         /\ c \in DOMAIN f => Relit(f, c)[c].light = Lit(Blocks(f[c].section), East(f, c), West(f, c))
<1> DEFINE l == Lit(Blocks(f[c].section), East(f, c), West(f, c))
<1>1. CASE c \notin DOMAIN f
  <2>1. Relit(f, c) = f
    BY <1>1 DEF Relit
  <2> QED BY <1>1, <2>1
<1>2. CASE c \in DOMAIN f
  <2>1. Relit(f, c) = [f EXCEPT ![c].light = l]
    BY <1>2 DEF Relit
  <2> HIDE DEF l
  <2> DEFINE g == [f EXCEPT ![c].light = l]
             x == [f[c] EXCEPT !.light = l]
  <2>2. f[c] = [section |-> f[c].section, light |-> f[c].light]
    BY <1>2 DEF Shaped, IsChunk
  <2>3. x = [section |-> f[c].section, light |-> l]
    BY <2>2
  <2>4. g = [f EXCEPT ![c] = x]
    OBVIOUS
  <2> HIDE DEF x
  <2>5. x.section = f[c].section /\ x.light = l /\ IsChunk(x)
    BY <2>3 DEF IsChunk
  <2> HIDE DEF g
  <2>6. DOMAIN g = DOMAIN f /\ g[c] = x /\ g = [d \in DOMAIN f |-> g[d]]
        /\ \A d \in DOMAIN f : d # c => g[d] = f[d]
    BY <1>2, <2>4 DEF Shaped
  <2>7. Shaped(g)
    BY <2>5, <2>6 DEF Shaped
  <2> QED BY <2>1, <2>5, <2>6, <2>7 DEF l, g
<1> QED BY <1>1, <1>2

\* A table with one chunk put in.
LEMMA WithFacts ==
  ASSUME NEW f, Shaped(f), NEW c, NEW x, IsChunk(x)
  PROVE  /\ Shaped(With(f, c, x)) /\ DOMAIN With(f, c, x) = DOMAIN f \cup {c}
         /\ \A d \in DOMAIN f \cup {c} : With(f, c, x)[d] = IF d = c THEN x ELSE f[d]
<1> DEFINE g == With(f, c, x)
<1>1. g = [d \in DOMAIN f \cup {c} |-> IF d = c THEN x ELSE f[d]]
  BY DEF With
<1> HIDE DEF g
<1>2. /\ DOMAIN g = DOMAIN f \cup {c}
      /\ \A d \in DOMAIN f \cup {c} : g[d] = IF d = c THEN x ELSE f[d]
  BY <1>1
<1>3. g = [d \in DOMAIN g |-> g[d]]
  BY <1>1, <1>2
<1>4. Shaped(g)
  BY <1>2, <1>3 DEF Shaped
<1> QED BY <1>2, <1>4 DEF g

\* A new chunk has its section and no light.
LEMMA NewChunkFacts ==
  ASSUME NEW s
  PROVE  /\ NewChunk(s).section = s /\ NewChunk(s).light = NewLight
         /\ IsChunk(NewChunk(s))
  BY DEF NewChunk, IsChunk

Limit == max_chunks \in Nat \/ max_chunks = Unlimited

\* The parts of a bulk edit.
EditOf(phase, pending, order, now, next, round) ==
  [phase |-> phase, pending_chunks |-> pending, pending_access_order |-> order,
   to_process |-> now, next_round |-> next, round |-> round]

\* A bulk edit of which the chunks are in order.
TypedEdit(e) ==
  /\ e = EditOf(e.phase, e.pending_chunks, e.pending_access_order, e.to_process, e.next_round, e.round)
  /\ Shaped(e.pending_chunks) /\ Distinct(e.pending_access_order, Coords)
  /\ ToSet(e.pending_access_order) = DOMAIN e.pending_chunks

\* The store and the bulk edit, each with the order of its chunks.
Typed ==
  /\ Ordered(store) /\ Shaped(store.chunks) /\ Limit
  /\ Shaped(saved) /\ DOMAIN saved \subseteq Coords /\ IsFiniteSet(DOMAIN saved)
  /\ TypedEdit(edit)

\* The table f with the chunks of g over it.
Joined(f, g) == [c \in DOMAIN f \cup DOMAIN g |-> IF c \in DOMAIN g THEN g[c] ELSE f[c]]

\* A table over which others are put has the chunks of both.
LEMMA JoinedFacts ==
  ASSUME NEW f, Shaped(f), NEW g, Shaped(g)
  PROVE  /\ Shaped(Joined(f, g)) /\ DOMAIN Joined(f, g) = DOMAIN f \cup DOMAIN g
         /\ \A c \in DOMAIN g : Joined(f, g)[c] = g[c]
         /\ \A c \in DOMAIN f \ DOMAIN g : Joined(f, g)[c] = f[c]
<1> DEFINE h == Joined(f, g)
<1>1. h = [c \in DOMAIN f \cup DOMAIN g |-> IF c \in DOMAIN g THEN g[c] ELSE f[c]]
  BY DEF Joined
<1> HIDE DEF h
<1>2. /\ DOMAIN h = DOMAIN f \cup DOMAIN g /\ (\A c \in DOMAIN g : h[c] = g[c])
      /\ \A c \in DOMAIN f \ DOMAIN g : h[c] = f[c]
  BY <1>1
<1>3. h = [c \in DOMAIN h |-> h[c]]
  BY <1>1, <1>2
<1>4. Shaped(h)
  BY <1>2, <1>3 DEF Shaped
<1> QED BY <1>2, <1>4 DEF h

\* The orders of a store into which chunks are merged.
LEMMA JoinedOrder ==
  ASSUME NEW s, Distinct(s, Coords), NEW T, T \subseteq Coords, IsFiniteSet(T), NEW keys \in SetToSeqs(T)
  PROVE  /\ Distinct(Minus(s, T) \o keys, Coords)
         /\ ToSet(Minus(s, T) \o keys) = ToSet(s) \cup T
<1>1. Distinct(Minus(s, T), Coords) /\ ToSet(Minus(s, T)) = ToSet(s) \ T
  BY MinusFacts
<1>2. Distinct(keys, Coords) /\ ToSet(keys) = T
  <2>1. Distinct(keys, T) /\ ToSet(keys) = T
    BY AnyOrder
  <2> QED BY <2>1, DistinctIn
<1>3. /\ Distinct(Minus(s, T) \o keys, Coords)
      /\ ToSet(Minus(s, T) \o keys) = (ToSet(s) \ T) \cup T
  <2> DEFINE m == Minus(s, T)
  <2>1. Distinct(m, Coords) /\ ToSet(m) = ToSet(s) \ T
    BY <1>1
  <2> HIDE DEF m
  <2>2. ToSet(m) \cap ToSet(keys) = {}
    BY <1>2, <2>1
  <2>3. Distinct(keys, Coords)
    BY <1>2
  <2>4. Distinct(m \o keys, Coords) /\ ToSet(m \o keys) = ToSet(m) \cup ToSet(keys)
    BY ONLY <2>1, <2>2, <2>3, ConcatDistinct
  <2> QED BY <1>2, <2>1, <2>4 DEF m
<1> QED BY <1>3

----------------------------------------------------------------------------
(* What each operation does to the table                                   *)

\* The table in, before chunks are forgotten: chunk c has section s and light l, the
\* others are as they were.
Puts(in, c, s, l) ==
  /\ Shaped(in) /\ DOMAIN in = DOMAIN store.chunks \cup {c} /\ in[c].section = s /\ in[c].light = l
  /\ \A d \in DOMAIN store.chunks : d # c => in[d] = store.chunks[d]

\* The light of section s in the place of chunk c.
LitFor(c, s) == Lit(Blocks(s), East(store.chunks, c), West(store.chunks, c))

\* A face depends on its chunk only.
LEMMA FaceSame ==
  ASSUME NEW f, NEW g, NEW k, NEW x, k \in DOMAIN f <=> k \in DOMAIN g,
         k \in DOMAIN f => f[k] = g[k]
  PROVE  Face(f, k, x) = Face(g, k, x)
  BY DEF Face

\* The neighbours' faces are those of other chunks.
LEMMA FacesSame ==
  ASSUME NEW f, NEW g, NEW c \in Int, \A d : d # c => (d \in DOMAIN f <=> d \in DOMAIN g),
         \A d \in DOMAIN f : d # c => f[d] = g[d]
  PROVE  East(f, c) = East(g, c) /\ West(f, c) = West(g, c)
<1>1. c + 1 # c /\ c - 1 # c
  OBVIOUS
<1>2. Face(f, c + 1, Width - 1) = Face(g, c + 1, Width - 1)
  <2> DEFINE k == c + 1
             x == Width - 1
  <2>1. (k \in DOMAIN f <=> k \in DOMAIN g) /\ (k \in DOMAIN f => f[k] = g[k])
    BY <1>1
  <2> HIDE DEF k, x
  <2>2. Face(f, k, x) = Face(g, k, x)
    BY <2>1, FaceSame
  <2> QED BY <2>2 DEF k, x
<1>3. Face(f, c - 1, 0) = Face(g, c - 1, 0)
  <2> DEFINE k == c - 1
  <2>1. (k \in DOMAIN f <=> k \in DOMAIN g) /\ (k \in DOMAIN f => f[k] = g[k])
    BY <1>1
  <2> HIDE DEF k
  <2>2. Face(f, k, 0) = Face(g, k, 0)
    BY <2>1, FaceSame
  <2> QED BY <2>2 DEF k
<1> QED BY <1>2, <1>3 DEF East, West

\* load_chunk puts the chunk in with the light of its surroundings, then forgets chunks.
LEMMA LoadChunkDoes ==
  ASSUME Typed, NEW c \in Coords, NEW f, LoadChunk(c, f)
  PROVE  /\ Ordered(store') /\ Shaped(store'.chunks) /\ store'.dirty_chunks = store.dirty_chunks
         /\ \E in : Puts(in, c, Filled(f), LitFor(c, Filled(f))) /\ Trim(store'.chunks, in)
<1> DEFINE x   == NewChunk(Filled(f))
           g   == With(store.chunks, c, x)
           h   == Relit(g, c)
           ins == Inserted(store.insertion_order, c)
           S   == StoreOf(h, store.dirty_chunks, store.access_order, ins)
<1>1. store' = Marked(Evicted(S), c)
  <2>1. store = StoreOf(store.chunks, store.dirty_chunks, store.access_order, store.insertion_order)
    BY DEF Typed, Ordered
  <2>2. store' = Marked(Evicted(WithChunks(store, h, ins)), c)
    BY DEF LoadChunk, WithChunks
  <2> HIDE DEF h, ins
  <2> QED BY <2>1, <2>2, StoreWithMany
<1>2. IsChunk(x) /\ x.section = Filled(f)
  BY NewChunkFacts
<1> HIDE DEF x
<1>3. /\ Shaped(g) /\ DOMAIN g = DOMAIN store.chunks \cup {c} /\ g[c] = x
      /\ \A d \in DOMAIN store.chunks : d # c => g[d] = store.chunks[d]
  <2>1. Shaped(store.chunks)
    BY DEF Typed
  <2>2. /\ Shaped(g) /\ DOMAIN g = DOMAIN store.chunks \cup {c}
        /\ \A d \in DOMAIN store.chunks \cup {c} : g[d] = IF d = c THEN x ELSE store.chunks[d]
    BY ONLY <1>2, <2>1, WithFacts
  <2> QED BY <2>2
<1> HIDE DEF g
<1>4. /\ Shaped(h) /\ DOMAIN h = DOMAIN g /\ \A d \in DOMAIN g : h[d].section = g[d].section
      /\ \A d \in DOMAIN g : d # c => h[d] = g[d]
      /\ h[c].light = Lit(Blocks(g[c].section), East(g, c), West(g, c))
  BY <1>3, RelitFacts
<1>b. East(g, c) = East(store.chunks, c) /\ West(g, c) = West(store.chunks, c)
  <2>1. c \in Int
    BY StoreAssumption
  <2> QED BY <1>3, <2>1, FacesSame
<1>5. Distinct(ins, Coords) /\ ToSet(ins) = DOMAIN store.chunks \cup {c}
      /\ Distinct(store.access_order, Coords)
  <2>1. /\ Distinct(store.insertion_order, Coords) /\ Distinct(store.access_order, Coords)
        /\ ToSet(store.insertion_order) = DOMAIN store.chunks
    BY DEF Typed, Ordered
  <2> QED BY <2>1, AccessedFacts
<1> HIDE DEF h, ins
<1>6. Ordered(S) /\ S.chunks = h /\ S.dirty_chunks = store.dirty_chunks
  <2>1. h = [d \in DOMAIN h |-> h[d]] /\ ToSet(ins) = DOMAIN h
    BY <1>3, <1>4, <1>5 DEF Shaped
  <2> QED BY <1>5, <2>1, OrderedStore, StoreParts
<1> HIDE DEF S
<1>7. /\ Ordered(Evicted(S)) /\ Evicted(S).dirty_chunks = store.dirty_chunks
      /\ Shaped(Evicted(S).chunks) /\ Trim(Evicted(S).chunks, h)
  BY <1>4, <1>6, EvictedTrim DEF Typed, Limit
<1>8. /\ Ordered(store') /\ store'.chunks = Evicted(S).chunks
      /\ store'.dirty_chunks = store.dirty_chunks
  BY <1>1, <1>7, MarkedFacts
<1>9. Puts(h, c, Filled(f), LitFor(c, Filled(f)))
  BY <1>2, <1>3, <1>4, <1>b DEF Puts, LitFor
<1> QED BY <1>7, <1>8, <1>9

\* set_block writes one block, computes the light of the chunk, then forgets chunks.
LEMMA SetBlockDoes ==
  ASSUME Typed, NEW c \in Coords, NEW i, NEW id, SetBlock(c, i, id)
  PROVE  /\ Ordered(store') /\ Shaped(store'.chunks)
         /\ store'.dirty_chunks = store.dirty_chunks \cup {c}
         /\ c \in DOMAIN store.chunks
         /\ LET s == WithBlock(store.chunks[c].section, i, id)
            IN  \E in : Puts(in, c, s, LitFor(c, s)) /\ Trim(store'.chunks, in)
<1> DEFINE s   == WithBlock(store.chunks[c].section, i, id)
           x   == [store.chunks[c] EXCEPT !.section = s]
           g   == [store.chunks EXCEPT ![c].section = s]
           h   == Relit(g, c)
           acc == Accessed(store.access_order, c)
           S   == StoreOf(h, store.dirty_chunks \cup {c}, acc, store.insertion_order)
<1>0. c \in DOMAIN store.chunks
  BY DEF SetBlock
<1>1. store' = Evicted(S)
  <2> DEFINE dirty == store.dirty_chunks \cup {c}
             A == [store EXCEPT !.dirty_chunks = dirty]
             B == [A EXCEPT !.access_order = Accessed(@, c)]
             C == [B EXCEPT !.chunks = h]
  <2>1. store = StoreOf(store.chunks, store.dirty_chunks, store.access_order, store.insertion_order)
    BY DEF Typed, Ordered
  <2>2. store' = Evicted(C)
    BY DEF SetBlock, Marked
  <2> HIDE DEF h, dirty
  <2>3. A = StoreOf(store.chunks, dirty, store.access_order, store.insertion_order)
    BY <2>1 DEF StoreOf
  <2> HIDE DEF A
  <2>4. B = StoreOf(store.chunks, dirty, acc, store.insertion_order)
    <3>1. A.access_order = store.access_order
      BY <2>3, StoreParts
    <3>2. B = [A EXCEPT !.access_order = acc]
      BY <3>1
    <3> HIDE DEF acc, B
    <3> QED BY <2>3, <3>2 DEF StoreOf
  <2> HIDE DEF B, acc
  <2>5. C = StoreOf(h, dirty, acc, store.insertion_order)
    BY <2>4 DEF StoreOf
  <2> QED BY <2>2, <2>5 DEF dirty
<1>2. x = [section |-> s, light |-> store.chunks[c].light]
  <2>1. store.chunks[c] = [section |-> store.chunks[c].section, light |-> store.chunks[c].light]
    BY <1>0 DEF Typed, Shaped, IsChunk
  <2> HIDE DEF s
  <2> QED BY <2>1
<1>3. /\ Shaped(g) /\ DOMAIN g = DOMAIN store.chunks /\ g[c].section = s
      /\ \A d \in DOMAIN store.chunks : d # c => g[d] = store.chunks[d]
  <2>1. g = [store.chunks EXCEPT ![c] = x]
    OBVIOUS
  <2> HIDE DEF x, g, s
  <2>2. DOMAIN g = DOMAIN store.chunks /\ g[c] = x /\ g = [d \in DOMAIN g |-> g[d]]
        /\ \A d \in DOMAIN store.chunks : d # c => g[d] = store.chunks[d]
    BY <1>0, <2>1 DEF Typed, Shaped
  <2>3. IsChunk(x) /\ x.section = s
    BY <1>2 DEF IsChunk
  <2>4. \A d \in DOMAIN g : IsChunk(g[d])
    <3> TAKE d \in DOMAIN g
    <3>1. CASE d = c
      BY <2>2, <2>3, <3>1
    <3>2. CASE d # c
      BY <2>2, <3>2 DEF Typed, Shaped
    <3> QED BY <3>1, <3>2
  <2> QED BY <2>2, <2>3, <2>4 DEF Shaped
<1> HIDE DEF g, s
<1>4. /\ Shaped(h) /\ DOMAIN h = DOMAIN g /\ \A d \in DOMAIN g : h[d].section = g[d].section
      /\ \A d \in DOMAIN g : d # c => h[d] = g[d]
      /\ h[c].light = Lit(Blocks(g[c].section), East(g, c), West(g, c))
  BY <1>0, <1>3, RelitFacts
<1>b. East(g, c) = East(store.chunks, c) /\ West(g, c) = West(store.chunks, c)
  <2>1. c \in Int
    BY StoreAssumption
  <2> QED BY <1>3, <2>1, FacesSame
<1>5. Distinct(acc, Coords) /\ Distinct(store.insertion_order, Coords)
      /\ ToSet(store.insertion_order) = DOMAIN store.chunks
  <2>1. /\ Distinct(store.insertion_order, Coords) /\ Distinct(store.access_order, Coords)
        /\ ToSet(store.insertion_order) = DOMAIN store.chunks
    BY DEF Typed, Ordered
  <2> QED BY <2>1, AccessedFacts
<1> HIDE DEF h, acc
<1>6. Ordered(S) /\ S.chunks = h /\ S.dirty_chunks = store.dirty_chunks \cup {c}
  <2>1. h = [d \in DOMAIN h |-> h[d]] /\ ToSet(store.insertion_order) = DOMAIN h
    BY <1>3, <1>4, <1>5 DEF Shaped
  <2> QED BY <1>5, <2>1, OrderedStore, StoreParts
<1> HIDE DEF S
<1>7. /\ Ordered(Evicted(S)) /\ Evicted(S).dirty_chunks = store.dirty_chunks \cup {c}
      /\ Shaped(Evicted(S).chunks) /\ Trim(Evicted(S).chunks, h)
  BY <1>4, <1>6, EvictedTrim DEF Typed, Limit
<1>8. DOMAIN store.chunks = DOMAIN store.chunks \cup {c}
  BY <1>0
<1>9. Puts(h, c, s, LitFor(c, s))
  BY <1>0, <1>3, <1>4, <1>8, <1>b DEF Puts, LitFor
<1> QED BY <1>0, <1>1, <1>7, <1>9 DEF s

\* The parts of the store in every state.
LEMMA StoreFacts ==
  ASSUME Typed
  PROVE  /\ store = StoreOf(store.chunks, store.dirty_chunks, store.access_order, store.insertion_order)
         /\ Distinct(store.access_order, Coords) /\ Distinct(store.insertion_order, Coords)
         /\ ToSet(store.insertion_order) = DOMAIN store.chunks
         /\ Ordered(store) /\ Shaped(store.chunks) /\ DOMAIN store.chunks \subseteq Coords
         /\ IsFiniteSet(DOMAIN store.chunks)
  BY OrderedFacts DEF Typed, Ordered

\* get_or_generate_chunk does nothing to the table, or puts in what was generated.
LEMMA GetOrGenerateChunkDoes ==
  ASSUME Typed, NEW c \in Coords, GetOrGenerateChunk(c)
  PROVE  /\ Ordered(store') /\ Shaped(store'.chunks) /\ store'.dirty_chunks = store.dirty_chunks
         /\ \/ store'.chunks = store.chunks
            \/ \E in : Puts(in, c, Generation(Generated), NewLight) /\ Trim(store'.chunks, in)
<1> DEFINE x   == NewChunk(Generation(Generated))
           g   == With(store.chunks, c, x)
           ins == Inserted(store.insertion_order, c)
           S   == StoreOf(g, store.dirty_chunks, store.access_order, ins)
<1>1. store' = Marked(IF c \in DOMAIN store.chunks THEN store ELSE Evicted(S), c)
  <2>1. store' = Marked(IF c \in DOMAIN store.chunks THEN store
                        ELSE Evicted(WithChunks(store, g, ins)), c)
    BY DEF GetOrGenerateChunk, WithChunks, Generation
  <2> HIDE DEF g, ins
  <2>2. WithChunks(store, g, ins) = S
    BY StoreFacts, StoreWithMany
  <2> QED BY <2>1, <2>2
<1>2. IsChunk(x) /\ x.section = Generation(Generated) /\ x.light = NewLight
  BY NewChunkFacts
<1> HIDE DEF x
<1>3. /\ Shaped(g) /\ DOMAIN g = DOMAIN store.chunks \cup {c}
      /\ \A d \in DOMAIN store.chunks \cup {c} : g[d] = IF d = c THEN x ELSE store.chunks[d]
  <2>1. Shaped(store.chunks) /\ IsChunk(x)
    BY <1>2 DEF Typed
  <2>2. /\ Shaped(With(store.chunks, c, x)) /\ DOMAIN With(store.chunks, c, x) = DOMAIN store.chunks \cup {c}
        /\ \A d \in DOMAIN store.chunks \cup {c} :
             With(store.chunks, c, x)[d] = IF d = c THEN x ELSE store.chunks[d]
    <3> DEFINE f == store.chunks
    <3>1. Shaped(f) /\ IsChunk(x)
      BY <2>1
    <3> HIDE DEF f
    <3>2. Shaped(With(f, c, x))
      BY ONLY <3>1, WithFacts
    <3>3. DOMAIN With(f, c, x) = DOMAIN f \cup {c}
      BY ONLY <3>1, WithFacts
    <3>4. \A d \in DOMAIN f \cup {c} : With(f, c, x)[d] = IF d = c THEN x ELSE f[d]
      BY ONLY DEF With
    <3> QED BY <3>2, <3>3, <3>4 DEF f
  <2> QED BY ONLY <2>2
<1>4. Distinct(ins, Coords) /\ ToSet(ins) = DOMAIN store.chunks \cup {c}
  BY StoreFacts, AccessedFacts
<1> HIDE DEF g, ins
<1>5. Ordered(S) /\ S.chunks = g /\ S.dirty_chunks = store.dirty_chunks
  <2>1. g = [d \in DOMAIN g |-> g[d]] /\ ToSet(ins) = DOMAIN g
    BY <1>3, <1>4 DEF Shaped
  <2>2. Distinct(store.access_order, Coords)
    BY StoreFacts
  <2> QED BY <1>4, <2>1, <2>2, OrderedStore, StoreParts
<1> HIDE DEF S
<1>6. /\ Ordered(Evicted(S)) /\ Evicted(S).dirty_chunks = store.dirty_chunks
      /\ Shaped(Evicted(S).chunks) /\ Trim(Evicted(S).chunks, g)
  BY <1>3, <1>5, EvictedTrim DEF Typed, Limit
<1>7. CASE c \in DOMAIN store.chunks
  <2>1. store' = Marked(store, c)
    BY <1>1, <1>7
  <2> QED BY <2>1, StoreFacts, MarkedFacts
<1>8. CASE c \notin DOMAIN store.chunks
  <2>1. store' = Marked(Evicted(S), c)
    BY <1>1, <1>8
  <2>2. /\ Ordered(store') /\ store'.chunks = Evicted(S).chunks
        /\ store'.dirty_chunks = store.dirty_chunks
    BY <1>6, <2>1, MarkedFacts
  <2>3. Puts(g, c, Generation(Generated), NewLight)
    BY <1>2, <1>3 DEF Puts
  <2> QED BY <1>6, <2>2, <2>3
<1> QED BY <1>7, <1>8

\* unload_chunk takes one chunk out.
LEMMA UnloadChunkDoes ==
  ASSUME Typed, NEW c \in Coords, UnloadChunk(c)
  PROVE  /\ Ordered(store') /\ Shaped(store'.chunks) /\ store'.dirty_chunks = store.dirty_chunks
         /\ DOMAIN store'.chunks = DOMAIN store.chunks \ {c}
         /\ \A d \in DOMAIN store'.chunks : store'.chunks[d] = store.chunks[d]
<1> DEFINE g   == Without(store.chunks, c)
           ins == Minus(store.insertion_order, {c})
           S   == StoreOf(g, store.dirty_chunks, store.access_order, ins)
<1>1. store' = S
  <2>1. store' = WithChunks(store, g, ins)
    BY DEF UnloadChunk, WithChunks
  <2> HIDE DEF g, ins
  <2> QED BY <2>1, StoreFacts, StoreWithMany
<1>2. /\ g = [d \in DOMAIN g |-> g[d]] /\ DOMAIN g = DOMAIN store.chunks \ {c}
      /\ \A d \in DOMAIN g : g[d] = store.chunks[d]
  BY DEF Without
<1> HIDE DEF g
<1>3. Shaped(g)
  BY <1>2, StoreFacts DEF Shaped
<1>4. Distinct(ins, Coords) /\ ToSet(ins) = DOMAIN g
  BY <1>2, StoreFacts, MinusFacts
<1> HIDE DEF ins
<1>5. Ordered(S) /\ S.chunks = g /\ S.dirty_chunks = store.dirty_chunks
  <2>1. Distinct(store.access_order, Coords)
    BY StoreFacts
  <2>2. g = [d \in DOMAIN g |-> g[d]]
    BY <1>2
  <2>3. Ordered(S)
    BY <1>4, <2>1, <2>2, OrderedStore
  <2> QED BY <2>3, StoreParts
<1> QED BY <1>1, <1>2, <1>3, <1>5

\* load_all puts the saved chunks over the loaded ones.
LEMMA LoadAllDoes ==
  ASSUME Typed, LoadAll
  PROVE  /\ Ordered(store') /\ Shaped(store'.chunks) /\ store'.dirty_chunks = store.dirty_chunks
         /\ store'.chunks = Joined(store.chunks, saved)
<1> DEFINE g == Joined(store.chunks, saved)
<1>1. PICK keys \in SetToSeqs(DOMAIN saved) :
        store' = WithChunks(store, g, Minus(store.insertion_order, DOMAIN saved) \o keys)
  BY DEF LoadAll, WithChunks, Joined
<1> DEFINE ins == Minus(store.insertion_order, DOMAIN saved) \o keys
           S   == StoreOf(g, store.dirty_chunks, store.access_order, ins)
<1>2. store' = S
  <2> HIDE DEF g, ins
  <2>1. store' = WithChunks(store, g, ins)
    BY <1>1 DEF ins
  <2> QED BY <2>1, StoreFacts, StoreWithMany
<1>3. Shaped(g) /\ DOMAIN g = DOMAIN store.chunks \cup DOMAIN saved
  <2>1. Shaped(store.chunks) /\ Shaped(saved)
    BY DEF Typed
  <2> QED BY <2>1, JoinedFacts
<1>4. Distinct(ins, Coords) /\ ToSet(ins) = DOMAIN store.chunks \cup DOMAIN saved
  <2>1. DOMAIN saved \subseteq Coords /\ IsFiniteSet(DOMAIN saved)
    BY DEF Typed
  <2> QED BY <2>1, StoreFacts, JoinedOrder
<1> HIDE DEF g, ins
<1>5. Ordered(S) /\ S.chunks = g /\ S.dirty_chunks = store.dirty_chunks
  <2>1. g = [d \in DOMAIN g |-> g[d]] /\ ToSet(ins) = DOMAIN g
    BY <1>3, <1>4 DEF Shaped
  <2>2. Distinct(store.access_order, Coords)
    BY StoreFacts
  <2> QED BY <1>4, <2>1, <2>2, OrderedStore, StoreParts
<1> QED BY <1>2, <1>3, <1>5 DEF g

\* The table without chunks.
LEMMA EmptyTable ==
  Shaped(<<>>) /\ DOMAIN <<>> = {} /\ Distinct(<<>>, Coords) /\ ToSet(<<>>) = {}
<1>1. DOMAIN <<>> = {} /\ <<>> = [c \in DOMAIN <<>> |-> <<>>[c]]
  OBVIOUS
<1>2. Distinct(<<>>, Coords) /\ ToSet(<<>>) = {}
  BY EmptyDistinct
<1> QED BY <1>1, <1>2 DEF Shaped

\* The parts of a bulk edit.
LEMMA EditParts ==
  ASSUME NEW p, NEW q, NEW o, NEW n, NEW m, NEW r
  PROVE  /\ EditOf(p, q, o, n, m, r).phase = p /\ EditOf(p, q, o, n, m, r).pending_chunks = q
         /\ EditOf(p, q, o, n, m, r).pending_access_order = o
         /\ EditOf(p, q, o, n, m, r).to_process = n
         /\ EditOf(p, q, o, n, m, r).next_round = m /\ EditOf(p, q, o, n, m, r).round = r
  BY DEF EditOf

\* A bulk edit without pending chunks.
LEMMA FreshEdit ==
  ASSUME NEW p, NEW n, NEW m, NEW r
  PROVE  TypedEdit(EditOf(p, <<>>, <<>>, n, m, r))
<1> DEFINE e == EditOf(p, <<>>, <<>>, n, m, r)
<1>1. /\ e.phase = p /\ e.pending_chunks = <<>> /\ e.pending_access_order = <<>>
      /\ e.to_process = n /\ e.next_round = m /\ e.round = r
  BY DEF EditOf
<1>2. e = EditOf(e.phase, e.pending_chunks, e.pending_access_order, e.to_process, e.next_round, e.round)
  BY <1>1
<1> HIDE DEF e
<1>3. TypedEdit(e)
  BY <1>1, <1>2, EmptyTable DEF TypedEdit
<1> QED BY <1>3 DEF e

\* fill_chunk replaces the section of one pending chunk, which keeps its light.
LEMMA FillChunkDoes ==
  ASSUME Typed, NEW c \in Coords, NEW f, FillChunk(c, f)
  PROVE  /\ TypedEdit(edit') /\ edit'.phase = edit.phase
         /\ DOMAIN edit'.pending_chunks = DOMAIN edit.pending_chunks \cup {c}
         /\ edit'.pending_chunks[c].section = Filled(f)
         /\ \/ c \in DOMAIN edit.pending_chunks /\ edit'.pending_chunks[c].light = edit.pending_chunks[c].light
            \/ c \in DOMAIN store.chunks /\ edit'.pending_chunks[c].light = store.chunks[c].light
            \/ edit'.pending_chunks[c].light = NewLight
         /\ \A d \in DOMAIN edit.pending_chunks : d # c =>
              edit'.pending_chunks[d] = edit.pending_chunks[d]
<1> DEFINE e   == edit
           q   == edit.pending_chunks
           old == IF c \in DOMAIN q THEN q[c]
                  ELSE IF c \in DOMAIN store.chunks THEN store.chunks[c]
                  ELSE NewChunk(EmptySection)
           s   == Filled(f)
           x   == [old EXCEPT !.section = s]
           g   == With(q, c, x)
           acc == Accessed(edit.pending_access_order, c)
           A   == [edit EXCEPT !.pending_chunks = g]
           B   == [A EXCEPT !.pending_access_order = acc]
           E   == EditOf(edit.phase, g, acc, edit.to_process, edit.next_round, edit.round)
<1>1. edit' = E
  <2>1. edit' = [edit EXCEPT !.pending_chunks = g, !.pending_access_order = acc]
    BY DEF FillChunk
  <2>2. edit = EditOf(edit.phase, q, edit.pending_access_order, edit.to_process,
                      edit.next_round, edit.round)
    BY DEF Typed, TypedEdit
  <2> HIDE DEF g, acc, q
  <2>3. edit' = B
    BY <2>1
  <2>4. A = EditOf(edit.phase, g, edit.pending_access_order, edit.to_process,
                   edit.next_round, edit.round)
    BY <2>2 DEF EditOf
  <2> HIDE DEF A
  <2>5. B = E
    BY <2>4 DEF EditOf
  <2> QED BY <2>3, <2>5
<1>2. IsChunk(old)
  <2>1. IsChunk(NewChunk(EmptySection))
    BY NewChunkFacts
  <2> QED BY <2>1 DEF Typed, TypedEdit, Shaped
<1>l. \/ c \in DOMAIN q /\ old.light = q[c].light
      \/ c \in DOMAIN store.chunks /\ old.light = store.chunks[c].light
      \/ old.light = NewLight
  BY NewChunkFacts
<1> HIDE DEF old, s
<1>3. IsChunk(x) /\ x.section = s /\ x.light = old.light
  <2>1. old = [section |-> old.section, light |-> old.light]
    BY <1>2 DEF IsChunk
  <2>2. x = [section |-> s, light |-> old.light]
    BY <2>1
  <2> HIDE DEF x
  <2> QED BY <2>2 DEF IsChunk
<1> HIDE DEF x
<1>4. Shaped(q)
  BY DEF Typed, TypedEdit
<1> HIDE DEF q
<1>5. Shaped(g) /\ DOMAIN g = DOMAIN q \cup {c}
  BY ONLY <1>3, <1>4, WithFacts
<1>6. \A d \in DOMAIN q \cup {c} : g[d] = IF d = c THEN x ELSE q[d]
  BY DEF With
<1> HIDE DEF g
<1>7. Distinct(acc, Coords) /\ ToSet(acc) = DOMAIN g
  <2>1. Distinct(edit.pending_access_order, Coords) /\ ToSet(edit.pending_access_order) = DOMAIN q
    BY DEF Typed, TypedEdit, q
  <2> QED BY <1>5, <2>1, AccessedFacts
<1> HIDE DEF acc
<1>8. /\ E.phase = edit.phase /\ E.pending_chunks = g /\ E.pending_access_order = acc
      /\ E.to_process = edit.to_process /\ E.next_round = edit.next_round /\ E.round = edit.round
  BY EditParts
<1>9. E = EditOf(E.phase, E.pending_chunks, E.pending_access_order, E.to_process, E.next_round, E.round)
  BY <1>8
<1> HIDE DEF E
<1>10. TypedEdit(E)
  BY <1>5, <1>7, <1>8, <1>9 DEF TypedEdit
<1>11. /\ DOMAIN g = DOMAIN q \cup {c} /\ g[c].section = s /\ g[c].light = old.light
       /\ \A d \in DOMAIN q : d # c => g[d] = q[d]
  BY <1>3, <1>5, <1>6
<1> QED BY <1>1, <1>l, <1>8, <1>10, <1>11 DEF q, s

\* The bulk edit that is not open.
LEMMA NoEditIs ==
  NoEdit = EditOf("none", <<>>, <<>>, {}, {}, 0)
  BY DEF NoEdit, EditOf

\* Only the phase changes.
LEMMA EditAt ==
  ASSUME NEW p, NEW q, NEW o, NEW n, NEW m, NEW r, NEW x, NEW e, e = EditOf(p, q, o, n, m, r)
  PROVE  [e EXCEPT !.phase = x] = EditOf(x, q, o, n, m, r)
  BY DEF EditOf

\* finalize puts the pending chunks over the loaded ones, forgets chunks and begins with the
\* dirty chunks that are still loaded.
LEMMA FinalizeDoes ==
  ASSUME Typed, Finalize
  PROVE  /\ Ordered(store') /\ Shaped(store'.chunks)
         /\ store'.dirty_chunks = store.dirty_chunks \cup DOMAIN edit.pending_chunks
         /\ Trim(store'.chunks, Joined(store.chunks, edit.pending_chunks))
         /\ edit' = EditOf("relight", <<>>, <<>>, store'.dirty_chunks \cap DOMAIN store'.chunks, {}, 0)
         /\ edit.phase = "filling"
<1> DEFINE q     == edit.pending_chunks
           P     == DOMAIN q
           g     == Joined(store.chunks, q)
           dirty == store.dirty_chunks \cup P
           acc   == Reverse(edit.pending_access_order) \o Minus(store.access_order, P)
<1>1. PICK coords \in SetToSeqs(P) :
        LET M == WithPending(store, g, Minus(store.insertion_order, P) \o coords, dirty, acc)
        IN  /\ store' = Evicted(M)
            /\ edit' = [NoEdit EXCEPT !.phase = "relight",
                          !.to_process = M.dirty_chunks \cap DOMAIN store'.chunks]
  BY DEF Finalize, WithPending, Joined
<1> DEFINE ins == Minus(store.insertion_order, P) \o coords
           S   == StoreOf(g, dirty, acc, ins)
           to  == S.dirty_chunks \cap DOMAIN store'.chunks
<1>2. store' = Evicted(S) /\ edit' = [NoEdit EXCEPT !.phase = "relight", !.to_process = to]
  <2>1. WithPending(store, g, ins, dirty, acc) = S
    <3> HIDE DEF g, ins, dirty, acc
    <3> QED BY StoreFacts, StoreWithMany
  <2> HIDE DEF S
  <2> QED BY <1>1, <2>1
<1>3. Shaped(store.chunks) /\ Shaped(q) /\ P \subseteq Coords /\ IsFiniteSet(P)
      /\ Distinct(edit.pending_access_order, Coords) /\ ToSet(edit.pending_access_order) = P
  <2>1. Shaped(store.chunks) /\ Shaped(q)
        /\ Distinct(edit.pending_access_order, Coords) /\ ToSet(edit.pending_access_order) = P
    BY DEF Typed, TypedEdit
  <2>2. IsFiniteSet(P) /\ P \subseteq Coords
    BY <2>1, DistinctFacts
  <2> QED BY <2>1, <2>2
<1>4. Shaped(g) /\ DOMAIN g = DOMAIN store.chunks \cup P
  BY <1>3, JoinedFacts
<1> HIDE DEF P, g
<1>5. Distinct(ins, Coords) /\ ToSet(ins) = DOMAIN g
  <2>1. Distinct(store.insertion_order, Coords) /\ ToSet(store.insertion_order) = DOMAIN store.chunks
    BY StoreFacts
  <2>2. Distinct(ins, Coords) /\ ToSet(ins) = ToSet(store.insertion_order) \cup P
    BY ONLY <1>1, <1>3, <2>1, JoinedOrder
  <2> QED BY <1>4, <2>1, <2>2
<1> HIDE DEF ins
<1>6. Distinct(acc, Coords)
  <2> DEFINE r == Reverse(edit.pending_access_order)
             m == Minus(store.access_order, P)
  <2>1. Distinct(r, Coords) /\ ToSet(r) = P
    BY <1>3, ReverseDistinct
  <2>2. Distinct(m, Coords) /\ ToSet(m) \cap P = {}
    <3>1. Distinct(store.access_order, Coords)
      BY StoreFacts
    <3>2. Distinct(m, Coords) /\ ToSet(m) = ToSet(store.access_order) \ P
      BY <3>1, MinusFacts
    <3> QED BY <3>2
  <2> HIDE DEF r, m
  <2>3. ToSet(r) \cap ToSet(m) = {}
    BY <2>1, <2>2
  <2>4. Distinct(r \o m, Coords)
    BY ONLY <2>1, <2>2, <2>3, ConcatDistinct
  <2> QED BY <2>4 DEF r, m
<1> HIDE DEF acc
<1>7. S.chunks = g /\ S.dirty_chunks = dirty
  BY StoreParts
<1>8. Ordered(S)
  <2>1. g = [d \in DOMAIN g |-> g[d]]
    BY <1>4 DEF Shaped
  <2> QED BY <1>5, <1>6, <2>1, OrderedStore
<1> HIDE DEF S
<1>9. /\ Ordered(Evicted(S)) /\ Evicted(S).dirty_chunks = dirty
      /\ Shaped(Evicted(S).chunks) /\ Trim(Evicted(S).chunks, g)
  <2>1. Limit
    BY DEF Typed
  <2> QED BY <1>4, <1>7, <1>8, <2>1, EvictedTrim DEF Limit
<1>10. edit' = EditOf("relight", <<>>, <<>>, to, {}, 0)
  <2> HIDE DEF to
  <2> DEFINE A == [NoEdit EXCEPT !.phase = "relight"]
  <2>1. edit' = [A EXCEPT !.to_process = to]
    BY <1>2
  <2>2. A = EditOf("relight", <<>>, <<>>, {}, {}, 0)
    BY NoEditIs, EditAt
  <2> HIDE DEF A
  <2> QED BY <2>1, <2>2 DEF EditOf
<1>11. to = store'.dirty_chunks \cap DOMAIN store'.chunks
  BY <1>2, <1>7, <1>9
<1>12. edit.phase = "filling"
  BY DEF Finalize
<1> HIDE DEF to
<1> QED BY <1>2, <1>9, <1>10, <1>11, <1>12 DEF g, P

\* One chunk of a round: only its light changes, and its neighbours follow if it did.
LEMMA RelightDoes ==
  ASSUME Typed, NEW c, Relight(c)
  PROVE  /\ Ordered(store') /\ Shaped(store'.chunks) /\ store'.dirty_chunks = store.dirty_chunks
         /\ store'.chunks = Relit(store.chunks, c)
         /\ DOMAIN store'.chunks = DOMAIN store.chunks
         /\ \A d \in DOMAIN store.chunks : store'.chunks[d].section = store.chunks[d].section
         /\ edit' = EditOf(edit.phase, edit.pending_chunks, edit.pending_access_order,
                           edit.to_process \ {c},
                           IF store'.chunks = store.chunks THEN edit.next_round
                           ELSE edit.next_round \cup ({c - 1, c + 1} \cap DOMAIN store.chunks),
                           edit.round)
         /\ edit'.pending_chunks = edit.pending_chunks
<1> DEFINE h == Relit(store.chunks, c)
           n == IF h = store.chunks THEN edit.next_round
                ELSE edit.next_round \cup ({c - 1, c + 1} \cap DOMAIN h)
           m == edit.to_process \ {c}
           S == StoreOf(h, store.dirty_chunks, store.access_order, store.insertion_order)
           A == [edit EXCEPT !.to_process = m]
           B == [A EXCEPT !.next_round = n]
           E == EditOf(edit.phase, edit.pending_chunks, edit.pending_access_order, m, n, edit.round)
<1>1. Shaped(store.chunks)
  BY DEF Typed
<1>2. /\ Shaped(h) /\ DOMAIN h = DOMAIN store.chunks
      /\ \A d \in DOMAIN store.chunks : h[d].section = store.chunks[d].section
  BY <1>1, RelitFacts
<1>3. store' = [store EXCEPT !.chunks = h] /\ edit' = B
  BY DEF Relight
<1> HIDE DEF h
<1>4. store' = S
  BY <1>3, StoreFacts DEF StoreOf
<1>5. Ordered(S) /\ S.chunks = h /\ S.dirty_chunks = store.dirty_chunks
  <2>1. h = [d \in DOMAIN h |-> h[d]]
    BY <1>2 DEF Shaped
  <2>2. Distinct(store.access_order, Coords) /\ Distinct(store.insertion_order, Coords)
        /\ ToSet(store.insertion_order) = DOMAIN h
    BY <1>2, StoreFacts
  <2>3. Ordered(S)
    BY <2>1, <2>2, OrderedStore
  <2> QED BY <2>3, StoreParts
<1> HIDE DEF S
<1>6. edit' = E
  <2>1. edit = EditOf(edit.phase, edit.pending_chunks, edit.pending_access_order, edit.to_process,
                      edit.next_round, edit.round)
    BY DEF Typed, TypedEdit
  <2> HIDE DEF n, m
  <2>2. A = EditOf(edit.phase, edit.pending_chunks, edit.pending_access_order, m,
                      edit.next_round, edit.round)
    BY <2>1 DEF EditOf
  <2> HIDE DEF A
  <2>3. B = E
    BY <2>2 DEF EditOf
  <2> QED BY <1>3, <2>3
<1>7. edit'.pending_chunks = edit.pending_chunks
  <2> HIDE DEF n, m
  <2> QED BY <1>6, EditParts
<1> QED BY <1>2, <1>4, <1>5, <1>6, <1>7 DEF h

\* Only the dirty chunks are forgotten.
LEMMA CleanStore ==
  ASSUME Typed, NEW d
  PROVE  /\ Ordered([store EXCEPT !.dirty_chunks = d]) /\ Shaped([store EXCEPT !.dirty_chunks = d].chunks)
         /\ [store EXCEPT !.dirty_chunks = d].chunks = store.chunks
<1> DEFINE A == [store EXCEPT !.dirty_chunks = d]
           S == StoreOf(store.chunks, d, store.access_order, store.insertion_order)
<1>1. A = S
  BY StoreFacts DEF StoreOf
<1>2. Ordered(S) /\ S.chunks = store.chunks
  <2>1. store.chunks = [c \in DOMAIN store.chunks |-> store.chunks[c]]
    BY StoreFacts DEF Shaped
  <2>2. Distinct(store.access_order, Coords) /\ Distinct(store.insertion_order, Coords)
        /\ ToSet(store.insertion_order) = DOMAIN store.chunks
    BY StoreFacts
  <2>3. Ordered(S)
    BY <2>1, <2>2, OrderedStore
  <2> QED BY <2>3, StoreParts
<1> QED BY <1>1, <1>2, StoreFacts

\* The next round takes up what this one has left.
LEMMA NextRoundDoes ==
  ASSUME Typed, NextRound
  PROVE  edit' = EditOf(edit.phase, edit.pending_chunks, edit.pending_access_order,
                        edit.next_round, {}, edit.round + 1)
<1> DEFINE n == edit.next_round
           r == edit.round + 1
           A == [edit EXCEPT !.to_process = n]
           B == [A EXCEPT !.next_round = {}]
           C == [B EXCEPT !.round = r]
<1>1. edit' = C
  BY DEF NextRound
<1>2. edit = EditOf(edit.phase, edit.pending_chunks, edit.pending_access_order, edit.to_process,
                    edit.next_round, edit.round)
  BY DEF Typed, TypedEdit
<1> HIDE DEF n, r
<1>3. A = EditOf(edit.phase, edit.pending_chunks, edit.pending_access_order, n,
                 edit.next_round, edit.round)
  BY <1>2 DEF EditOf
<1> HIDE DEF A
<1>4. B = EditOf(edit.phase, edit.pending_chunks, edit.pending_access_order, n, {}, edit.round)
  BY <1>3 DEF EditOf
<1> HIDE DEF B
<1>5. C = EditOf(edit.phase, edit.pending_chunks, edit.pending_access_order, n, {}, r)
  BY <1>4 DEF EditOf
<1> QED BY <1>1, <1>5 DEF n, r

\* The bulk edit goes on, with the chunks it has.
LEMMA SameChunks ==
  ASSUME NEW e, TypedEdit(e), NEW p, NEW n, NEW m, NEW r
  PROVE  TypedEdit(EditOf(p, e.pending_chunks, e.pending_access_order, n, m, r))
<1> DEFINE q == e.pending_chunks
           o == e.pending_access_order
           E == EditOf(p, q, o, n, m, r)
<1>1. Shaped(q) /\ Distinct(o, Coords) /\ ToSet(o) = DOMAIN q
  BY DEF TypedEdit
<1> HIDE DEF q, o
<1>2. /\ E.phase = p /\ E.pending_chunks = q /\ E.pending_access_order = o
      /\ E.to_process = n /\ E.next_round = m /\ E.round = r
  BY EditParts
<1>3. E = EditOf(E.phase, E.pending_chunks, E.pending_access_order, E.to_process, E.next_round, E.round)
  BY <1>2
<1> HIDE DEF E
<1>4. TypedEdit(E)
  BY <1>1, <1>2, <1>3 DEF TypedEdit
<1> QED BY <1>4 DEF E, q, o

\* A bulk edit begins without pending chunks.
LEMMA StartedEdit ==
  ASSUME StartBulkEdit
  PROVE  edit' = EditOf("filling", <<>>, <<>>, {}, {}, 0)
  BY NoEditIs, EditAt DEF StartBulkEdit

\* The empty store is in order.
LEMMA TypedInit == Init => Typed
<1> SUFFICES ASSUME Init PROVE Typed
  OBVIOUS
<1>1. store = StoreOf(<<>>, {}, <<>>, <<>>)
  BY DEF Init, EmptyStore, StoreOf
<1>2. store.chunks = <<>> /\ store.dirty_chunks = {} /\ store.access_order = <<>>
      /\ store.insertion_order = <<>>
  BY <1>1, StoreParts
<1>3. store.chunks = [c \in DOMAIN store.chunks |-> store.chunks[c]]
  BY <1>2, EmptyTable DEF Shaped
<1>4. Ordered(store) /\ Shaped(store.chunks)
  BY <1>1, <1>2, <1>3, EmptyTable DEF Ordered
<1>5. max_chunks = Unlimited
  BY DEF Init
<1>6. saved = <<>> /\ Shaped(saved) /\ DOMAIN saved = {}
  BY EmptyTable DEF Init
<1>7. TypedEdit(edit)
  BY NoEditIs, FreshEdit DEF Init
<1>8. IsFiniteSet({})
  BY FS_EmptySet
<1> QED BY <1>4, <1>5, <1>6, <1>7, <1>8 DEF Typed, Limit

\* Every operation keeps the store in order.
LEMMA TypedStep == Typed /\ [Next]_vars => Typed'
<1> SUFFICES ASSUME Typed, [Next]_vars PROVE Typed'
  OBVIOUS
<1>1. /\ Ordered(store) /\ Shaped(store.chunks) /\ Limit /\ Shaped(saved)
      /\ DOMAIN saved \subseteq Coords /\ IsFiniteSet(DOMAIN saved) /\ TypedEdit(edit)
  BY DEF Typed
<1>a. ASSUME Ordered(store'), Shaped(store'.chunks), TypedEdit(edit'),
             UNCHANGED <<max_chunks, saved>>
      PROVE  Typed'
  <2>1. Limit'
    BY <1>1, <1>a DEF Limit
  <2>2. Shaped(saved') /\ DOMAIN saved' \subseteq Coords /\ IsFiniteSet(DOMAIN saved')
    BY <1>1, <1>a
  <2> QED BY <1>a, <2>1, <2>2 DEF Typed
<1>2. ASSUME NEW c \in Coords, NEW f \in Fills, LoadChunk(c, f)
      PROVE  Typed'
  <2>1. Ordered(store') /\ Shaped(store'.chunks)
    BY <1>2, LoadChunkDoes
  <2>2. UNCHANGED <<max_chunks, saved>> /\ edit' = edit
    BY <1>2 DEF LoadChunk
  <2> QED BY <1>1, <1>a, <2>1, <2>2
<1>3. ASSUME NEW c \in Coords, NEW i \in Sites, NEW id \in Ids, SetBlock(c, i, id)
      PROVE  Typed'
  <2>1. Ordered(store') /\ Shaped(store'.chunks)
    BY <1>3, SetBlockDoes
  <2>2. UNCHANGED <<max_chunks, saved>> /\ edit' = edit
    BY <1>3 DEF SetBlock
  <2> QED BY <1>1, <1>a, <2>1, <2>2
<1>4. ASSUME NEW c \in Coords, UnloadChunk(c)
      PROVE  Typed'
  <2>1. Ordered(store') /\ Shaped(store'.chunks)
    BY <1>4, UnloadChunkDoes
  <2>2. UNCHANGED <<max_chunks, saved>> /\ edit' = edit
    BY <1>4 DEF UnloadChunk
  <2> QED BY <1>1, <1>a, <2>1, <2>2
<1>5. ASSUME NEW c \in Coords, GetOrGenerateChunk(c)
      PROVE  Typed'
  <2>1. Ordered(store') /\ Shaped(store'.chunks)
    BY <1>5, GetOrGenerateChunkDoes
  <2>2. UNCHANGED <<max_chunks, saved>> /\ edit' = edit
    BY <1>5 DEF GetOrGenerateChunk
  <2> QED BY <1>1, <1>a, <2>1, <2>2
<1>6. ASSUME NEW n \in Limits, SetMaxChunks(n)
      PROVE  Typed'
  <2>1. max_chunks' \in Nat \/ max_chunks' = Unlimited
    BY <1>6, StoreAssumption DEF SetMaxChunks
  <2>2. UNCHANGED <<store, saved, edit>>
    BY <1>6 DEF SetMaxChunks
  <2> QED BY <1>1, <2>1, <2>2 DEF Typed, Limit
<1>7. CASE SaveAll
  <2>1. saved' = Joined(saved, store.chunks) /\ UNCHANGED <<store, max_chunks, edit>>
    BY <1>7 DEF SaveAll, Joined
  <2>2. Shaped(saved') /\ DOMAIN saved' = DOMAIN saved \cup DOMAIN store.chunks
    BY <1>1, <2>1, JoinedFacts
  <2>3. DOMAIN store.chunks \subseteq Coords /\ IsFiniteSet(DOMAIN store.chunks)
    BY StoreFacts
  <2>4. DOMAIN saved' \subseteq Coords /\ IsFiniteSet(DOMAIN saved')
    BY <1>1, <2>2, <2>3, FS_Union
  <2> QED BY <1>1, <2>1, <2>2, <2>4 DEF Typed, Limit
<1>8. CASE LoadAll
  <2>1. Ordered(store') /\ Shaped(store'.chunks)
    BY <1>8, LoadAllDoes
  <2>2. UNCHANGED <<max_chunks, saved>> /\ edit' = edit
    BY <1>8 DEF LoadAll
  <2> QED BY <1>1, <1>a, <2>1, <2>2
<1>9. CASE TakeDirtyChunks
  <2>1. Ordered(store') /\ Shaped(store'.chunks)
    BY <1>9, CleanStore DEF TakeDirtyChunks
  <2>2. UNCHANGED <<max_chunks, saved>> /\ edit' = edit
    BY <1>9 DEF TakeDirtyChunks
  <2> QED BY <1>1, <1>a, <2>1, <2>2
<1>10. CASE StartBulkEdit
  <2>1. TypedEdit(edit')
    BY <1>10, StartedEdit, FreshEdit
  <2>2. UNCHANGED <<max_chunks, saved>> /\ store' = store
    BY <1>10 DEF StartBulkEdit
  <2> QED BY <1>1, <1>a, <2>1, <2>2
<1>11. CASE Abort
  <2>1. TypedEdit(edit')
    BY <1>11, NoEditIs, FreshEdit DEF Abort
  <2>2. UNCHANGED <<max_chunks, saved>> /\ store' = store
    BY <1>11 DEF Abort
  <2> QED BY <1>1, <1>a, <2>1, <2>2
<1>12. CASE Finalize
  <2>1. Ordered(store') /\ Shaped(store'.chunks) /\ TypedEdit(edit')
    BY <1>12, FinalizeDoes, FreshEdit
  <2>2. UNCHANGED <<max_chunks, saved>>
    BY <1>12 DEF Finalize
  <2> QED BY <1>a, <2>1, <2>2
<1>13. CASE NextRound
  <2>1. TypedEdit(edit')
    BY <1>1, <1>13, NextRoundDoes, SameChunks
  <2>2. UNCHANGED <<max_chunks, saved>> /\ store' = store
    BY <1>13 DEF NextRound
  <2> QED BY <1>1, <1>a, <2>1, <2>2
<1>14. CASE FinalizeReturns
  <2>1. Ordered(store') /\ Shaped(store'.chunks) /\ TypedEdit(edit')
    BY <1>14, CleanStore, NoEditIs, FreshEdit DEF FinalizeReturns
  <2>2. UNCHANGED <<max_chunks, saved>>
    BY <1>14 DEF FinalizeReturns
  <2> QED BY <1>a, <2>1, <2>2
<1>15. ASSUME NEW c \in Coords, NEW f \in Fills, FillChunk(c, f)
       PROVE  Typed'
  <2>1. TypedEdit(edit')
    BY <1>15, FillChunkDoes
  <2>2. UNCHANGED <<max_chunks, saved>> /\ store' = store
    BY <1>15 DEF FillChunk
  <2> QED BY <1>1, <1>a, <2>1, <2>2
<1>16. ASSUME NEW c \in edit.to_process, Relight(c)
       PROVE  Typed'
  <2>1. Ordered(store') /\ Shaped(store'.chunks)
    BY <1>16, RelightDoes
  <2>2. TypedEdit(edit')
    <3>1. PICK m, n : edit' = EditOf(edit.phase, edit.pending_chunks, edit.pending_access_order,
                                     m, n, edit.round)
      BY <1>16, RelightDoes
    <3>2. TypedEdit(edit)
      BY <1>1
    <3> QED BY <3>1, <3>2, SameChunks
  <2>3. UNCHANGED <<max_chunks, saved>>
    BY <1>16 DEF Relight
  <2> QED BY <1>a, <2>1, <2>2, <2>3
<1>17. CASE UNCHANGED vars
  <2>1. store' = store /\ edit' = edit /\ UNCHANGED <<max_chunks, saved>>
    BY <1>17 DEF vars
  <2> QED BY <1>1, <1>a, <2>1
<1> QED BY <1>2, <1>3, <1>4, <1>5, <1>6, <1>7, <1>8, <1>9, <1>10, <1>11, <1>12, <1>13, <1>14,
           <1>15, <1>16, <1>17 DEF Next, BulkEdit

\* In every state the store, the saved chunks and the bulk edit have their shape, and the two
\* orders list chunks without repetition (chunk_store.rs:27-58).
THEOREM StoreTyped == Spec => []Typed
  BY TypedInit, TypedStep, PTL DEF Spec

\* The order of insertion lists the loaded chunks, each once, whatever evict_lru, unload_chunk,
\* load_all and finalize do (chunk_store.rs:145-189, 475-541).
THEOREM StoreOrderIsLoaded == Spec => []OrderIsLoaded
<1>1. Typed => OrderIsLoaded
  BY DistinctFacts DEF Typed, Ordered, OrderIsLoaded
<1> QED BY <1>1, StoreTyped, PTL

----------------------------------------------------------------------------
(* The table of blocks                                                     *)

\* Every section that is kept is sound.
AllSound(f) == \A c \in DOMAIN f : Sound(f[c].section)
SoundStore == AllSound(store.chunks) /\ AllSound(saved) /\ AllSound(edit.pending_chunks)

\* What fill_chunk and load_chunk are given fits into the widths of fill_blocks.
FillsFit == \A f \in Fills : Fits(f)

\* No chunk, no unsound section.
LEMMA NoneSound == AllSound(<<>>)
  BY EmptyTable DEF AllSound

\* Forgetting chunks keeps the others sound.
LEMMA TrimSound ==
  ASSUME NEW f, NEW g, Trim(g, f), AllSound(f)
  PROVE  AllSound(g)
  BY DEF AllSound, Trim

\* A sound section is put in.
LEMMA PutsSound ==
  ASSUME NEW in, NEW c, NEW s, NEW l, Puts(in, c, s, l), AllSound(store.chunks), Sound(s)
  PROVE  AllSound(in)
<1> SUFFICES ASSUME NEW d \in DOMAIN in PROVE Sound(in[d].section)
  BY DEF AllSound
<1>1. CASE d = c
  BY <1>1 DEF Puts
<1>2. CASE d # c
  <2>1. d \in DOMAIN store.chunks /\ in[d] = store.chunks[d]
    BY <1>2 DEF Puts
  <2> QED BY <2>1 DEF AllSound
<1> QED BY <1>1, <1>2

\* Sound sections are put over sound ones.
LEMMA JoinedSound ==
  ASSUME NEW f, NEW g, Shaped(f), Shaped(g), AllSound(f), AllSound(g)
  PROVE  AllSound(Joined(f, g))
<1> SUFFICES ASSUME NEW d \in DOMAIN Joined(f, g) PROVE Sound(Joined(f, g)[d].section)
  BY DEF AllSound
<1>1. d \in DOMAIN f \cup DOMAIN g
  BY JoinedFacts
<1>2. CASE d \in DOMAIN g
  <2>1. Joined(f, g)[d] = g[d]
    BY <1>2 DEF Joined
  <2> QED BY <1>2, <2>1 DEF AllSound
<1>3. CASE d \in DOMAIN f \ DOMAIN g
  <2>1. Joined(f, g)[d] = f[d]
    BY <1>3 DEF Joined
  <2> QED BY <1>3, <2>1 DEF AllSound
<1> QED BY <1>1, <1>2, <1>3

\* The sections that operations put in.
LEMMA FillSound ==
  ASSUME FillsFit, NEW f \in Fills
  PROVE  f \in [Cells -> Ids] /\ Sound(Filled(f)) /\ Blocks(Filled(f)) = f
<1>1. f \in [Cells -> Ids] /\ Fits(f)
  BY StoreAssumption DEF FillsFit
<1> QED BY <1>1, FilledBlocks

\* What is generated is sound.
LEMMA GeneratedSound ==
  Sound(Generation(Generated)) /\ Blocks(Generation(Generated)) = Generated
<1>1. Generated \in [Cells -> Ids]
  BY StoreAssumption
<1> QED BY <1>1, GeneratedBlocks

----------------------------------------------------------------------------
(* The table that the store implements                                     *)

\* The blocks of the chunks of a table.
LEMMA BlocksOfFacts ==
  ASSUME NEW f
  PROVE  /\ DOMAIN BlocksOf(f) = DOMAIN f
         /\ \A c \in DOMAIN f : BlocksOf(f)[c] = Blocks(f[c].section)
         /\ BlocksOf(f) = [c \in DOMAIN f |-> Blocks(f[c].section)]
  BY DEF BlocksOf

\* The blocks of no chunk.
LEMMA NoBlocks == BlocksOf(<<>>) = <<>>
<1>1. DOMAIN <<>> = {} /\ <<>> = [c \in {} |-> <<>>[c]]
  OBVIOUS
<1>2. BlocksOf(<<>>) = [c \in {} |-> Blocks(<<>>[c].section)]
  BY <1>1 DEF BlocksOf
<1> QED BY <1>1, <1>2

\* The same sections are the same blocks.
LEMMA SameBlocks ==
  ASSUME NEW f, NEW g, DOMAIN f = DOMAIN g, \A c \in DOMAIN g : f[c].section = g[c].section
  PROVE  BlocksOf(f) = BlocksOf(g)
  BY DEF BlocksOf

\* The blocks after a chunk is put in.
LEMMA PutsBlocks ==
  ASSUME NEW in, NEW c, NEW s, NEW l, Puts(in, c, s, l)
  PROVE  BlocksOf(in) = Table!Over([k \in {c} |-> Blocks(s)], BlocksOf(store.chunks))
<1> DEFINE t == BlocksOf(store.chunks)
           b == Blocks(s)
           one == [k \in {c} |-> b]
           Block(d) == Blocks(in[d].section)
<1>1. BlocksOf(in) = [d \in DOMAIN in |-> Block(d)]
  BY BlocksOfFacts
<1>2. DOMAIN in = {c} \cup DOMAIN store.chunks /\ Block(c) = b
  BY DEF Puts
<1>3. \A d \in DOMAIN store.chunks : d # c => Block(d) = t[d]
  BY BlocksOfFacts DEF Puts
<1>4. DOMAIN t = DOMAIN store.chunks
  BY BlocksOfFacts
<1> HIDE DEF t, b, Block
<1>5. DOMAIN one = {c} /\ one[c] = b
  OBVIOUS
<1> HIDE DEF one
<1>6. Table!Over(one, t) = [d \in DOMAIN one \cup DOMAIN t |-> IF d \in DOMAIN one THEN one[d] ELSE t[d]]
  BY DEF Table!Over
<1>7. BlocksOf(in) = Table!Over(one, t)
  BY <1>1, <1>2, <1>3, <1>4, <1>5, <1>6
<1> QED BY <1>7 DEF one, t, b

Overwritten(t, c, i, id) == [t EXCEPT ![c][i] = id]

\* The blocks after one is written: no other block changes.
LEMMA PutsWritten ==
  ASSUME NEW in, NEW c \in DOMAIN store.chunks, NEW i \in Cells, NEW id \in Ids,
         AllSound(store.chunks), NEW l, Puts(in, c, WithBlock(store.chunks[c].section, i, id), l)
  PROVE  BlocksOf(in) = Overwritten(BlocksOf(store.chunks), c, i, id)
<1> DEFINE t == BlocksOf(store.chunks)
           b == [t[c] EXCEPT ![i] = id]
           Block(d) == Blocks(in[d].section)
<1>1. BlocksOf(in) = [d \in DOMAIN in |-> Block(d)]
  BY BlocksOfFacts
<1>2. DOMAIN in = DOMAIN store.chunks
  BY DEF Puts
<1>3. \A d \in DOMAIN store.chunks : d # c => Block(d) = t[d]
  BY BlocksOfFacts DEF Puts
<1>4. t = [d \in DOMAIN store.chunks |-> t[d]]
  BY BlocksOfFacts
<1>5. Block(c) = b
  <2>1. Block(c) = Blocks(WithBlock(store.chunks[c].section, i, id))
    BY DEF Puts
  <2>2. Sound(store.chunks[c].section)
    BY DEF AllSound
  <2>3. Block(c) = [Blocks(store.chunks[c].section) EXCEPT ![i] = id]
    BY <2>1, <2>2, BlockWritten
  <2>4. t[c] = Blocks(store.chunks[c].section)
    BY BlocksOfFacts
  <2> QED BY <2>3, <2>4
<1>6. [t EXCEPT ![c][i] = id] = [t EXCEPT ![c] = b]
  OBVIOUS
<1> HIDE DEF t, b, Block
<1>7. [t EXCEPT ![c] = b] = [d \in DOMAIN store.chunks |-> IF d = c THEN b ELSE t[d]]
  BY <1>4
<1>8. BlocksOf(in) = [d \in DOMAIN store.chunks |-> IF d = c THEN b ELSE t[d]]
  BY <1>1, <1>2, <1>3, <1>5
<1>9. BlocksOf(in) = [t EXCEPT ![c][i] = id]
  BY <1>6, <1>7, <1>8
<1> QED BY <1>9 DEF t, Overwritten

\* The blocks after chunks are put over others.
LEMMA JoinedBlocks ==
  ASSUME NEW f, NEW g, Shaped(f), Shaped(g)
  PROVE  BlocksOf(Joined(f, g)) = Table!Over(BlocksOf(g), BlocksOf(f))
<1> DEFINE h == Joined(f, g)
           t == BlocksOf(f)
           u == BlocksOf(g)
           Block(d) == Blocks(h[d].section)
<1>1. BlocksOf(h) = [d \in DOMAIN h |-> Block(d)]
  BY BlocksOfFacts
<1>2. DOMAIN h = DOMAIN f \cup DOMAIN g /\ DOMAIN t = DOMAIN f /\ DOMAIN u = DOMAIN g
  BY JoinedFacts, BlocksOfFacts
<1>3. \A d \in DOMAIN g : Block(d) = u[d]
  BY DEF Joined, BlocksOf
<1>4. \A d \in DOMAIN f \ DOMAIN g : Block(d) = t[d]
  BY DEF Joined, BlocksOf
<1> HIDE DEF Block, h, t, u
<1>5. Table!Over(u, t) = [d \in DOMAIN u \cup DOMAIN t |-> IF d \in DOMAIN u THEN u[d] ELSE t[d]]
  BY DEF Table!Over
<1>6. BlocksOf(h) = Table!Over(u, t)
  BY <1>1, <1>2, <1>3, <1>4, <1>5
<1> QED BY <1>6 DEF h, t, u

\* evict_lru, seen from the table of blocks.
LEMMA TableTrimmed ==
  ASSUME NEW in, Trim(store'.chunks, in)
  PROVE  Table!Trimmed(BlocksOf(in))
<1> DEFINE g == store'.chunks
           u == BlocksOf(g)
           t == BlocksOf(in)
<1>1. /\ DOMAIN g \subseteq DOMAIN in /\ \A c \in DOMAIN g : g[c] = in[c]
      /\ Cardinality(DOMAIN g) =
           IF max_chunks = Unlimited \/ Cardinality(DOMAIN in) <= max_chunks
           THEN Cardinality(DOMAIN in) ELSE max_chunks
  BY DEF Trim
<1>2. DOMAIN u = DOMAIN g /\ DOMAIN t = DOMAIN in
  BY BlocksOfFacts
<1>3. \A c \in DOMAIN g : c \in DOMAIN t /\ u[c] = t[c]
  BY <1>1, <1>2, BlocksOfFacts
<1>4. (BlocksOf(store.chunks))' = u
  OBVIOUS
<1>5. \A S : Table!Cardinality(S) = Cardinality(S)
  BY DEF Cardinality, Table!Cardinality
<1> HIDE DEF u, t, g
<1>6. Cardinality(DOMAIN u) = IF max_chunks = Unlimited \/ Cardinality(DOMAIN t) <= max_chunks
                             THEN Cardinality(DOMAIN t) ELSE max_chunks
  BY <1>1, <1>2
<1>7. Table!Trimmed(t)
  BY <1>2, <1>3, <1>4, <1>5, <1>6 DEF Table!Trimmed
<1> QED BY <1>7 DEF t

----------------------------------------------------------------------------
(* Every section that is kept                                              *)

\* The empty store is sound.
LEMMA SoundInit == Init => SoundStore
<1> SUFFICES ASSUME Init PROVE SoundStore
  OBVIOUS
<1>1. edit.pending_chunks = <<>>
  BY NoEditIs, EditParts DEF Init
<1>2. store.chunks = <<>> /\ saved = <<>>
  BY DEF Init, EmptyStore
<1> QED BY <1>1, <1>2, NoneSound DEF SoundStore

\* Every operation keeps all sections sound.
LEMMA SoundStep ==
  ASSUME FillsFit
  PROVE  Typed /\ SoundStore /\ [Next]_vars => SoundStore'
<1> SUFFICES ASSUME Typed, SoundStore, [Next]_vars PROVE SoundStore'
  OBVIOUS
<1>1. AllSound(store.chunks) /\ AllSound(saved) /\ AllSound(edit.pending_chunks)
  BY DEF SoundStore
<1>2. Shaped(store.chunks) /\ Shaped(saved) /\ Shaped(edit.pending_chunks)
  BY DEF Typed, TypedEdit
<1>3. ASSUME NEW c \in Coords, NEW f \in Fills, LoadChunk(c, f)
      PROVE  SoundStore'
  <2>1. PICK in : Puts(in, c, Filled(f), LitFor(c, Filled(f))) /\ Trim(store'.chunks, in)
    BY <1>3, LoadChunkDoes
  <2>2. AllSound(store'.chunks)
    BY <1>1, <2>1, FillSound, PutsSound, TrimSound
  <2>3. UNCHANGED <<saved, edit>>
    BY <1>3 DEF LoadChunk
  <2> QED BY <1>1, <2>2, <2>3 DEF SoundStore
<1>4. ASSUME NEW c \in Coords, NEW i \in Sites, NEW id \in Ids, SetBlock(c, i, id)
      PROVE  SoundStore'
  <2>1. PICK in, l : Puts(in, c, WithBlock(store.chunks[c].section, i, id), l) /\ Trim(store'.chunks, in)
    BY <1>4, SetBlockDoes
  <2>2. c \in DOMAIN store.chunks /\ i \in Cells
    BY <1>4, StoreAssumption DEF SetBlock
  <2>3. Sound(store.chunks[c].section)
    BY <1>1, <2>2 DEF AllSound
  <2>4. Sound(WithBlock(store.chunks[c].section, i, id))
    BY <2>2, <2>3, BlockWritten
  <2>5. AllSound(store'.chunks)
    BY <1>1, <2>1, <2>4, PutsSound, TrimSound
  <2>6. UNCHANGED <<saved, edit>>
    BY <1>4 DEF SetBlock
  <2> QED BY <1>1, <2>5, <2>6 DEF SoundStore
<1>5. ASSUME NEW c \in Coords, UnloadChunk(c)
      PROVE  SoundStore'
  <2>1. AllSound(store'.chunks)
    BY <1>1, <1>5, UnloadChunkDoes DEF AllSound
  <2>2. UNCHANGED <<saved, edit>>
    BY <1>5 DEF UnloadChunk
  <2> QED BY <1>1, <2>1, <2>2 DEF SoundStore
<1>6. ASSUME NEW c \in Coords, GetOrGenerateChunk(c)
      PROVE  SoundStore'
  <2>1. \/ store'.chunks = store.chunks
        \/ \E in : Puts(in, c, Generation(Generated), NewLight) /\ Trim(store'.chunks, in)
    BY <1>6, GetOrGenerateChunkDoes
  <2>2. AllSound(store'.chunks)
    BY <1>1, <2>1, GeneratedSound, PutsSound, TrimSound
  <2>3. UNCHANGED <<saved, edit>>
    BY <1>6 DEF GetOrGenerateChunk
  <2> QED BY <1>1, <2>2, <2>3 DEF SoundStore
<1>7. ASSUME NEW n \in Limits, SetMaxChunks(n)
      PROVE  SoundStore'
  BY <1>1, <1>7 DEF SetMaxChunks, SoundStore
<1>8. CASE SaveAll
  <2>1. saved' = Joined(saved, store.chunks) /\ UNCHANGED <<store, edit>>
    BY <1>8 DEF SaveAll, Joined
  <2>2. AllSound(saved')
    BY <1>1, <1>2, <2>1, JoinedSound
  <2> QED BY <1>1, <2>1, <2>2 DEF SoundStore
<1>9. CASE LoadAll
  <2>1. store'.chunks = Joined(store.chunks, saved)
    BY <1>9, LoadAllDoes
  <2>2. AllSound(store'.chunks)
    BY <1>1, <1>2, <2>1, JoinedSound
  <2>3. UNCHANGED <<saved, edit>>
    BY <1>9 DEF LoadAll
  <2> QED BY <1>1, <2>2, <2>3 DEF SoundStore
<1>10. CASE TakeDirtyChunks
  <2>1. store'.chunks = store.chunks
    BY <1>10, CleanStore DEF TakeDirtyChunks
  <2> QED BY <1>1, <1>10, <2>1 DEF TakeDirtyChunks, SoundStore
<1>11. CASE StartBulkEdit
  <2>1. edit'.pending_chunks = <<>>
    BY <1>11, StartedEdit, EditParts
  <2>2. UNCHANGED <<store, saved>>
    BY <1>11 DEF StartBulkEdit
  <2> QED BY <1>1, <2>1, <2>2, NoneSound DEF SoundStore
<1>12. CASE Abort
  <2>1. edit'.pending_chunks = <<>>
    BY <1>12, NoEditIs, EditParts DEF Abort
  <2>2. UNCHANGED <<store, saved>>
    BY <1>12 DEF Abort
  <2> QED BY <1>1, <2>1, <2>2, NoneSound DEF SoundStore
<1>13. CASE Finalize
  <2>1. Trim(store'.chunks, Joined(store.chunks, edit.pending_chunks)) /\ edit'.pending_chunks = <<>>
    BY <1>13, FinalizeDoes, EditParts
  <2>2. AllSound(Joined(store.chunks, edit.pending_chunks))
    BY <1>1, <1>2, JoinedSound
  <2>3. AllSound(store'.chunks)
    BY <2>1, <2>2, TrimSound
  <2>4. UNCHANGED saved
    BY <1>13 DEF Finalize
  <2> QED BY <1>1, <2>1, <2>3, <2>4, NoneSound DEF SoundStore
<1>14. CASE NextRound
  <2>1. edit'.pending_chunks = edit.pending_chunks
    BY <1>14, NextRoundDoes, EditParts
  <2>2. UNCHANGED <<store, saved>>
    BY <1>14 DEF NextRound
  <2> QED BY <1>1, <2>1, <2>2 DEF SoundStore
<1>15. CASE FinalizeReturns
  <2>1. store'.chunks = store.chunks /\ edit'.pending_chunks = <<>>
    BY <1>15, CleanStore, NoEditIs, EditParts DEF FinalizeReturns
  <2>2. UNCHANGED saved
    BY <1>15 DEF FinalizeReturns
  <2> QED BY <1>1, <2>1, <2>2, NoneSound DEF SoundStore
<1>16. ASSUME NEW c \in Coords, NEW f \in Fills, FillChunk(c, f)
       PROVE  SoundStore'
  <2>1. /\ DOMAIN edit'.pending_chunks = DOMAIN edit.pending_chunks \cup {c}
        /\ edit'.pending_chunks[c].section = Filled(f)
        /\ \A d \in DOMAIN edit.pending_chunks : d # c =>
             edit'.pending_chunks[d] = edit.pending_chunks[d]
    BY <1>16, FillChunkDoes
  <2>2. Sound(Filled(f))
    BY FillSound
  <2>3. AllSound(edit'.pending_chunks)
    <3> SUFFICES ASSUME NEW d \in DOMAIN edit'.pending_chunks
                 PROVE  Sound(edit'.pending_chunks[d].section)
      BY DEF AllSound
    <3>1. CASE d = c
      BY <2>1, <2>2, <3>1
    <3>2. CASE d # c
      BY <1>1, <2>1, <3>2 DEF AllSound
    <3> QED BY <3>1, <3>2
  <2>4. UNCHANGED <<store, saved>>
    BY <1>16 DEF FillChunk
  <2> QED BY <1>1, <2>3, <2>4 DEF SoundStore
<1>17. ASSUME NEW c \in edit.to_process, Relight(c)
       PROVE  SoundStore'
  <2>1. /\ DOMAIN store'.chunks = DOMAIN store.chunks
        /\ \A d \in DOMAIN store.chunks : store'.chunks[d].section = store.chunks[d].section
        /\ edit'.pending_chunks = edit.pending_chunks
    BY <1>17, RelightDoes
  <2>2. AllSound(store'.chunks)
    BY <1>1, <2>1 DEF AllSound
  <2>3. UNCHANGED saved
    BY <1>17 DEF Relight
  <2> QED BY <1>1, <2>1, <2>2, <2>3 DEF SoundStore
<1>18. CASE UNCHANGED vars
  BY <1>1, <1>18 DEF vars, SoundStore
<1> QED BY <1>3, <1>4, <1>5, <1>6, <1>7, <1>8, <1>9, <1>10, <1>11, <1>12, <1>13, <1>14, <1>15,
           <1>16, <1>17, <1>18 DEF Next, BulkEdit

\* The palette, the width and the packed entries of every section that is kept always agree:
\* no entry points beyond the palette (chunk.rs:75-250).
THEOREM SectionsSound ==
  ASSUME FillsFit
  PROVE  Spec => []SoundStore
<1>1. Typed /\ SoundStore /\ [Next]_vars => SoundStore'
  BY SoundStep
<1> QED BY <1>1, SoundInit, StoreTyped, PTL DEF Spec

\* The empty store is the empty table.
LEMMA TableInit == Init => Table!TInit
<1> SUFFICES ASSUME Init PROVE Table!TInit
  OBVIOUS
<1>1. edit.pending_chunks = <<>>
  BY NoEditIs, EditParts DEF Init
<1>2. store.chunks = <<>> /\ saved = <<>> /\ max_chunks = Unlimited
  BY DEF Init, EmptyStore
<1> QED BY <1>1, <1>2, NoBlocks DEF Table!TInit

\* Every step of the store is one of the table, or changes no block.
LEMMA TableStep ==
  ASSUME FillsFit
  PROVE  Typed /\ SoundStore /\ [Next]_vars => [Table!TNext]_(Table!tvars)
<1> SUFFICES ASSUME Typed, SoundStore, [Next]_vars PROVE Table!TNext \/ UNCHANGED Table!tvars
  OBVIOUS
<1> DEFINE table  == BlocksOf(store.chunks)
           draft  == BlocksOf(edit.pending_chunks)
           backup == BlocksOf(saved)
<1>1. AllSound(store.chunks) /\ AllSound(saved) /\ AllSound(edit.pending_chunks)
  BY DEF SoundStore
<1>2. Shaped(store.chunks) /\ Shaped(saved) /\ Shaped(edit.pending_chunks)
  BY DEF Typed, TypedEdit
\* The disjuncts of the table's next-state relation, one for each variable that changes.
<1>a. ASSUME UNCHANGED <<max_chunks, saved, edit>>,
             \/ Table!Restore
             \/ \E c \in Coords : Table!Drop(c)
             \/ \E c \in Coords, blocks \in Fills \cup {Generated} : Table!Put(c, blocks)
             \/ \E c \in Coords, i \in Cells, id \in Ids : Table!Write(c, i, id)
      PROVE  Table!TNext
  BY <1>a DEF Table!TNext
<1>b. ASSUME UNCHANGED <<store, max_chunks, saved>>,
             \/ Table!Abandon
             \/ \E c \in Coords, blocks \in Fills \cup {Generated} : Table!Draft(c, blocks)
      PROVE  Table!TNext
  BY <1>b DEF Table!TNext
<1>c. ASSUME table' = table, draft' = draft, UNCHANGED <<max_chunks, saved>>
      PROVE  UNCHANGED Table!tvars
  BY <1>c DEF Table!tvars
<1>3. ASSUME NEW c \in Coords, NEW f \in Fills, LoadChunk(c, f)
      PROVE  Table!TNext
  <2>1. PICK in : Puts(in, c, Filled(f), LitFor(c, Filled(f))) /\ Trim(store'.chunks, in)
    BY <1>3, LoadChunkDoes
  <2>2. Blocks(Filled(f)) = f
    BY FillSound
  <2>3. BlocksOf(in) = Table!Over([k \in {c} |-> f], table)
    BY <2>1, <2>2, PutsBlocks
  <2>4. Table!Trimmed(BlocksOf(in))
    BY <2>1, TableTrimmed
  <2>5. Table!Put(c, f)
    BY <2>3, <2>4 DEF Table!Put
  <2>6. UNCHANGED <<max_chunks, saved, edit>>
    BY <1>3 DEF LoadChunk
  <2> QED BY <1>a, <2>5, <2>6
<1>4. ASSUME NEW c \in Coords, NEW i \in Sites, NEW id \in Ids, SetBlock(c, i, id)
      PROVE  Table!TNext
  <2>1. PICK in, l : Puts(in, c, WithBlock(store.chunks[c].section, i, id), l) /\ Trim(store'.chunks, in)
    BY <1>4, SetBlockDoes
  <2>2. c \in DOMAIN store.chunks /\ i \in Cells
    BY <1>4, StoreAssumption DEF SetBlock
  <2>3. BlocksOf(in) = Overwritten(table, c, i, id)
    <3>1. AllSound(store.chunks)
      BY <1>1
    <3>2. Puts(in, c, WithBlock(store.chunks[c].section, i, id), l)
      BY <2>1
    <3> QED BY ONLY <2>2, <3>1, <3>2, id \in Ids, PutsWritten
  <2>4. Table!Trimmed(BlocksOf(in))
    BY <2>1, TableTrimmed
  <2>5. c \in DOMAIN table
    BY <2>2, BlocksOfFacts
  <2>6. Table!Write(c, i, id)
    BY <2>3, <2>4, <2>5 DEF Table!Write, Overwritten
  <2>7. UNCHANGED <<max_chunks, saved, edit>>
    BY <1>4 DEF SetBlock
  <2> QED BY <1>a, <2>2, <2>6, <2>7
<1>5. ASSUME NEW c \in Coords, UnloadChunk(c)
      PROVE  Table!TNext
  <2>1. /\ DOMAIN store'.chunks = DOMAIN store.chunks \ {c}
        /\ \A d \in DOMAIN store'.chunks : store'.chunks[d] = store.chunks[d]
    BY <1>5, UnloadChunkDoes
  <2>2. BlocksOf(store'.chunks) = [k \in DOMAIN table \ {c} |-> table[k]]
    BY <2>1 DEF BlocksOf
  <2>3. Table!Drop(c)
    BY <2>2 DEF Table!Drop
  <2>4. UNCHANGED <<max_chunks, saved, edit>>
    BY <1>5 DEF UnloadChunk
  <2> QED BY <1>a, <2>3, <2>4
<1>6. ASSUME NEW c \in Coords, GetOrGenerateChunk(c)
      PROVE  Table!TNext \/ UNCHANGED Table!tvars
  <2>0. UNCHANGED <<max_chunks, saved, edit>>
    BY <1>6 DEF GetOrGenerateChunk
  <2>1. CASE store'.chunks = store.chunks
    BY <1>c, <2>0, <2>1
  <2>2. CASE \E in : Puts(in, c, Generation(Generated), NewLight) /\ Trim(store'.chunks, in)
    <3>1. PICK in : Puts(in, c, Generation(Generated), NewLight) /\ Trim(store'.chunks, in)
      BY <2>2
    <3>2. Blocks(Generation(Generated)) = Generated
      BY GeneratedSound
    <3>3. BlocksOf(in) = Table!Over([k \in {c} |-> Generated], table)
      BY <3>1, <3>2, PutsBlocks
    <3>4. Table!Trimmed(BlocksOf(in))
      BY <3>1, TableTrimmed
    <3>5. Table!Put(c, Generated)
      BY <3>3, <3>4 DEF Table!Put
    <3> QED BY <1>a, <2>0, <3>5
  <2> QED BY <1>6, <2>1, <2>2, GetOrGenerateChunkDoes
<1>7. ASSUME NEW n \in Limits, SetMaxChunks(n)
      PROVE  Table!TNext
  <2>1. max_chunks' \in Nat \cup {Unlimited}
    BY <1>7, StoreAssumption DEF SetMaxChunks
  <2>2. Nat = Table!Nat
    OBVIOUS
  <2>3. UNCHANGED <<store, saved, edit>>
    BY <1>7 DEF SetMaxChunks
  <2> QED BY <2>1, <2>2, <2>3 DEF Table!TNext, Table!SetLimit
<1>8. CASE SaveAll
  <2>1. saved' = Joined(saved, store.chunks) /\ UNCHANGED <<store, max_chunks, edit>>
    BY <1>8 DEF SaveAll, Joined
  <2>2. BlocksOf(saved') = Table!Over(table, backup)
    BY <1>2, <2>1, JoinedBlocks
  <2>3. Table!Save
    BY <2>2 DEF Table!Save
  <2> QED BY <2>1, <2>3 DEF Table!TNext
<1>9. CASE LoadAll
  <2>1. store'.chunks = Joined(store.chunks, saved)
    BY <1>9, LoadAllDoes
  <2>2. BlocksOf(store'.chunks) = Table!Over(backup, table)
    BY <1>2, <2>1, JoinedBlocks
  <2>3. Table!Restore
    BY <2>2 DEF Table!Restore
  <2>4. UNCHANGED <<max_chunks, saved, edit>>
    BY <1>9 DEF LoadAll
  <2> QED BY <1>a, <2>3, <2>4
<1>10. CASE TakeDirtyChunks
  <2>1. store'.chunks = store.chunks
    BY <1>10, CleanStore DEF TakeDirtyChunks
  <2>2. UNCHANGED <<max_chunks, saved, edit>>
    BY <1>10 DEF TakeDirtyChunks
  <2> QED BY <1>c, <2>1, <2>2
<1>11. CASE StartBulkEdit
  <2>1. edit'.pending_chunks = <<>>
    BY <1>11, StartedEdit, EditParts
  <2>2. Table!Abandon
    BY <2>1, NoBlocks DEF Table!Abandon
  <2>3. UNCHANGED <<store, max_chunks, saved>>
    BY <1>11 DEF StartBulkEdit
  <2> QED BY <1>b, <2>2, <2>3
<1>12. CASE Abort
  <2>1. edit'.pending_chunks = <<>>
    BY <1>12, NoEditIs, EditParts DEF Abort
  <2>2. Table!Abandon
    BY <2>1, NoBlocks DEF Table!Abandon
  <2>3. UNCHANGED <<store, max_chunks, saved>>
    BY <1>12 DEF Abort
  <2> QED BY <1>b, <2>2, <2>3
<1>13. CASE Finalize
  <2>1. Trim(store'.chunks, Joined(store.chunks, edit.pending_chunks)) /\ edit'.pending_chunks = <<>>
    BY <1>13, FinalizeDoes, EditParts
  <2>2. BlocksOf(Joined(store.chunks, edit.pending_chunks)) = Table!Over(draft, table)
    BY <1>2, JoinedBlocks
  <2>3. Table!Trimmed(BlocksOf(Joined(store.chunks, edit.pending_chunks)))
    BY <2>1, TableTrimmed
  <2>4. Table!Commit
    BY <2>1, <2>2, <2>3, NoBlocks DEF Table!Commit
  <2>5. UNCHANGED <<max_chunks, saved>>
    BY <1>13 DEF Finalize
  <2> QED BY <2>4, <2>5 DEF Table!TNext
<1>14. CASE NextRound
  <2>1. edit'.pending_chunks = edit.pending_chunks
    BY <1>14, NextRoundDoes, EditParts
  <2>2. UNCHANGED <<store, max_chunks, saved>>
    BY <1>14 DEF NextRound
  <2> QED BY <1>c, <2>1, <2>2
<1>15. CASE FinalizeReturns
  <2>1. store'.chunks = store.chunks /\ edit'.pending_chunks = <<>>
    BY <1>15, CleanStore, NoEditIs, EditParts DEF FinalizeReturns
  <2>2. Table!Abandon /\ table' = table
    BY <2>1, NoBlocks DEF Table!Abandon
  <2>3. UNCHANGED <<max_chunks, saved>>
    BY <1>15 DEF FinalizeReturns
  <2> QED BY <2>2, <2>3 DEF Table!TNext
<1>16. ASSUME NEW c \in Coords, NEW f \in Fills, FillChunk(c, f)
       PROVE  Table!TNext
  <2>1. /\ DOMAIN edit'.pending_chunks = DOMAIN edit.pending_chunks \cup {c}
        /\ edit'.pending_chunks[c].section = Filled(f)
        /\ \A d \in DOMAIN edit.pending_chunks : d # c =>
             edit'.pending_chunks[d] = edit.pending_chunks[d]
    BY <1>16, FillChunkDoes
  <2>2. Blocks(Filled(f)) = f
    BY FillSound
  <2>3. BlocksOf(edit'.pending_chunks) = Table!Over([k \in {c} |-> f], draft)
    <3> DEFINE q == edit.pending_chunks
               p == edit'.pending_chunks
               t == BlocksOf(q)
               one == [k \in {c} |-> f]
    <3>1. BlocksOf(p) = [d \in DOMAIN p |-> Blocks(p[d].section)]
      BY DEF BlocksOf
    <3>2. DOMAIN t = DOMAIN q /\ \A d \in DOMAIN q : d # c => Blocks(p[d].section) = t[d]
      BY <2>1 DEF BlocksOf
    <3>3. DOMAIN one = {c} /\ one[c] = f /\ Blocks(p[c].section) = f
      BY <2>1, <2>2
    <3>4. DOMAIN p = {c} \cup DOMAIN q
      BY <2>1
    <3> HIDE DEF p, q, t, one
    <3>5. Table!Over(one, t) = [d \in DOMAIN one \cup DOMAIN t |->
                                  IF d \in DOMAIN one THEN one[d] ELSE t[d]]
      BY DEF Table!Over
    <3>6. BlocksOf(p) = Table!Over(one, t)
      BY <3>1, <3>2, <3>3, <3>4, <3>5
    <3> QED BY <3>6 DEF p, q, t, one
  <2>4. Table!Draft(c, f)
    BY <2>3 DEF Table!Draft
  <2>5. UNCHANGED <<store, max_chunks, saved>>
    BY <1>16 DEF FillChunk
  <2> QED BY <1>b, <2>4, <2>5
<1>17. ASSUME NEW c \in edit.to_process, Relight(c)
       PROVE  UNCHANGED Table!tvars
  <2>1. /\ DOMAIN store'.chunks = DOMAIN store.chunks
        /\ \A d \in DOMAIN store.chunks : store'.chunks[d].section = store.chunks[d].section
        /\ edit'.pending_chunks = edit.pending_chunks
    BY <1>17, RelightDoes
  <2>2. BlocksOf(store'.chunks) = BlocksOf(store.chunks)
    BY <2>1 DEF BlocksOf
  <2>3. UNCHANGED <<max_chunks, saved>>
    BY <1>17 DEF Relight
  <2> QED BY <1>c, <2>1, <2>2, <2>3
<1>18. CASE UNCHANGED vars
  BY <1>c, <1>18 DEF vars
<1> QED BY <1>3, <1>4, <1>5, <1>6, <1>7, <1>8, <1>9, <1>10, <1>11, <1>12, <1>13, <1>14, <1>15,
           <1>16, <1>17, <1>18 DEF Next, BulkEdit

\* The store implements the table of blocks: growing palettes and repacking entries change no
\* other block, chunks are forgotten only beyond the limit, and a bulk edit is committed at once
\* or not at all (chunk.rs:75-250; chunk_store.rs:145-168, 475-541).
THEOREM StoreImplementsTable ==
  ASSUME FillsFit
  PROVE  Spec => ImplementsTable
<1>1. Typed /\ SoundStore /\ [Next]_vars => [Table!TNext]_(Table!tvars)
  BY TableStep
<1> QED BY <1>1, TableInit, StoreTyped, SectionsSound, PTL DEF Spec, ImplementsTable, Table!TSpec

----------------------------------------------------------------------------
(* The cells of a chunk and their neighbours                               *)

\* The sizes of a chunk, and the levels of light.
LEMMA SidesFacts ==
  /\ Width \in Nat \ {0} /\ Height \in Nat \ {0} /\ MaxLight \in Nat
  /\ Width * Height \in Nat \ {0} /\ Volume = Width * Height /\ Cells = Places
  /\ \A id \in Ids : Emission[id] \in 0 .. MaxLight /\ Opacity[id] \in 0 .. MaxLight
<1>1. /\ Width \in Nat \ {0} /\ Height \in Nat \ {0} /\ MaxLight \in Nat
      /\ \A id \in Ids : Emission[id] \in 0 .. MaxLight /\ Opacity[id] \in 0 .. MaxLight
  BY LightAssumption DEF Ids
<1>2. Volume = Width * Height
  BY StoreAssumption
<1>3. Width * Height \in Nat \ {0}
  BY <1>1
<1> QED BY <1>1, <1>2, <1>3 DEF Cells, Places

\* A cell is given by its column and its row.
LEMMA PlaceFacts ==
  /\ \A x \in 0 .. Width - 1, y \in Rows : At(x, y) \in Places /\ X(At(x, y)) = x /\ Y(At(x, y)) = y
  /\ \A i \in Places : X(i) \in 0 .. Width - 1 /\ Y(i) \in Rows /\ i = At(X(i), Y(i))
<1>0. Width \in Nat \ {0} /\ Height \in Nat \ {0}
  BY SidesFacts
<1>1. ASSUME NEW x \in 0 .. Width - 1, NEW y \in Rows
      PROVE  At(x, y) \in Places /\ X(At(x, y)) = x /\ Y(At(x, y)) = y
  <2>1. x \in Nat /\ y \in Nat /\ y <= Height - 1 /\ x <= Width - 1
    BY <1>0 DEF Rows
  <2>2. At(x, y) = Width * y + x
    BY <1>0, <2>1 DEF At
  <2>3. X(At(x, y)) = x /\ Y(At(x, y)) = y
    <3>1. x \in 0 .. Width - 1 /\ y \in Int
      BY <2>1
    <3>2. (Width * y + x) \div Width = y /\ (Width * y + x) % Width = x
      BY ONLY <1>0, <3>1, DivModUnique
    <3> QED BY <2>2, <3>2 DEF X, Y
  <2>4. (Height - 1 - y) * Width >= 0
    BY <1>0, <2>1
  <2>5. (Height - 1 - y) * Width = Width * Height - Width - Width * y
    BY <1>0, <2>1
  <2>6. Width * y + x \in 0 .. Width * Height - 1
    <3> DEFINE p == Width * y
               q == Width * Height
    <3>1. p \in Nat /\ q \in Nat /\ q - Width - p >= 0
      <4>1. p \in Nat /\ q \in Nat
        BY <1>0, <2>1
      <4> QED BY <2>4, <2>5, <4>1
    <3> HIDE DEF p, q
    <3>2. p + x \in 0 .. q - 1
      BY <1>0, <2>1, <3>1
    <3> QED BY <3>2 DEF p, q
  <2> QED BY <2>2, <2>3, <2>6 DEF Places
<1>2. ASSUME NEW i \in Places
      PROVE  X(i) \in 0 .. Width - 1 /\ Y(i) \in Rows /\ i = At(X(i), Y(i))
  <2> DEFINE x == X(i)
             y == Y(i)
             q == Width * Height
  <2>1. i \in Nat /\ q \in Nat /\ i <= q - 1
    BY SidesFacts DEF Places
  <2>2. y \in Int /\ x \in 0 .. Width - 1 /\ i = Width * y + x
    BY <1>0, <2>1, DivMod DEF X, Y
  <2> HIDE DEF x, y
  <2>3. y >= 0
    <3> SUFFICES ASSUME y <= -1 PROVE FALSE
      BY <2>2
    <3>1. Width * y <= -Width
      <4>1. (-1 - y) * Width >= 0
        BY <1>0, <2>2
      <4>2. (-1 - y) * Width = -Width - Width * y
        BY <1>0, <2>2
      <4>3. Width * y \in Int
        BY <1>0, <2>2
      <4> QED BY <1>0, <4>1, <4>2, <4>3
    <3> DEFINE p == Width * y
    <3>2. p \in Int /\ p <= -Width /\ i = p + x
      BY <1>0, <2>2, <3>1
    <3> HIDE DEF p
    <3> QED BY <1>0, <2>1, <2>2, <3>2
  <2>4. y <= Height - 1
    <3> SUFFICES ASSUME y >= Height PROVE FALSE
      BY <1>0, <2>2
    <3>1. (y - Height) * Width >= 0
      BY <1>0, <2>2
    <3>2. (y - Height) * Width = Width * y - Width * Height
      BY <1>0, <2>2
    <3> DEFINE p == Width * y
    <3>3. p \in Int /\ p >= q /\ i = p + x
      <4>1. p \in Int
        BY <1>0, <2>2
      <4> QED BY <2>1, <2>2, <3>1, <3>2, <4>1
    <3> HIDE DEF p, q
    <3> QED BY <1>0, <2>1, <2>2, <3>3
  <2>5. y \in Rows
    BY <1>0, <2>2, <2>3, <2>4 DEF Rows
  <2>6. At(x, y) = i
    BY <1>0, <2>2 DEF At
  <2> QED BY <2>2, <2>5, <2>6 DEF x, y
<1> QED BY <1>1, <1>2

\* The neighbours of a cell.
Near(i) ==
  {j \in Places : \/ j = i + 1 /\ X(i) + 1 < Width
                  \/ j = i - 1 /\ X(i) > 0
                  \/ j = i + Width /\ Y(i) + 1 < Height
                  \/ j = i - Width /\ Y(i) > 0}

\* The cells around a cell lie in the chunk.
LEMMA Beside ==
  ASSUME NEW i \in Places
  PROVE  /\ X(i) + 1 < Width => i + 1 \in Places /\ X(i + 1) = X(i) + 1
         /\ X(i) > 0 => i - 1 \in Places /\ X(i - 1) + 1 = X(i)
         /\ Y(i) + 1 < Height => i + Width \in Places /\ Y(i + Width) = Y(i) + 1
         /\ Y(i) > 0 => i - Width \in Places /\ Y(i - Width) + 1 = Y(i)
<1> DEFINE x == X(i)
           y == Y(i)
<1>0. Width \in Nat \ {0} /\ Height \in Nat \ {0}
  BY SidesFacts
<1>1. x \in 0 .. Width - 1 /\ y \in 0 .. Height - 1 /\ i = At(x, y)
  BY PlaceFacts DEF Rows
<1> HIDE DEF x, y
<1>2. i \in Int /\ i = y * Width + x
  BY <1>0, <1>1 DEF At
<1>3. ASSUME NEW a \in 0 .. Width - 1, NEW b \in 0 .. Height - 1
      PROVE  At(a, b) \in Places /\ X(At(a, b)) = a /\ Y(At(a, b)) = b
  BY <1>0, PlaceFacts DEF Rows
<1>4. ASSUME x + 1 < Width
      PROVE  i + 1 \in Places /\ X(i + 1) = x + 1
  <2>1. x + 1 \in 0 .. Width - 1 /\ At(x + 1, y) = i + 1
    BY <1>0, <1>1, <1>2, <1>4 DEF At
  <2>2. i + 1 \in Places /\ X(i + 1) = x + 1
    BY <1>1, <1>3, <2>1
  <2> QED BY <2>2
<1>5. ASSUME x > 0
      PROVE  i - 1 \in Places /\ X(i - 1) + 1 = x
  <2>1. x - 1 \in 0 .. Width - 1 /\ At(x - 1, y) = i - 1
    BY <1>0, <1>1, <1>2, <1>5 DEF At
  <2>2. i - 1 \in Places /\ X(i - 1) = x - 1
    BY <1>1, <1>3, <2>1
  <2>3. x - 1 + 1 = x
    BY <1>1
  <2> QED BY <2>2, <2>3
<1>6. ASSUME y + 1 < Height
      PROVE  i + Width \in Places /\ Y(i + Width) = y + 1
  <2>1. y + 1 \in 0 .. Height - 1 /\ At(x, y + 1) = i + Width
    <3>1. (y + 1) * Width = y * Width + Width
      BY <1>0, <1>1
    <3> DEFINE p == y * Width
    <3>2. p \in Int /\ At(x, y + 1) = p + Width + x /\ i = p + x
      BY <1>0, <1>1, <1>2, <3>1 DEF At
    <3> HIDE DEF p
    <3> QED BY <1>0, <1>1, <1>6, <3>2
  <2>2. i + Width \in Places /\ Y(i + Width) = y + 1
    BY <1>1, <1>3, <2>1
  <2> QED BY <2>2
<1>7. ASSUME y > 0
      PROVE  i - Width \in Places /\ Y(i - Width) + 1 = y
  <2>1. y - 1 \in 0 .. Height - 1 /\ At(x, y - 1) = i - Width
    <3>1. (y - 1) * Width = y * Width - Width
      BY <1>0, <1>1
    <3> DEFINE p == y * Width
    <3>2. p \in Int /\ At(x, y - 1) = p - Width + x /\ i = p + x
      BY <1>0, <1>1, <1>2, <3>1 DEF At
    <3> HIDE DEF p
    <3> QED BY <1>0, <1>1, <1>7, <3>2
  <2>2. i - Width \in Places /\ Y(i - Width) = y - 1
    BY <1>1, <1>3, <2>1
  <2>3. y - 1 + 1 = y
    BY <1>1
  <2> QED BY <2>2, <2>3
<1> QED BY <1>4, <1>5, <1>6, <1>7 DEF x, y

\* Cells are neighbours of each other.
LEMMA NearEachOther ==
  ASSUME NEW i \in Places, NEW j \in Near(i)
  PROVE  j \in Places /\ i \in Near(j)
<1>1. Width \in Nat \ {0} /\ i \in Int /\ j \in Places /\ j \in Int
  BY SidesFacts DEF Near, Places
<1>2. X(i) \in Int /\ Y(i) \in Int /\ X(j) \in Int /\ Y(j) \in Int
      /\ X(i) \in 0 .. Width - 1 /\ Y(i) \in 0 .. Height - 1
  BY <1>1, SidesFacts, PlaceFacts DEF Rows
<1>3. CASE j = i + 1 /\ X(i) + 1 < Width
  <2>1. X(j) = X(i) + 1 /\ i = j - 1
    BY <1>1, <1>3, Beside
  <2>2. X(j) > 0
    BY <1>2, <2>1
  <2> QED BY <1>1, <2>1, <2>2 DEF Near
<1>4. CASE j = i - 1 /\ X(i) > 0
  <2>1. X(j) + 1 = X(i) /\ i = j + 1
    BY <1>1, <1>4, Beside
  <2>2. X(j) + 1 < Width
    BY <1>1, <1>2, <2>1
  <2> QED BY <1>1, <2>1, <2>2 DEF Near
<1>5. CASE j = i + Width /\ Y(i) + 1 < Height
  <2>1. Y(j) = Y(i) + 1 /\ i = j - Width
    BY <1>1, <1>5, Beside
  <2>2. Y(j) > 0
    BY <1>2, <2>1
  <2> QED BY <1>1, <2>1, <2>2 DEF Near
<1>6. CASE j = i - Width /\ Y(i) > 0
  <2>1. Y(j) + 1 = Y(i) /\ i = j + Width
    BY <1>1, <1>6, Beside
  <2>2. Y(j) + 1 < Height
    BY <1>2, <2>1, SidesFacts
  <2> QED BY <1>1, <2>1, <2>2 DEF Near
<1> QED BY <1>1, <1>3, <1>4, <1>5, <1>6 DEF Near

\* The elements of two sequences.
LEMMA ConcatSet ==
  ASSUME NEW V, NEW s \in Seq(V), NEW t \in Seq(V)
  PROVE  s \o t \in Seq(V) /\ ToSet(s \o t) = ToSet(s) \cup ToSet(t)
<1> DEFINE m == Len(s)
           n == Len(t)
           u == s \o t
<1>1. m \in Nat /\ DOMAIN s = 1 .. m /\ n \in Nat /\ DOMAIN t = 1 .. n
  BY LenProperties
<1>2. u \in Seq(V) /\ Len(u) = m + n /\ \A i \in 1 .. m + n : u[i] = IF i <= m THEN s[i] ELSE t[i - m]
  BY ConcatProperties
<1>3. DOMAIN u = 1 .. m + n
  BY <1>2, LenProperties
<1> HIDE DEF m, n, u
<1>4. ASSUME NEW i \in 1 .. m + n
      PROVE  u[i] \in ToSet(s) \cup ToSet(t)
  <2>1. CASE i <= m
    <3>1. i \in 1 .. m /\ u[i] = s[i]
      BY <1>1, <1>2, <2>1
    <3> QED BY <1>1, <3>1 DEF ToSet
  <2>2. CASE ~(i <= m)
    <3>1. i - m \in 1 .. n
      BY <1>1, <2>2
    <3>2. u[i] = t[i - m]
      BY <1>2, <2>2
    <3> QED BY <1>1, <3>1, <3>2 DEF ToSet
  <2> QED BY <2>1, <2>2
<1>5. ASSUME NEW i \in 1 .. m
      PROVE  s[i] \in ToSet(u)
  <2>1. i \in 1 .. m + n /\ u[i] = s[i]
    BY <1>1, <1>2
  <2> QED BY <1>3, <2>1 DEF ToSet
<1>6. ASSUME NEW i \in 1 .. n
      PROVE  t[i] \in ToSet(u)
  <2>1. i + m \in 1 .. m + n /\ ~(i + m <= m) /\ (i + m) - m = i
    BY <1>1
  <2>2. u[i + m] = t[i]
    BY <1>2, <2>1
  <2> QED BY <1>3, <2>1, <2>2 DEF ToSet
<1>7. ToSet(u) = ToSet(s) \cup ToSet(t)
  BY <1>1, <1>3, <1>4, <1>5, <1>6 DEF ToSet
<1> QED BY <1>2, <1>7 DEF u

\* The cells that light goes on to are the neighbours.
LEMMA AroundFacts ==
  ASSUME NEW i \in Places
  PROVE  Around(i) \in Seq(Places) /\ ToSet(Around(i)) = Near(i)
<1> DEFINE a == IF X(i) + 1 < Width THEN <<i + 1>> ELSE <<>>
           b == IF X(i) > 0 THEN <<i - 1>> ELSE <<>>
           c == IF Y(i) + 1 < Height THEN <<i + Width>> ELSE <<>>
           d == IF Y(i) > 0 THEN <<i - Width>> ELSE <<>>
           east  == IF X(i) + 1 < Width THEN {i + 1} ELSE {}
           west  == IF X(i) > 0 THEN {i - 1} ELSE {}
           up    == IF Y(i) + 1 < Height THEN {i + Width} ELSE {}
           down  == IF Y(i) > 0 THEN {i - Width} ELSE {}
<1>0. ASSUME NEW k \in Places
      PROVE  <<k>> \in Seq(Places) /\ ToSet(<<k>>) = {k}
  BY DEF ToSet
<1>1. <<>> \in Seq(Places) /\ ToSet(<<>>) = {}
  BY EmptyDistinct DEF Distinct
<1>2. a \in Seq(Places) /\ ToSet(a) = east
  BY <1>0, <1>1, Beside
<1>3. b \in Seq(Places) /\ ToSet(b) = west
  BY <1>0, <1>1, Beside
<1>4. c \in Seq(Places) /\ ToSet(c) = up
  BY <1>0, <1>1, Beside
<1>5. d \in Seq(Places) /\ ToSet(d) = down
  BY <1>0, <1>1, Beside
<1>6. Around(i) = a \o b \o c \o d
  BY DEF Around
<1>7. east \cup west \cup up \cup down = Near(i)
  BY Beside DEF Near
<1> HIDE DEF a, b, c, d, east, west, up, down
<1> DEFINE ab  == a \o b
           abc == ab \o c
<1>8. ab \in Seq(Places) /\ ToSet(ab) = east \cup west
  BY <1>2, <1>3, ConcatSet
<1> HIDE DEF ab
<1>9. abc \in Seq(Places) /\ ToSet(abc) = ToSet(ab) \cup up
  BY <1>4, <1>8, ConcatSet
<1> HIDE DEF abc
<1>10. abc \o d \in Seq(Places) /\ ToSet(abc \o d) = ToSet(abc) \cup down
  BY <1>5, <1>9, ConcatSet
<1>11. Around(i) = abc \o d
  BY <1>6 DEF ab, abc
<1> QED BY <1>7, <1>8, <1>9, <1>10, <1>11

----------------------------------------------------------------------------
(* The queue of the light engine                                           *)

Levels == 0 .. MaxLight
Token(i, n) == [cell |-> i, level |-> n]
Tokens == {Token(i, n) : i \in Places, n \in Levels}
LightOf(light, queue) == [light |-> light, queue |-> queue]

\* What the light of a chunk is computed from.
Setting(blocks, east, west) == [blocks |-> blocks, east |-> east, west |-> west]
IsSetting(z) ==
  z.blocks \in [Places -> Ids] /\ z.east \in [Rows -> Levels] /\ z.west \in [Rows -> Levels]

\* What light n leaves of itself in cell i.
Passed(n, z, i) == Less(n, 1 + Opacity[z.blocks[i]])

\* Light n in cell i comes from its block, from the boundary or from a neighbour.
Given(z, i, n) ==
  \/ n <= Emission[z.blocks[i]]
  \/ X(i) = Width - 1 /\ n <= z.east[Y(i)]
  \/ X(i) = 0 /\ n <= z.west[Y(i)]
Grounded(l, z, i, n) == Given(z, i, n) \/ \E j \in Near(i) : n <= Passed(l.light[j], z, i)

\* Light that comes from somewhere, and a queue of levels that cells have or had.
Glows(l, z) ==
  /\ l = LightOf(l.light, l.queue) /\ l.light \in [Places -> Levels] /\ l.queue \in Seq(Tokens)
  /\ \A k \in 1 .. Len(l.queue) : l.queue[k].level <= l.light[l.queue[k].cell]
  /\ \A i \in Places : Grounded(l, z, i, l.light[i])

\* Cell j waits in the queue with the light it has.
Waits(l, j) == \E k \in 1 .. Len(l.queue) : l.queue[k] = Token(j, l.light[j])

\* Cell j has given its light to cell i, or will.
Settled(l, z, j, i) == Waits(l, j) \/ l.light[i] >= Passed(l.light[j], z, i)

\* r is l with more light, all of which waits in the queue.
Upon(r, l) ==
  \A j \in Places : /\ r.light[j] >= l.light[j]
                    /\ Waits(r, j) \/ (r.light[j] = l.light[j] /\ ~Waits(l, j))

\* The levels that cells may still take, and what is left to do.
Unlit(l) == {p \in Places \X (1 .. MaxLight) : p[2] > l.light[p[1]]}
Work(l) == Len(l.queue) + Cardinality(Unlit(l))

\* What waits in the queue.
LEMMA TokenFacts ==
  /\ \A i \in Places, n \in Levels : Token(i, n) \in Tokens
  /\ \A t \in Tokens : t = Token(t.cell, t.level) /\ t.cell \in Places /\ t.level \in Levels
  /\ \A i, n : Token(i, n).cell = i /\ Token(i, n).level = n
  BY DEF Token, Tokens

\* The light and its queue.
LEMMA LightParts ==
  ASSUME NEW a, NEW q
  PROVE  LightOf(a, q).light = a /\ LightOf(a, q).queue = q
  BY DEF LightOf

\* The levels of light.
LEMMA LevelFacts ==
  /\ MaxLight \in Nat /\ 0 \in Levels /\ \A n \in Levels : n \in Nat /\ n <= MaxLight
<1>1. MaxLight \in Nat
  BY SidesFacts
<1> QED BY <1>1 DEF Levels

\* What light becomes in a neighbour is a level, and no more than it was.
LEMMA PassedType ==
  ASSUME NEW z, IsSetting(z), NEW i \in Places, NEW n \in Levels
  PROVE  Passed(n, z, i) \in Levels /\ Passed(n, z, i) \in Nat /\ Passed(n, z, i) <= n
<1>1. z.blocks[i] \in Ids
  BY DEF IsSetting
<1>2. Opacity[z.blocks[i]] \in Nat /\ MaxLight \in Nat
  BY <1>1, SidesFacts
<1> QED BY <1>2 DEF Passed, Less, Levels

\* The levels that no cell has yet are finitely many.
LEMMA UnlitFacts ==
  ASSUME NEW l
  PROVE  /\ IsFiniteSet(Unlit(l)) /\ Cardinality(Unlit(l)) \in Nat
         /\ Cardinality(Unlit(l)) <= Width * Height * MaxLight
<1> DEFINE n == Width * Height
           P == Places \X (1 .. MaxLight)
<1>1. n \in Nat /\ MaxLight \in Nat
  BY SidesFacts
<1>2. IsFiniteSet(Places) /\ Cardinality(Places) = n
  <2>1. Places = 0 .. n - 1
    BY DEF Places
  <2> HIDE DEF n
  <2>2. 0 \in Int /\ n - 1 \in Int
    BY <1>1
  <2>3. IsFiniteSet(0 .. n - 1) /\ Cardinality(0 .. n - 1) = IF 0 > n - 1 THEN 0 ELSE (n - 1) - 0 + 1
    BY ONLY <2>2, FS_Interval
  <2> QED BY <1>1, <2>1, <2>3
<1>3. IsFiniteSet(1 .. MaxLight) /\ Cardinality(1 .. MaxLight) = MaxLight
  <2>1. IsFiniteSet(1 .. MaxLight)
        /\ Cardinality(1 .. MaxLight) = IF 1 > MaxLight THEN 0 ELSE MaxLight - 1 + 1
    BY <1>1, FS_Interval
  <2> QED BY <1>1, <2>1
<1> HIDE DEF n
<1>4. IsFiniteSet(P) /\ Cardinality(P) = n * MaxLight
  BY <1>2, <1>3, FS_Product
<1>5. Unlit(l) \subseteq P
  BY DEF Unlit
<1> HIDE DEF P
<1>6. IsFiniteSet(Unlit(l)) /\ Cardinality(Unlit(l)) <= Cardinality(P)
  BY <1>4, <1>5, FS_Subset
<1>7. Cardinality(Unlit(l)) \in Nat
  BY <1>6, FS_CardinalityType
<1> QED BY <1>4, <1>6, <1>7 DEF n

\* The types of the light and its queue.
LEMMA GlowFacts ==
  ASSUME NEW z, NEW l, Glows(l, z)
  PROVE  /\ Len(l.queue) \in Nat /\ Work(l) \in Nat
         /\ \A i \in Places : l.light[i] \in Levels /\ l.light[i] \in Nat
         /\ \A k \in 1 .. Len(l.queue) : l.queue[k] \in Tokens
<1>1. l.queue \in Seq(Tokens) /\ l.light \in [Places -> Levels]
  BY DEF Glows
<1>2. Len(l.queue) \in Nat /\ \A k \in 1 .. Len(l.queue) : l.queue[k] \in Tokens
  BY <1>1, LenProperties, ElementOfSeq
<1>3. Work(l) \in Nat
  <2> DEFINE a == Len(l.queue)
             b == Cardinality(Unlit(l))
  <2>1. a \in Nat /\ b \in Nat /\ Work(l) = a + b
    BY <1>2, UnlitFacts DEF Work
  <2> HIDE DEF a, b
  <2> QED BY <2>1
<1>4. \A i \in Places : l.light[i] \in Levels /\ l.light[i] \in Nat
  BY <1>1, LevelFacts
<1> QED BY <1>2, <1>3, <1>4

\* Light rises from itself.
LEMMA UponItself ==
  ASSUME NEW z, NEW l, Glows(l, z)
  PROVE  Upon(l, l)
  BY GlowFacts DEF Upon

\* Rising twice is rising.
LEMMA UponUpon ==
  ASSUME NEW z, NEW l, NEW r, NEW q, Glows(l, z), Glows(r, z), Glows(q, z), Upon(r, l), Upon(q, r)
  PROVE  Upon(q, l)
<1> SUFFICES ASSUME NEW j \in Places
             PROVE  /\ q.light[j] >= l.light[j]
                    /\ Waits(q, j) \/ (q.light[j] = l.light[j] /\ ~Waits(l, j))
  BY DEF Upon
<1>1. q.light[j] \in Nat /\ r.light[j] \in Nat /\ l.light[j] \in Nat
  BY GlowFacts
<1>2. /\ r.light[j] >= l.light[j] /\ (Waits(r, j) \/ (r.light[j] = l.light[j] /\ ~Waits(l, j)))
      /\ q.light[j] >= r.light[j] /\ (Waits(q, j) \/ (q.light[j] = r.light[j] /\ ~Waits(r, j)))
  BY DEF Upon
<1> QED BY <1>1, <1>2

\* What a cell has given its neighbour it has given for good.
LEMMA SettledStays ==
  ASSUME NEW z, NEW l, NEW r, Glows(l, z), Glows(r, z), Upon(r, l), IsSetting(z),
         NEW i \in Places, NEW j \in Places, Settled(l, z, j, i)
  PROVE  Settled(r, z, j, i)
<1>1. /\ r.light[j] >= l.light[j] /\ (Waits(r, j) \/ (r.light[j] = l.light[j] /\ ~Waits(l, j)))
      /\ r.light[i] >= l.light[i]
  BY DEF Upon
<1>2. CASE Waits(r, j)
  BY <1>2 DEF Settled
<1>3. CASE r.light[j] = l.light[j] /\ ~Waits(l, j)
  <2>1. l.light[i] >= Passed(l.light[j], z, i)
    BY <1>3 DEF Settled
  <2>2. l.light[i] \in Nat /\ r.light[i] \in Nat /\ Passed(l.light[j], z, i) \in Nat
    <3>1. l.light[i] \in Nat /\ r.light[i] \in Nat /\ l.light[j] \in Levels
      BY GlowFacts
    <3> QED BY <3>1, PassedType
  <2>3. r.light[i] >= Passed(r.light[j], z, i)
    BY <1>1, <1>3, <2>1, <2>2
  <2> QED BY <2>3 DEF Settled
<1> QED BY <1>1, <1>2, <1>3

\* More light in the neighbours gives more.
LEMMA MorePassed ==
  ASSUME NEW z, IsSetting(z), NEW i \in Places, NEW m \in Levels, NEW n \in Levels, m <= n
  PROVE  Passed(m, z, i) <= Passed(n, z, i)
<1>1. z.blocks[i] \in Ids
  BY DEF IsSetting
<1>2. Opacity[z.blocks[i]] \in Nat /\ m \in Nat /\ n \in Nat
  BY <1>1, SidesFacts, LevelFacts
<1> QED BY <1>2 DEF Passed, Less

\* A reason for light remains one when light rises.
LEMMA GroundedStays ==
  ASSUME NEW z, IsSetting(z), NEW l, NEW r, l.light \in [Places -> Levels], r.light \in [Places -> Levels],
         \A j \in Places : r.light[j] >= l.light[j],
         NEW i \in Places, NEW n \in Levels, Grounded(l, z, i, n)
  PROVE  Grounded(r, z, i, n)
<1>1. CASE Given(z, i, n)
  BY <1>1 DEF Grounded
<1>2. ASSUME NEW j \in Near(i), n <= Passed(l.light[j], z, i)
      PROVE  Grounded(r, z, i, n)
  <2>1. j \in Places /\ l.light[j] \in Levels /\ r.light[j] \in Levels
    BY DEF Near
  <2>2. l.light[j] <= r.light[j] /\ l.light[j] \in Nat /\ r.light[j] \in Nat /\ n \in Nat
    BY <2>1, LevelFacts
  <2>3. Passed(l.light[j], z, i) <= Passed(r.light[j], z, i)
    BY <2>1, <2>2, MorePassed
  <2>4. Passed(l.light[j], z, i) \in Nat /\ Passed(r.light[j], z, i) \in Nat
    BY <2>1, PassedType
  <2>5. n <= Passed(r.light[j], z, i)
    BY <1>2, <2>2, <2>3, <2>4
  <2> QED BY <2>5 DEF Grounded
<1> QED BY <1>1, <1>2 DEF Grounded

----------------------------------------------------------------------------
(* Raising light                                                           *)

\* A cell gets more light.
LEMMA RaisedFacts ==
  ASSUME NEW z, IsSetting(z), NEW l, Glows(l, z), NEW i \in Places, NEW n \in Levels, Grounded(l, z, i, n),
         NEW r, r = Raised(l, i, n)
  PROVE  /\ Glows(r, z) /\ Upon(r, l) /\ r.light[i] >= n /\ Work(r) <= Work(l)
<1>0. /\ l = LightOf(l.light, l.queue) /\ l.light \in [Places -> Levels] /\ l.queue \in Seq(Tokens)
      /\ n \in Nat /\ l.light[i] \in Nat /\ Work(l) \in Nat /\ Len(l.queue) \in Nat
  BY GlowFacts, LevelFacts DEF Glows
<1>1. CASE ~(n > l.light[i])
  <2>1. r = l
    BY <1>1 DEF Raised
  <2>2. Upon(l, l)
    BY UponItself
  <2> QED BY <1>0, <1>1, <2>1, <2>2
<1>2. CASE n > l.light[i]
  <2> DEFINE a == [l.light EXCEPT ![i] = n]
             q == Append(l.queue, Token(i, n))
             m == Len(l.queue)
  <2>1. r.light = a /\ r.queue = q /\ r = LightOf(r.light, r.queue)
    <3>1. r = LightOf(a, q)
      BY <1>2 DEF Raised, LightOf, Token
    <3> HIDE DEF a, q
    <3> QED BY <3>1, LightParts
  <2>2. /\ a \in [Places -> Levels] /\ a[i] = n /\ \A j \in Places : j # i => a[j] = l.light[j]
    BY <1>0
  <2>3. Token(i, n) \in Tokens
    BY TokenFacts
  <2>4. /\ q \in Seq(Tokens) /\ Len(q) = m + 1 /\ q[m + 1] = Token(i, n)
        /\ \A k \in 1 .. m : q[k] = l.queue[k]
    BY <1>0, <2>3, AppendProperties
  <2> HIDE DEF a, q, m
  <2>5. \A j \in Places : a[j] >= l.light[j] /\ a[j] \in Nat
    <3> TAKE j \in Places
    <3>1. l.light[j] \in Nat
      BY GlowFacts
    <3>2. CASE j = i
      BY <1>0, <1>2, <2>2, <3>2
    <3>3. CASE j # i
      BY <2>2, <3>1, <3>3
    <3> QED BY <3>2, <3>3
  <2>6. m \in Nat
    BY <1>0 DEF m
  <2>7. ASSUME NEW k \in 1 .. Len(q)
        PROVE  q[k].level <= a[q[k].cell]
    <3>1. CASE k = m + 1
      <4>1. q[k].level = n /\ q[k].cell = i
        BY <2>4, <3>1, TokenFacts
      <4> QED BY <1>0, <2>2, <4>1
    <3>2. CASE k # m + 1
      <4>1. k \in 1 .. m
        BY <2>4, <2>6, <3>2
      <4>2. l.queue[k] \in Tokens
        BY <4>1, GlowFacts DEF m
      <4> DEFINE t == l.queue[k]
      <4>3. t.cell \in Places /\ t.level \in Nat
        <5>1. t.cell \in Places /\ t.level \in Levels
          BY <4>2, TokenFacts
        <5> QED BY <5>1, LevelFacts
      <4>4. t.level <= l.light[t.cell]
        BY <4>1 DEF Glows, m
      <4>5. q[k] = t
        BY <2>4, <4>1
      <4> HIDE DEF t
      <4>6. l.light[t.cell] \in Nat /\ a[t.cell] \in Nat /\ a[t.cell] >= l.light[t.cell]
        BY <2>5, <4>3, GlowFacts
      <4> QED BY <4>3, <4>4, <4>5, <4>6
    <3> QED BY <3>1, <3>2
  <2>8. ASSUME NEW j \in Places
        PROVE  Grounded(r, z, j, a[j])
    <3>1. Grounded(l, z, j, a[j])
      <4>1. CASE j = i
        BY <2>2, <4>1
      <4>2. CASE j # i
        <5>1. a[j] = l.light[j]
          BY <2>2, <4>2
        <5> QED BY <5>1 DEF Glows
      <4> QED BY <4>1, <4>2
    <3>2. r.light \in [Places -> Levels] /\ (\A d \in Places : r.light[d] >= l.light[d])
          /\ a[j] \in Levels
      BY <2>1, <2>2, <2>5
    <3> QED BY <1>0, <3>1, <3>2, GroundedStays
  <2>9. Glows(r, z)
    BY <2>1, <2>2, <2>4, <2>7, <2>8 DEF Glows
  <2>10. Upon(r, l)
    <3> SUFFICES ASSUME NEW j \in Places
                 PROVE  /\ r.light[j] >= l.light[j]
                        /\ Waits(r, j) \/ (r.light[j] = l.light[j] /\ ~Waits(l, j))
      BY DEF Upon
    <3>1. CASE j = i
      <4>1. m + 1 \in 1 .. Len(r.queue) /\ r.queue[m + 1] = Token(j, r.light[j])
        BY <2>1, <2>2, <2>4, <2>6, <3>1
      <4>2. Waits(r, j)
        BY <4>1 DEF Waits
      <4> QED BY <2>1, <2>5, <4>2
    <3>2. CASE j # i
      <4>1. r.light[j] = l.light[j]
        BY <2>1, <2>2, <3>2
      <4>2. ASSUME NEW k \in 1 .. Len(l.queue), l.queue[k] = Token(j, l.light[j])
            PROVE  Waits(r, j)
        <5>1. k \in 1 .. Len(r.queue) /\ r.queue[k] = l.queue[k]
          BY <2>1, <2>4, <2>6 DEF m
        <5> QED BY <4>1, <4>2, <5>1 DEF Waits
      <4>3. Waits(l, j) => Waits(r, j)
        BY <4>2 DEF Waits
      <4> QED BY <2>1, <2>5, <4>1, <4>3
    <3> QED BY <3>1, <3>2
  <2>11. Work(r) <= Work(l)
    <3> DEFINE p == <<i, n>>
               U == Unlit(l)
               V == Unlit(r)
    <3>1. p \in U
      <4>1. n \in 1 .. MaxLight
        BY <1>0, <1>2, LevelFacts
      <4> QED BY <1>2, <4>1 DEF Unlit
    <3>2. V \subseteq U \ {p}
      <4> SUFFICES ASSUME NEW u \in V PROVE u \in U \ {p}
        OBVIOUS
      <4>1. u \in Places \X (1 .. MaxLight) /\ u[2] > a[u[1]]
        BY <2>1 DEF Unlit
      <4>2. u[1] \in Places /\ u[2] \in Nat /\ a[u[1]] \in Nat /\ l.light[u[1]] \in Nat
            /\ a[u[1]] >= l.light[u[1]]
        <5>1. u[1] \in Places /\ u[2] \in 1 .. MaxLight
          BY <4>1
        <5>2. u[2] \in Nat
          BY <5>1, LevelFacts
        <5> QED BY <2>5, <5>1, <5>2, GlowFacts
      <4>3. u[2] > l.light[u[1]]
        BY <4>1, <4>2
      <4>4. u # p
        <5> SUFFICES ASSUME u = p PROVE FALSE
          OBVIOUS
        <5>1. u[1] = i /\ u[2] = n
          OBVIOUS
        <5> QED BY <1>0, <2>2, <4>1, <5>1
      <4> QED BY <4>1, <4>3, <4>4 DEF Unlit
    <3> HIDE DEF p, U, V
    <3>3. IsFiniteSet(U) /\ Cardinality(U) \in Nat /\ Cardinality(V) \in Nat
      BY UnlitFacts DEF U, V
    <3>4. IsFiniteSet(U \ {p}) /\ Cardinality(U \ {p}) = Cardinality(U) - 1
      BY <3>1, <3>3, FS_RemoveElement
    <3>5. Cardinality(V) <= Cardinality(U) - 1
      BY <3>2, <3>4, FS_Subset
    <3>6. Work(r) = (m + 1) + Cardinality(V) /\ Work(l) = m + Cardinality(U)
      BY <2>1, <2>4 DEF Work, U, V, m
    <3> QED BY <2>6, <3>3, <3>5, <3>6
  <2>12. r.light[i] >= n
    BY <1>0, <2>1, <2>2
  <2> QED BY <2>9, <2>10, <2>11, <2>12
<1> QED BY <1>1, <1>2

\* Entries of the queue are the same only for the same cell and level.
LEMMA TokenSame ==
  ASSUME NEW i, NEW n, NEW j, NEW m, Token(i, n) = Token(j, m)
  PROVE  i = j /\ n = m
<1>1. Token(i, n).cell = Token(j, m).cell /\ Token(i, n).level = Token(j, m).level
  OBVIOUS
<1> QED BY <1>1, TokenFacts

\* The queue without its first element.
Popped(l) == LightOf(l.light, Tail(l.queue))

\* The first entry is taken from the queue.
LEMMA PoppedFacts ==
  ASSUME NEW z, NEW l, Glows(l, z), l.queue # <<>>, NEW b, b = Popped(l)
  PROVE  /\ Glows(b, z) /\ Work(b) = Work(l) - 1
         /\ b.light = l.light
         /\ Head(l.queue) \in Tokens /\ Head(l.queue).level <= l.light[Head(l.queue).cell]
         /\ \A j \in Places : Waits(l, j) /\ ~Waits(b, j) => Head(l.queue) = Token(j, l.light[j])
<1> DEFINE q == l.queue
           t == Tail(q)
           m == Len(q)
<1>0. b = LightOf(l.light, t) /\ b.light = l.light /\ b.queue = t
  BY LightParts DEF Popped
<1>1. q \in Seq(Tokens) /\ q # <<>> /\ m \in Nat /\ m # 0
  <2>1. q \in Seq(Tokens) /\ q # <<>>
    BY DEF Glows
  <2> QED BY <2>1, LenProperties, EmptySeq
<1>2. t \in Seq(Tokens) /\ Len(t) = m - 1 /\ \A k \in 1 .. m - 1 : t[k] = q[k + 1]
  <2>1. t \in Seq(Tokens) /\ Len(t) = Len(q) - 1 /\ \A k \in 1 .. Len(t) : t[k] = q[k + 1]
    BY <1>1, HeadTailProperties
  <2> QED BY <2>1
<1>3. Head(q) = q[1] /\ 1 \in 1 .. m
  BY <1>1
<1>4. \A k \in 1 .. m : q[k].level <= l.light[q[k].cell] /\ q[k] \in Tokens
  BY GlowFacts DEF Glows
<1>5. Glows(b, z)
  <2>1. \A k \in 1 .. Len(t) : t[k].level <= l.light[t[k].cell]
    <3> TAKE k \in 1 .. Len(t)
    <3>1. k + 1 \in 1 .. m /\ t[k] = q[k + 1]
      BY <1>1, <1>2
    <3> QED BY <1>4, <3>1
  <2>2. \A i \in Places : Grounded(b, z, i, l.light[i])
    BY <1>0 DEF Glows, Grounded
  <2>3. l.light \in [Places -> Levels]
    BY DEF Glows
  <2> HIDE DEF t
  <2> QED BY <1>0, <1>2, <2>1, <2>2, <2>3 DEF Glows
<1>6. Work(b) = Work(l) - 1
  <2> DEFINE u == Cardinality(Unlit(l))
  <2>1. Unlit(b) = Unlit(l)
    BY <1>0 DEF Unlit
  <2>2. u \in Nat
    BY UnlitFacts
  <2> HIDE DEF t, q
  <2>3. Work(b) = (m - 1) + u /\ Work(l) = m + u
    BY <1>0, <1>2, <2>1 DEF Work, q
  <2> HIDE DEF m, u
  <2> QED BY <1>1, <2>2, <2>3
<1>7. ASSUME NEW j \in Places, Waits(l, j), ~Waits(b, j)
      PROVE  Head(q) = Token(j, l.light[j])
  <2>1. PICK k \in 1 .. m : q[k] = Token(j, l.light[j])
    BY <1>7 DEF Waits
  <2>2. CASE k = 1
    BY <1>3, <2>1, <2>2
  <2>3. CASE k # 1
    <3>1. k - 1 \in 1 .. Len(t) /\ (k - 1) + 1 = k
      BY <1>1, <1>2, <2>3
    <3>2. t[k - 1] = Token(j, l.light[j])
      BY <1>2, <2>1, <3>1
    <3>3. Waits(b, j)
      BY <1>0, <3>1, <3>2 DEF Waits
    <3> QED BY <1>7, <3>3
  <2> QED BY <2>2, <2>3
<1> QED BY <1>0, <1>3, <1>4, <1>5, <1>6, <1>7

\* The loop over the neighbours of a cell: z.of is the light of the chunk without its
\* first token, z.seq are the cells around that token's, z.level is its level.
Lighten(l, j, z) == Raised(l, j, Less(z.level, 1 + Opacity[z.set.blocks[j]]))
Lightened(l, n, z) ==
  /\ Glows(l, z.set) /\ Upon(l, z.of) /\ Work(l) <= Work(z.of)
  /\ \A m \in 1 .. n : l.light[z.seq[m]] >= Passed(z.level, z.set, z.seq[m])

Lightening == INSTANCE Folding WITH Op <- Lighten, P <- Lightened

\* Every cell has given its light to its neighbours, or will.
AllSettled(l, z) == \A j \in Places : \A i \in Near(j) : Settled(l, z, j, i)

\* One round of the loop over the queue.
LEMMA SpreadFacts ==
  ASSUME NEW z, IsSetting(z), NEW l, Glows(l, z), AllSettled(l, z), l.queue # <<>>,
         NEW r, r = Spread(l, z.blocks)
  PROVE  /\ Glows(r, z) /\ AllSettled(r, z) /\ Work(r) <= Work(l) - 1
         /\ \A j \in Places : r.light[j] >= l.light[j]
<1> DEFINE h == Head(l.queue)
           c == h.cell
           v == h.level
           b == Popped(l)
           seq == Around(c)
           y == [set |-> z, of |-> b, seq |-> seq, level |-> v]
<1>0. y.set = z /\ y.of = b /\ y.seq = seq /\ y.level = v
  OBVIOUS
<1>1. /\ Glows(b, z) /\ Work(b) = Work(l) - 1 /\ b.light = l.light
      /\ h \in Tokens /\ v <= l.light[c]
      /\ \A j \in Places : Waits(l, j) /\ ~Waits(b, j) => h = Token(j, l.light[j])
  BY PoppedFacts
<1>2. h = Token(c, v) /\ c \in Places /\ v \in Levels
  BY <1>1, TokenFacts
<1>3. r = Lightening!OverSeq(b, seq, y)
  <2> DEFINE t == Tail(l.queue)
             p == [l EXCEPT !.queue = t]
  <2>1. r = Lightening!OverSeq(p, seq, y)
    BY ZenonT(60) DEF Spread, FoldLeft, Lightening!OverSeq, MapThenFoldSet,
                      Lightening!MapThenFoldSet, Max, Lightening!Largest, Lighten
  <2>2. l = LightOf(l.light, l.queue)
    BY DEF Glows
  <2>3. b = LightOf(l.light, t)
    BY DEF Popped
  <2> HIDE DEF t, b
  <2>4. p = b
    BY <2>2, <2>3 DEF LightOf
  <2> HIDE DEF p, seq, y
  <2> QED BY <2>1, <2>4
<1>4. seq \in Seq(Places) /\ ToSet(seq) = Near(c)
  BY <1>2, AroundFacts
<1> HIDE DEF y, seq, b, c, v, h
<1>5. Lightened(b, 0, y)
  <2>1. Upon(b, b) /\ Work(b) \in Nat
    BY <1>1, UponItself, GlowFacts
  <2> QED BY <1>0, <1>1, <2>1 DEF Lightened
<1>6. Len(seq) \in Nat /\ DOMAIN seq = 1 .. Len(seq)
  BY <1>4, LenProperties
<1>7. \A m \in 1 .. Len(seq) : seq[m] \in Near(c) /\ seq[m] \in Places
  <2> TAKE m \in 1 .. Len(seq)
  <2>1. seq[m] \in Near(c)
    BY <1>4, <1>6 DEF ToSet
  <2> QED BY <2>1 DEF Near
<1>8. ASSUME NEW k, NEW n \in 1 .. Len(seq), Lightened(k, n - 1, y)
      PROVE  Lightened(Lighten(k, seq[n], y), n, y)
  <2> DEFINE i == seq[n]
             w == Passed(v, z, i)
             s == Raised(k, i, w)
  <2>1. Lighten(k, i, y) = s
    BY <1>0 DEF Lighten, Passed
  <2>2. i \in Near(c) /\ i \in Places /\ c \in Near(i)
    <3>1. i \in Near(c)
      BY <1>7
    <3> QED BY <1>2, <1>7, <3>1, NearEachOther
  <2>3. /\ Glows(k, z) /\ Upon(k, b) /\ Work(k) <= Work(b)
        /\ \A m \in 1 .. n - 1 : k.light[seq[m]] >= Passed(v, z, seq[m])
    BY <1>0, <1>8 DEF Lightened
  <2>4. w \in Levels /\ w \in Nat
    BY <1>2, <2>2, PassedType
  <2>5. Grounded(k, z, i, w)
    <3>1. v <= k.light[c] /\ k.light[c] \in Levels
      <4>1. k.light[c] >= l.light[c]
        BY <1>1, <1>2, <2>3 DEF Upon
      <4>2. k.light[c] \in Nat /\ l.light[c] \in Nat /\ v \in Nat /\ k.light[c] \in Levels
        BY <1>2, <2>3, GlowFacts, LevelFacts
      <4> QED BY <1>1, <4>1, <4>2
    <3>2. w <= Passed(k.light[c], z, i)
      BY <1>2, <2>2, <3>1, MorePassed
    <3> QED BY <2>2, <3>2 DEF Grounded
  <2> HIDE DEF w
  <2>6. s = Raised(k, i, w)
    OBVIOUS
  <2> HIDE DEF s, i
  <2>7. Glows(s, z) /\ Upon(s, k) /\ s.light[i] >= w /\ Work(s) <= Work(k)
    BY <2>2, <2>3, <2>4, <2>5, <2>6, RaisedFacts
  <2>8. Upon(s, b)
    BY <1>1, <2>3, <2>7, UponUpon
  <2>9. Work(s) <= Work(b)
    <3>1. Work(s) \in Nat /\ Work(k) \in Nat /\ Work(b) \in Nat
      BY <1>1, <2>3, <2>7, GlowFacts
    <3> QED BY <2>3, <2>7, <3>1
  <2>10. ASSUME NEW m \in 1 .. n
         PROVE  s.light[seq[m]] >= Passed(v, z, seq[m])
    <3>1. CASE m = n
      BY <2>7, <3>1 DEF i, w
    <3>2. CASE m # n
      <4> DEFINE d == seq[m]
      <4>1. m \in 1 .. n - 1 /\ m \in 1 .. Len(seq)
        BY <1>6, <3>2
      <4>2. d \in Places /\ k.light[d] >= Passed(v, z, d)
        BY <1>7, <2>3, <4>1
      <4> HIDE DEF d
      <4>3. s.light[d] >= k.light[d]
        BY <2>7, <4>2 DEF Upon
      <4>4. s.light[d] \in Nat /\ k.light[d] \in Nat
        BY <2>3, <2>7, <4>2, GlowFacts
      <4>5. Passed(v, z, d) \in Nat
        BY <1>2, <4>2, PassedType
      <4>6. s.light[d] >= Passed(v, z, d)
        BY <4>2, <4>3, <4>4, <4>5
      <4> QED BY <4>6 DEF d
    <3> QED BY <3>1, <3>2
  <2>11. Lightened(s, n, y)
    BY <1>0, <2>7, <2>8, <2>9, <2>10 DEF Lightened
  <2> QED BY <2>1, <2>11 DEF i
<1>9. \A k : \A n \in 1 .. Len(seq) : Lightened(k, n - 1, y) => Lightened(Lighten(k, seq[n], y), n, y)
  BY <1>8
<1>10. Lightened(r, Len(seq), y)
  BY <1>3, <1>4, <1>5, <1>9, Lightening!OverSeqInduction
<1>11. /\ Glows(r, z) /\ Upon(r, b) /\ Work(r) <= Work(b)
       /\ \A m \in 1 .. Len(seq) : r.light[seq[m]] >= Passed(v, z, seq[m])
  BY <1>0, <1>10 DEF Lightened
<1>12. \A j \in Places : r.light[j] >= l.light[j]
  BY <1>1, <1>11 DEF Upon
<1>13. Work(r) <= Work(l) - 1
  BY <1>1, <1>11
<1>14. ASSUME NEW j \in Places, NEW i \in Near(j)
       PROVE  Settled(r, z, j, i)
  <2>0. i \in Places
    BY <1>14, NearEachOther
  <2>1. CASE Waits(r, j)
    BY <2>1 DEF Settled
  <2>2. CASE ~Waits(r, j)
    <3>1. r.light[j] = l.light[j] /\ ~Waits(b, j)
      BY <1>1, <1>11, <2>2 DEF Upon
    <3>2. CASE Waits(l, j)
      <4>1. h = Token(j, l.light[j])
        BY <1>1, <3>1, <3>2
      <4>2. c = j /\ v = l.light[j]
        <5> DEFINE x == l.light[j]
        <5>1. Token(c, v) = Token(j, x)
          BY <1>2, <4>1
        <5> HIDE DEF x
        <5>2. c = j /\ v = x
          BY ONLY <5>1, TokenSame
        <5> QED BY <5>2 DEF x
      <4>3. PICK m \in 1 .. Len(seq) : i = seq[m]
        BY <1>4, <1>6, <4>2 DEF ToSet
      <4>4. r.light[i] >= Passed(r.light[j], z, i)
        BY <1>11, <3>1, <4>2, <4>3
      <4> QED BY <4>4 DEF Settled
    <3>3. CASE ~Waits(l, j)
      <4>1. l.light[i] >= Passed(l.light[j], z, i)
        BY <3>3 DEF AllSettled, Settled
      <4>2. r.light[i] \in Nat /\ l.light[i] \in Nat /\ l.light[j] \in Levels
        BY <1>11, <2>0, GlowFacts
      <4>3. Passed(l.light[j], z, i) \in Nat
        BY <2>0, <4>2, PassedType
      <4>4. r.light[i] >= l.light[i]
        BY <1>12, <2>0
      <4>5. r.light[i] >= Passed(r.light[j], z, i)
        BY <3>1, <4>1, <4>2, <4>3, <4>4
      <4> QED BY <4>5 DEF Settled
    <3> QED BY <3>2, <3>3
  <2> QED BY <2>1, <2>2
<1> QED BY <1>11, <1>12, <1>13, <1>14 DEF AllSettled

\* All that the light engine may have to do.
Total == Width * Height * MaxLight

\* The light of a chunk while its queue is filled.
Lamp(l, z) == Glows(l, z) /\ AllSettled(l, z) /\ Work(l) <= Total

\* r has all the light of l.
NoLess(r, l) == \A j \in Places : r.light[j] >= l.light[j]

\* The number of the levels that can be raised.
LEMMA TotalFacts ==
  /\ Total \in Nat
  /\ \A l : Cardinality(Unlit(l)) <= Total
<1>1. Width * Height \in Nat /\ MaxLight \in Nat
  BY SidesFacts
<1>2. Total \in Nat
  <2> DEFINE n == Width * Height
  <2>1. n \in Nat /\ Total = n * MaxLight
    BY <1>1 DEF Total
  <2> HIDE DEF n
  <2> QED BY <1>1, <2>1
<1> QED BY <1>2, UnlitFacts DEF Total

\* Raising a cell for a reason keeps what is true of the light.
LEMMA RaisedLamp ==
  ASSUME NEW z, IsSetting(z), NEW l, Lamp(l, z), NEW i \in Places, NEW n \in Levels, Grounded(l, z, i, n),
         NEW r, r = Raised(l, i, n)
  PROVE  Lamp(r, z) /\ r.light[i] >= n /\ NoLess(r, l)
<1>1. Glows(l, z) /\ AllSettled(l, z) /\ Work(l) <= Total
  BY DEF Lamp
<1>2. Glows(r, z) /\ Upon(r, l) /\ r.light[i] >= n /\ Work(r) <= Work(l)
  BY <1>1, RaisedFacts
<1>3. AllSettled(r, z)
  <2> SUFFICES ASSUME NEW j \in Places, NEW k \in Near(j) PROVE Settled(r, z, j, k)
    BY DEF AllSettled
  <2>1. k \in Places
    BY NearEachOther
  <2>2. Settled(l, z, j, k)
    BY <1>1 DEF AllSettled
  <2> QED BY <1>1, <1>2, <2>1, <2>2, SettledStays
<1>4. Work(r) <= Total
  <2>1. Work(r) \in Nat /\ Work(l) \in Nat /\ Total \in Nat
    BY <1>1, <1>2, GlowFacts, TotalFacts
  <2> QED BY <1>1, <1>2, <2>1
<1> QED BY <1>2, <1>3, <1>4 DEF Lamp, Upon, NoLess

\* Light that rises twice has risen.
LEMMA NoLessAgain ==
  ASSUME NEW z, NEW l, NEW r, NEW q, Glows(l, z), Glows(r, z), Glows(q, z), NoLess(r, l), NoLess(q, r)
  PROVE  NoLess(q, l)
<1> SUFFICES ASSUME NEW j \in Places PROVE q.light[j] >= l.light[j]
  BY DEF NoLess
<1>1. q.light[j] \in Nat /\ r.light[j] \in Nat /\ l.light[j] \in Nat
  BY GlowFacts
<1>2. q.light[j] >= r.light[j] /\ r.light[j] >= l.light[j]
  BY DEF NoLess
<1> QED BY <1>1, <1>2

\* Light is no less than itself.
LEMMA NoLessItself ==
  ASSUME NEW z, NEW l, Glows(l, z)
  PROVE  NoLess(l, l)
<1>1. \A j \in Places : l.light[j] \in Nat
  BY GlowFacts
<1> QED BY <1>1 DEF NoLess

\* Numbers from 0, in a sequence.
LEMMA CountedTo ==
  ASSUME NEW n \in Nat
  PROVE  /\ [k \in 1 .. n |-> k - 1] \in Seq(0 .. n - 1) /\ Len([k \in 1 .. n |-> k - 1]) = n
         /\ \A k \in 1 .. n : [j \in 1 .. n |-> j - 1][k] = k - 1
<1> DEFINE s == [k \in 1 .. n |-> k - 1]
<1>1. \A k \in 1 .. n : k - 1 \in 0 .. n - 1
  OBVIOUS
<1>2. s \in Seq(0 .. n - 1)
  BY <1>1, IsASeq
<1>3. Len(s) = n
  BY <1>2, LenProperties
<1> QED BY <1>2, <1>3

----------------------------------------------------------------------------
(* What is put into the queue first                                        *)

\* The blocks that emit light.
Emit(l, i, z) == Raised(l, i, Emission[z.blocks[i]])
EmittedTo(l, n, z) == Lamp(l, z) /\ \A i \in Places : i < n => l.light[i] >= Emission[z.blocks[i]]
Emitting == INSTANCE Folding WITH Op <- Emit, P <- EmittedTo

NoLight == LightOf([i \in Places |-> 0], <<>>)
EmittedLight(z) == Emitting!OverSeq(NoLight, [k \in 1 .. Width * Height |-> k - 1], z)

\* A dark chunk.
LEMMA NoLightLamp ==
  ASSUME NEW z, IsSetting(z)
  PROVE  Lamp(NoLight, z)
<1> DEFINE a == [i \in Places |-> 0]
           l == NoLight
<1>1. l.light = a /\ l.queue = <<>> /\ l = LightOf(l.light, l.queue)
  <2> HIDE DEF a
  <2>1. NoLight = LightOf(a, <<>>)
    BY DEF NoLight, a
  <2> QED BY <2>1, LightParts
<1>2. a \in [Places -> Levels] /\ \A i \in Places : a[i] = 0
  BY LevelFacts
<1> HIDE DEF a, l
<1>3. <<>> \in Seq(Tokens) /\ Len(<<>>) = 0
  BY EmptySeq
<1>4. \A i \in Places : Grounded(l, z, i, 0)
  <2> TAKE i \in Places
  <2>1. Emission[z.blocks[i]] \in Nat
    BY SidesFacts, LevelFacts DEF IsSetting, Levels
  <2> QED BY <2>1 DEF Grounded, Given
<1>5. Glows(l, z)
  BY <1>1, <1>2, <1>3, <1>4 DEF Glows
<1>6. AllSettled(l, z)
  <2> SUFFICES ASSUME NEW j \in Places, NEW i \in Near(j) PROVE Settled(l, z, j, i)
    BY DEF AllSettled
  <2>1. i \in Places
    BY NearEachOther
  <2>2. l.light[i] = 0 /\ l.light[j] = 0 /\ 0 \in Levels
    BY <1>1, <1>2, <2>1, LevelFacts
  <2>3. Passed(0, z, i) \in Nat /\ Passed(0, z, i) <= 0
    BY <2>1, <2>2, PassedType
  <2>4. l.light[i] >= Passed(l.light[j], z, i)
    BY <2>2, <2>3
  <2> QED BY <2>4 DEF Settled
<1>7. Work(l) <= Total
  <2> DEFINE u == Cardinality(Unlit(l))
  <2>1. u \in Nat /\ Total \in Nat /\ u <= Total
    BY UnlitFacts, TotalFacts
  <2>2. Work(l) = 0 + u
    BY <1>1, <1>3 DEF Work
  <2> HIDE DEF u
  <2> QED BY <2>1, <2>2
<1> QED BY <1>5, <1>6, <1>7 DEF Lamp, l

\* The blocks that emit light are lit.
LEMMA EmittedFacts ==
  ASSUME NEW z, IsSetting(z), NEW r, r = EmittedLight(z)
  PROVE  Lamp(r, z) /\ \A i \in Places : r.light[i] >= Emission[z.blocks[i]]
<1> DEFINE n == Width * Height
           seq == [k \in 1 .. n |-> k - 1]
<1>1. r = Emitting!OverSeq(NoLight, seq, z)
  BY DEF EmittedLight
<1>2. n \in Nat /\ Places = 0 .. n - 1
  BY SidesFacts DEF Places
<1> HIDE DEF n
<1>3. seq \in Seq(Places) /\ Len(seq) = n /\ \A k \in 1 .. n : seq[k] = k - 1
  BY <1>2, CountedTo
<1> HIDE DEF seq
<1>4. EmittedTo(NoLight, 0, z)
  <2>1. \A i \in Places : ~(i < 0)
    BY <1>2
  <2> QED BY <2>1, NoLightLamp DEF EmittedTo
<1>5. ASSUME NEW l, NEW m \in 1 .. n, EmittedTo(l, m - 1, z)
      PROVE  EmittedTo(Emit(l, seq[m], z), m, z)
  <2> DEFINE i == m - 1
             e == Emission[z.blocks[i]]
             s == Raised(l, i, e)
  <2>1. seq[m] = i /\ i \in Places /\ Emit(l, seq[m], z) = s
    <3>1. seq[m] = i /\ i \in Places
      BY <1>2, <1>3
    <3> QED BY <3>1 DEF Emit
  <2>2. e \in Levels
    BY <2>1, SidesFacts DEF IsSetting, Levels
  <2>3. Grounded(l, z, i, e)
    BY <2>2, LevelFacts DEF Grounded, Given
  <2>4. Lamp(l, z) /\ \A j \in Places : j < m - 1 => l.light[j] >= Emission[z.blocks[j]]
    BY <1>5 DEF EmittedTo
  <2> HIDE DEF e
  <2>5. s = Raised(l, i, e)
    OBVIOUS
  <2> HIDE DEF s
  <2>6. Lamp(s, z) /\ s.light[i] >= e /\ NoLess(s, l)
    BY <2>1, <2>2, <2>3, <2>4, <2>5, RaisedLamp
  <2>7. ASSUME NEW j \in Places, j < m
        PROVE  s.light[j] >= Emission[z.blocks[j]]
    <3>1. CASE j = i
      BY <2>6, <3>1 DEF e
    <3>2. CASE j # i
      <4>1. j < m - 1
        BY <1>2, <2>7, <3>2
      <4>2. l.light[j] >= Emission[z.blocks[j]] /\ s.light[j] >= l.light[j]
        BY <2>4, <2>6, <4>1 DEF NoLess
      <4>3. s.light[j] \in Nat /\ l.light[j] \in Nat
        BY <2>4, <2>6, GlowFacts DEF Lamp
      <4>4. Emission[z.blocks[j]] \in Nat
        BY SidesFacts, LevelFacts DEF IsSetting, Levels
      <4> QED BY <4>2, <4>3, <4>4
    <3> QED BY <3>1, <3>2
  <2>8. EmittedTo(s, m, z)
    BY <2>6, <2>7 DEF EmittedTo
  <2> QED BY <2>1, <2>8
<1>6. \A l : \A m \in 1 .. Len(seq) : EmittedTo(l, m - 1, z) => EmittedTo(Emit(l, seq[m], z), m, z)
  BY <1>3, <1>5
<1>7. EmittedTo(r, n, z)
  BY <1>1, <1>3, <1>4, <1>6, Emitting!OverSeqInduction
<1>8. \A i \in Places : i < n
  BY <1>2
<1> QED BY <1>7, <1>8 DEF EmittedTo

\* The light of the boundary b, given to column x.
Seed(l, y, z) == Raised(l, At(z.x, y), z.b[y])
SeededTo(l, n, z) ==
  Lamp(l, z.set) /\ NoLess(l, z.of) /\ \A y \in Rows : y < n => l.light[At(z.x, y)] >= z.b[y]
Seeding == INSTANCE Folding WITH Op <- Seed, P <- SeededTo

\* The boundary of a neighbour is taken over.
LEMMA SeededFacts ==
  ASSUME NEW z, IsSetting(z), NEW l, Lamp(l, z), NEW x, NEW b,
         \/ x = Width - 1 /\ b = z.east
         \/ x = 0 /\ b = z.west,
         NEW r, r = Seeded(l, x, b)
  PROVE  Lamp(r, z) /\ NoLess(r, l) /\ \A y \in Rows : r.light[At(x, y)] >= b[y]
<1> DEFINE seq == [k \in 1 .. Height |-> k - 1]
           v == [set |-> z, of |-> l, x |-> x, b |-> b]
<1>0. v.set = z /\ v.of = l /\ v.x = x /\ v.b = b
  OBVIOUS
<1>1. r = Seeding!OverSeq(l, seq, v)
  BY DEF Seeded, FoldLeft, Seeding!OverSeq, MapThenFoldSet, Seeding!MapThenFoldSet, Max,
         Seeding!Largest, Seed
<1> HIDE DEF v
<1>2. Height \in Nat /\ Rows = 0 .. Height - 1
  BY SidesFacts DEF Rows
<1>3. seq \in Seq(Rows) /\ Len(seq) = Height /\ \A k \in 1 .. Height : seq[k] = k - 1
  BY <1>2, CountedTo
<1> HIDE DEF seq
<1>4. b \in [Rows -> Levels] /\ x \in 0 .. Width - 1
  BY SidesFacts DEF IsSetting
<1>5. Glows(l, z)
  BY DEF Lamp
<1>6. SeededTo(l, 0, v)
  <2>1. \A y \in Rows : ~(y < 0)
    BY <1>2
  <2>2. NoLess(l, l)
    BY <1>5, NoLessItself
  <2> QED BY <1>0, <2>1, <2>2 DEF SeededTo
<1>7. ASSUME NEW k, NEW m \in 1 .. Height, SeededTo(k, m - 1, v)
      PROVE  SeededTo(Seed(k, seq[m], v), m, v)
  <2> DEFINE y == m - 1
             i == At(x, y)
             n == b[y]
             s == Raised(k, i, n)
  <2>1. seq[m] = y /\ y \in Rows
    BY <1>2, <1>3
  <2>2. Seed(k, seq[m], v) = s
    BY <1>0, <2>1 DEF Seed
  <2>3. i \in Places /\ X(i) = x /\ Y(i) = y
    BY <1>4, <2>1, PlaceFacts
  <2>4. n \in Levels
    BY <1>4, <2>1
  <2>5. Grounded(k, z, i, n)
    <3>1. n <= n
      BY <2>4, LevelFacts
    <3>2. (X(i) = Width - 1 /\ n <= z.east[Y(i)]) \/ (X(i) = 0 /\ n <= z.west[Y(i)])
      BY <2>3, <3>1
    <3> QED BY <3>2 DEF Grounded, Given
  <2>6. /\ Lamp(k, z) /\ NoLess(k, l)
        /\ \A w \in Rows : w < m - 1 => k.light[At(x, w)] >= b[w]
    BY <1>0, <1>7 DEF SeededTo
  <2> HIDE DEF n
  <2>7. s = Raised(k, i, n)
    OBVIOUS
  <2> HIDE DEF s, i
  <2>8. Lamp(s, z) /\ s.light[i] >= n /\ NoLess(s, k)
    BY <2>3, <2>4, <2>5, <2>6, <2>7, RaisedLamp
  <2>9. NoLess(s, l)
    BY <1>5, <2>6, <2>8, NoLessAgain DEF Lamp
  <2>10. ASSUME NEW w \in Rows, w < m
         PROVE  s.light[At(x, w)] >= b[w]
    <3>1. CASE w = y
      BY <2>8, <3>1 DEF i, n
    <3>2. CASE w # y
      <4> DEFINE j == At(x, w)
      <4>1. w < m - 1
        BY <1>2, <2>10, <3>2
      <4>2. k.light[j] >= b[w]
        BY <2>6, <4>1
      <4>3. j \in Places
        BY <1>4, PlaceFacts
      <4> HIDE DEF j
      <4>4. s.light[j] >= k.light[j]
        BY <2>8, <4>3 DEF NoLess
      <4>5. s.light[j] \in Nat /\ k.light[j] \in Nat
        BY <2>6, <2>8, <4>3, GlowFacts DEF Lamp
      <4>6. b[w] \in Nat
        BY <1>4, LevelFacts
      <4>7. s.light[j] >= b[w]
        BY <4>2, <4>4, <4>5, <4>6
      <4> QED BY <4>7 DEF j
    <3> QED BY <3>1, <3>2
  <2>11. SeededTo(s, m, v)
    BY <1>0, <2>8, <2>9, <2>10 DEF SeededTo
  <2> QED BY <2>2, <2>11
<1>8. \A k : \A m \in 1 .. Len(seq) : SeededTo(k, m - 1, v) => SeededTo(Seed(k, seq[m], v), m, v)
  BY <1>3, <1>7
<1>9. SeededTo(r, Height, v)
  BY <1>1, <1>3, <1>6, <1>8, Seeding!OverSeqInduction
<1>10. \A y \in Rows : y < Height
  BY <1>2
<1> QED BY <1>0, <1>9, <1>10 DEF SeededTo

----------------------------------------------------------------------------
(* The light spreads                                                       *)

Pour(l, k, z) == Spread(l, z.set.blocks)
PouredTo(l, n, z) ==
  /\ Glows(l, z.set) /\ AllSettled(l, z.set) /\ NoLess(l, z.of)
  /\ l.queue = <<>> \/ Work(l) <= Work(z.of) - n
Pouring == INSTANCE Folding WITH Op <- Pour, P <- PouredTo

\* The queue runs empty: Width * Height * MaxLight rounds are enough.
LEMMA FloodFacts ==
  ASSUME NEW z, IsSetting(z), NEW l, Lamp(l, z), NEW r, r = Flood(l, z.blocks)
  PROVE  Glows(r, z) /\ AllSettled(r, z) /\ NoLess(r, l) /\ r.queue = <<>>
<1> DEFINE seq == [k \in 1 .. Width * Height * MaxLight |-> k]
           v == [set |-> z, of |-> l]
<1>0. v.set = z /\ v.of = l
  OBVIOUS
<1>1. r = Pouring!OverSeq(l, seq, v)
  BY DEF Flood, FoldLeft, Pouring!OverSeq, MapThenFoldSet, Pouring!MapThenFoldSet, Max,
         Pouring!Largest, Pour
<1> HIDE DEF v
<1>2. Total \in Nat /\ seq = [k \in 1 .. Total |-> k]
  BY TotalFacts DEF Total
<1> HIDE DEF seq
<1>3. seq \in Seq(Nat) /\ Len(seq) = Total
  <2>1. \A k \in 1 .. Total : k \in Nat
    BY <1>2
  <2>2. seq \in Seq(Nat)
    BY <1>2, <2>1, IsASeq
  <2>3. DOMAIN seq = 1 .. Len(seq) /\ Len(seq) \in Nat
    BY <2>2, LenProperties
  <2> QED BY <1>2, <2>2, <2>3
<1>4. Glows(l, z) /\ AllSettled(l, z) /\ Work(l) <= Total
  BY DEF Lamp
<1>5. PouredTo(l, 0, v)
  <2>1. NoLess(l, l) /\ Work(l) \in Nat
    BY <1>4, NoLessItself, GlowFacts
  <2> QED BY <1>0, <1>4, <2>1 DEF PouredTo
<1>6. ASSUME NEW k, NEW n \in 1 .. Total, NEW m, PouredTo(k, n - 1, v)
      PROVE  PouredTo(Pour(k, m, v), n, v)
  <2> DEFINE s == Spread(k, z.blocks)
  <2>1. Pour(k, m, v) = s
    BY <1>0 DEF Pour
  <2>2. /\ Glows(k, z) /\ AllSettled(k, z) /\ NoLess(k, l)
        /\ k.queue = <<>> \/ Work(k) <= Work(l) - (n - 1)
    BY <1>0, <1>6 DEF PouredTo
  <2>3. CASE k.queue = <<>>
    <3>1. s = k
      BY <2>3 DEF Spread
    <3> QED BY <1>0, <2>1, <2>2, <2>3, <3>1 DEF PouredTo
  <2>4. CASE k.queue # <<>>
    <3> HIDE DEF s
    <3>1. s = Spread(k, z.blocks)
      BY DEF s
    <3>2. /\ Glows(s, z) /\ AllSettled(s, z) /\ Work(s) <= Work(k) - 1
          /\ \A j \in Places : s.light[j] >= k.light[j]
      BY <2>2, <2>4, <3>1, SpreadFacts
    <3>3. NoLess(s, l)
      BY <1>4, <2>2, <3>2, NoLessAgain DEF NoLess
    <3>4. Work(s) <= Work(l) - n
      <4>1. Work(s) \in Nat /\ Work(k) \in Nat /\ Work(l) \in Nat /\ n \in Int
        BY <1>4, <2>2, <3>2, GlowFacts
      <4> QED BY <2>2, <2>4, <3>2, <4>1
    <3> QED BY <1>0, <2>1, <3>2, <3>3, <3>4 DEF PouredTo
  <2> QED BY <2>3, <2>4
<1>7. \A k : \A n \in 1 .. Len(seq) : PouredTo(k, n - 1, v) => PouredTo(Pour(k, seq[n], v), n, v)
  BY <1>3, <1>6
<1>8. PouredTo(r, Total, v)
  BY <1>1, <1>3, <1>5, <1>7, Pouring!OverSeqInduction
<1>9. /\ Glows(r, z) /\ AllSettled(r, z) /\ NoLess(r, l)
      /\ r.queue = <<>> \/ Work(r) <= Work(l) - Total
  BY <1>0, <1>8 DEF PouredTo
<1>10. r.queue = <<>>
  <2> SUFFICES ASSUME Work(r) <= Work(l) - Total PROVE r.queue = <<>>
    BY <1>9
  <2> DEFINE a == Len(r.queue)
             b == Cardinality(Unlit(r))
  <2>1. a \in Nat /\ b \in Nat /\ Work(r) = a + b /\ Work(l) \in Nat
    BY <1>4, <1>9, GlowFacts, UnlitFacts DEF Work
  <2>2. a = 0
    <3> HIDE DEF a, b
    <3> QED BY <1>2, <1>4, <2>1
  <2>3. r.queue \in Seq(Tokens)
    BY <1>9 DEF Glows
  <2> QED BY <2>2, <2>3, EmptySeq
<1> QED BY <1>9, <1>10

\* The largest number of a set is the one that is reached and not exceeded.
LEMMA MaxIs ==
  ASSUME NEW S, S \subseteq Int, NEW x \in Int, \A y \in S : y <= x, NEW g \in S, x <= g
  PROVE  x = Max(S)
<1>1. x = g
  OBVIOUS
<1>2. x \in S /\ \A y \in S : x >= y
  BY <1>1
<1>3. \A m \in S : (\A y \in S : m >= y) => m = x
  BY <1>2
<1> QED BY <1>2, <1>3 DEF Max

\* compute_block_light: a light, and the one that the blocks and the boundary demand.
LEMMA BlockLightExplained ==
  ASSUME NEW blocks \in [Places -> Ids], NEW east \in [Rows -> Levels], NEW west \in [Rows -> Levels],
         NEW a, a = BlockLight(blocks, east, west)
  PROVE  a \in [Places -> Levels] /\ Explained(a, blocks, east, west)
<1> DEFINE z == Setting(blocks, east, west)
           l == EmittedLight(z)
           m == Seeded(l, Width - 1, east)
           n == Seeded(m, 0, west)
           r == Flood(n, blocks)
<1>0. z.blocks = blocks /\ z.east = east /\ z.west = west /\ IsSetting(z)
  BY DEF Setting, IsSetting
<1>1. a = r.light
  BY SMTT(30) DEF BlockLight, EmittedLight, NoLight, LightOf, Setting, FoldLeft,
                  Emitting!OverSeq, MapThenFoldSet, Emitting!MapThenFoldSet, Max,
                  Emitting!Largest, Emit
<1> HIDE DEF z
<1>2. Lamp(l, z) /\ \A i \in Places : l.light[i] >= Emission[blocks[i]]
  BY <1>0, EmittedFacts
<1> HIDE DEF l
<1>3. m = Seeded(l, Width - 1, east)
  OBVIOUS
<1> HIDE DEF m
<1>4. Lamp(m, z) /\ NoLess(m, l) /\ \A y \in Rows : m.light[At(Width - 1, y)] >= east[y]
  BY <1>0, <1>2, <1>3, SeededFacts
<1>5. n = Seeded(m, 0, west)
  OBVIOUS
<1> HIDE DEF n
<1>6. Lamp(n, z) /\ NoLess(n, m) /\ \A y \in Rows : n.light[At(0, y)] >= west[y]
  BY <1>0, <1>4, <1>5, SeededFacts
<1>7. r = Flood(n, z.blocks)
  BY <1>0
<1> HIDE DEF r
<1>8. Glows(r, z) /\ AllSettled(r, z) /\ NoLess(r, n) /\ r.queue = <<>>
  BY <1>0, <1>6, <1>7, FloodFacts
<1>9. NoLess(r, m) /\ NoLess(r, l)
  <2>1. Glows(l, z) /\ Glows(m, z) /\ Glows(n, z)
    BY <1>2, <1>4, <1>6 DEF Lamp
  <2>2. NoLess(r, m)
    BY <1>6, <1>8, <2>1, NoLessAgain
  <2> QED BY <1>4, <1>8, <2>1, <2>2, NoLessAgain
<1>10. a \in [Places -> Levels]
  BY <1>1, <1>8 DEF Glows
<1>11. ASSUME NEW i \in Places
       PROVE  a[i] = Max({Emission[blocks[i]]}
                         \cup (IF X(i) = Width - 1 THEN {east[Y(i)]} ELSE {})
                         \cup (IF X(i) = 0 THEN {west[Y(i)]} ELSE {})
                         \cup {Less(a[j], 1 + Opacity[blocks[i]]) : j \in ToSet(Around(i))})
  <2> DEFINE e == Emission[blocks[i]]
             fromEast == IF X(i) = Width - 1 THEN {east[Y(i)]} ELSE {}
             fromWest == IF X(i) = 0 THEN {west[Y(i)]} ELSE {}
             passed == {Less(a[j], 1 + Opacity[blocks[i]]) : j \in ToSet(Around(i))}
             S == {e} \cup fromEast \cup fromWest \cup passed
  <2>1. e \in Int /\ a[i] \in Int /\ Y(i) \in Rows /\ X(i) \in Int
    <3>1. e \in Levels /\ a[i] \in Levels
      BY <1>10, SidesFacts DEF Levels
    <3>2. X(i) \in 0 .. Width - 1 /\ Y(i) \in Rows
      BY PlaceFacts
    <3> QED BY <3>1, <3>2, LevelFacts
  <2>2. i = At(X(i), Y(i))
    BY PlaceFacts
  <2>3. passed = {Passed(a[j], z, i) : j \in Near(i)}
    BY <1>0, AroundFacts DEF Passed
  <2>4. \A j \in Near(i) : j \in Places /\ Passed(a[j], z, i) \in Int /\ a[i] >= Passed(a[j], z, i)
    <3> TAKE j \in Near(i)
    <3>1. j \in Places /\ i \in Near(j)
      BY NearEachOther
    <3>2. ~Waits(r, j)
      BY <1>8, EmptySeq DEF Waits
    <3>3. a[i] >= Passed(a[j], z, i)
      BY <1>1, <1>8, <3>1, <3>2 DEF AllSettled, Settled
    <3>4. Passed(a[j], z, i) \in Nat
      BY <1>0, <1>10, <3>1, PassedType
    <3> QED BY <3>1, <3>3, <3>4
  <2>5. a[i] >= e
    <3>1. l.light[i] >= e /\ a[i] >= l.light[i]
      BY <1>1, <1>2, <1>9 DEF NoLess
    <3>2. l.light[i] \in Nat
      BY <1>2, GlowFacts DEF Lamp
    <3> QED BY <2>1, <3>1, <3>2
  <2>6. X(i) = Width - 1 => a[i] >= east[Y(i)] /\ east[Y(i)] \in Int
    <3> SUFFICES ASSUME X(i) = Width - 1 PROVE a[i] >= east[Y(i)] /\ east[Y(i)] \in Int
      OBVIOUS
    <3>1. m.light[i] >= east[Y(i)]
      BY <1>4, <2>1, <2>2
    <3>2. a[i] >= m.light[i]
      BY <1>1, <1>9 DEF NoLess
    <3>3. m.light[i] \in Nat
      BY <1>4, GlowFacts DEF Lamp
    <3>4. east[Y(i)] \in Nat
      BY <2>1, LevelFacts
    <3> QED BY <2>1, <3>1, <3>2, <3>3, <3>4
  <2>7. X(i) = 0 => a[i] >= west[Y(i)] /\ west[Y(i)] \in Int
    <3> SUFFICES ASSUME X(i) = 0 PROVE a[i] >= west[Y(i)] /\ west[Y(i)] \in Int
      OBVIOUS
    <3>1. n.light[i] >= west[Y(i)]
      BY <1>6, <2>1, <2>2
    <3>2. a[i] >= n.light[i]
      BY <1>1, <1>8 DEF NoLess
    <3>3. n.light[i] \in Nat
      BY <1>6, GlowFacts DEF Lamp
    <3>4. west[Y(i)] \in Nat
      BY <2>1, LevelFacts
    <3> QED BY <2>1, <3>1, <3>2, <3>3, <3>4
  <2>8. Grounded(r, z, i, a[i])
    BY <1>1, <1>8 DEF Glows
  <2>9. \E g \in S : a[i] <= g
    <3>1. CASE a[i] <= e
      BY <3>1
    <3>2. CASE X(i) = Width - 1 /\ a[i] <= east[Y(i)]
      BY <3>2
    <3>3. CASE X(i) = 0 /\ a[i] <= west[Y(i)]
      BY <3>3
    <3>4. ASSUME NEW j \in Near(i), a[i] <= Passed(a[j], z, i)
          PROVE  \E g \in S : a[i] <= g
      <4>1. Passed(a[j], z, i) \in passed
        BY <2>3
      <4> QED BY <3>4, <4>1
    <3> QED BY <1>0, <1>1, <2>8, <3>1, <3>2, <3>3, <3>4 DEF Grounded, Given
  <2>10. S \subseteq Int /\ \A g \in S : g <= a[i]
    BY <2>1, <2>3, <2>4, <2>5, <2>6, <2>7
  <2> HIDE DEF S
  <2>11. a[i] = Max(S)
    BY <2>1, <2>9, <2>10, MaxIs
  <2> QED BY <2>11 DEF S
<1>12. Explained(a, blocks, east, west)
  BY <1>11 DEF Explained
<1> QED BY <1>10, <1>12

----------------------------------------------------------------------------
(* The light of the store                                                  *)

\* The block light of every chunk that is kept has a level in each cell.
AllLit(f) == \A c \in DOMAIN f : f[c].light.block \in [Places -> Levels]
LitStore == AllLit(store.chunks) /\ AllLit(saved) /\ AllLit(edit.pending_chunks)

\* The faces of the neighbours are rows of levels, dark ones without a neighbour.
LEMMA FaceLit ==
  ASSUME NEW f, AllLit(f), NEW c, NEW x \in 0 .. Width - 1
  PROVE  Face(f, c, x).block \in [Rows -> Levels]
<1>1. CASE c \in DOMAIN f
  <2> DEFINE b == f[c].light.block
  <2>1. b \in [Places -> Levels]
    BY <1>1 DEF AllLit
  <2>2. Face(f, c, x).block = [y \in Rows |-> b[At(x, y)]]
    BY <1>1 DEF Face
  <2> HIDE DEF b
  <2>3. \A y \in Rows : At(x, y) \in Places
    BY PlaceFacts
  <2> QED BY <2>1, <2>2, <2>3
<1>2. CASE c \notin DOMAIN f
  <2>1. Face(f, c, x).block = [y \in Rows |-> 0]
    BY <1>2 DEF Face, Dark
  <2>2. 0 \in Levels
    BY SidesFacts DEF Levels
  <2> QED BY <2>1, <2>2
<1> QED BY <1>1, <1>2

\* The faces of both neighbours.
LEMMA FacesLit ==
  ASSUME NEW f, AllLit(f), NEW c
  PROVE  East(f, c).block \in [Rows -> Levels] /\ West(f, c).block \in [Rows -> Levels]
<1>1. Width - 1 \in 0 .. Width - 1 /\ 0 \in 0 .. Width - 1
  BY SidesFacts
<1>2. East(f, c).block \in [Rows -> Levels]
  BY <1>1, FaceLit DEF East
<1>3. West(f, c).block \in [Rows -> Levels]
  BY <1>1, FaceLit DEF West
<1> QED BY <1>2, <1>3

\* What recompute_light gives a section between its neighbours is explained by them.
LEMMA LitExplained ==
  ASSUME NEW f, AllLit(f), NEW c, NEW s, Sound(s),
         NEW l, l = Lit(Blocks(s), East(f, c), West(f, c))
  PROVE  /\ l.block \in [Places -> Levels]
         /\ Explained(l.block, Blocks(s), East(f, c).block, West(f, c).block)
<1> DEFINE e == East(f, c)
           w == West(f, c)
           b == Blocks(s)
           east == e.block
           west == w.block
<1>1. east \in [Rows -> Levels] /\ west \in [Rows -> Levels]
  BY FacesLit
<1>2. b \in [Places -> Ids]
  BY BlocksType, SidesFacts
<1>3. l = Lit(b, e, w)
  OBVIOUS
<1> HIDE DEF e, w, b
<1>4. l.block = BlockLight(b, [y \in Rows |-> east[y]], [y \in Rows |-> west[y]])
  BY <1>3 DEF Lit
<1> HIDE DEF east, west
<1>5. l.block = BlockLight(b, east, west)
  <2>1. east = [y \in Rows |-> east[y]] /\ west = [y \in Rows |-> west[y]]
    BY <1>1
  <2> QED BY <1>4, <2>1
<1>6. l.block \in [Places -> Levels] /\ Explained(l.block, b, east, west)
  BY ONLY <1>1, <1>2, <1>5, BlockLightExplained
<1> QED BY <1>6 DEF b, e, w, east, west

\* A new chunk is dark.
LEMMA NewLit == NewLight.block \in [Places -> Levels]
<1>1. NewLight.block = [i \in Places |-> 0]
  BY SidesFacts DEF NewLight
<1>2. 0 \in Levels
  BY SidesFacts DEF Levels
<1> QED BY <1>1, <1>2

\* No chunk, no light.
LEMMA NoneLit == AllLit(<<>>)
  BY EmptyTable DEF AllLit

\* Forgetting chunks changes no light.
LEMMA TrimLit ==
  ASSUME NEW f, NEW g, Trim(g, f), AllLit(f)
  PROVE  AllLit(g)
  BY DEF AllLit, Trim

\* A chunk with light is put in.
LEMMA PutsLit ==
  ASSUME NEW in, NEW c, NEW s, NEW l, Puts(in, c, s, l), AllLit(store.chunks),
         l.block \in [Places -> Levels]
  PROVE  AllLit(in)
<1> SUFFICES ASSUME NEW d \in DOMAIN in PROVE in[d].light.block \in [Places -> Levels]
  BY DEF AllLit
<1>1. CASE d = c
  BY <1>1 DEF Puts
<1>2. CASE d # c
  <2>1. d \in DOMAIN store.chunks /\ in[d] = store.chunks[d]
    BY <1>2 DEF Puts
  <2> QED BY <2>1 DEF AllLit
<1> QED BY <1>1, <1>2

\* Chunks with light are put over others.
LEMMA JoinedLit ==
  ASSUME NEW f, NEW g, Shaped(f), Shaped(g), AllLit(f), AllLit(g)
  PROVE  AllLit(Joined(f, g))
<1> SUFFICES ASSUME NEW d \in DOMAIN Joined(f, g)
             PROVE  Joined(f, g)[d].light.block \in [Places -> Levels]
  BY DEF AllLit
<1>1. d \in DOMAIN f \cup DOMAIN g
  BY JoinedFacts
<1>2. CASE d \in DOMAIN g
  <2>1. Joined(f, g)[d] = g[d]
    BY <1>2 DEF Joined
  <2> QED BY <1>2, <2>1 DEF AllLit
<1>3. CASE d \in DOMAIN f \ DOMAIN g
  <2>1. Joined(f, g)[d] = f[d]
    BY <1>3 DEF Joined
  <2> QED BY <1>3, <2>1 DEF AllLit
<1> QED BY <1>1, <1>2, <1>3

\* The chunk computed again has its own light, the others keep theirs.
LEMMA RelitLit ==
  ASSUME NEW f, Shaped(f), AllSound(f), AllLit(f), NEW c
  PROVE  AllLit(Relit(f, c))
<1> DEFINE h == Relit(f, c)
<1>1. /\ DOMAIN h = DOMAIN f /\ \A d \in DOMAIN f : d # c => h[d] = f[d]
      /\ c \in DOMAIN f => h[c].light = Lit(Blocks(f[c].section), East(f, c), West(f, c))
  BY RelitFacts
<1> HIDE DEF h
<1>2. ASSUME NEW d \in DOMAIN h PROVE h[d].light.block \in [Places -> Levels]
  <2>1. CASE d = c
    <3>1. Sound(f[c].section)
      BY <1>1, <1>2, <2>1 DEF AllSound
    <3>2. h[c].light = Lit(Blocks(f[c].section), East(f, c), West(f, c))
      BY <1>1, <1>2, <2>1
    <3> QED BY <2>1, <3>1, <3>2, LitExplained
  <2>2. CASE d # c
    BY <1>1, <1>2, <2>2 DEF AllLit
  <2> QED BY <2>1, <2>2
<1> QED BY <1>2 DEF AllLit, h

\* The empty store has no light.
LEMMA LitInit == Init => LitStore
<1> SUFFICES ASSUME Init PROVE LitStore
  OBVIOUS
<1>1. edit.pending_chunks = <<>>
  BY NoEditIs, EditParts DEF Init
<1>2. store.chunks = <<>> /\ saved = <<>>
  BY DEF Init, EmptyStore
<1> QED BY <1>1, <1>2, NoneLit DEF LitStore

\* load_chunk and set_block compute the light of the chunk that is put in.
LEMMA PutsComputed ==
  ASSUME NEW in, NEW c, NEW s, Sound(s), AllLit(store.chunks), Puts(in, c, s, LitFor(c, s)),
         Trim(store'.chunks, in)
  PROVE  AllLit(store'.chunks)
<1> DEFINE l == LitFor(c, s)
<1>1. l.block \in [Places -> Levels]
  <2>1. l = Lit(Blocks(s), East(store.chunks, c), West(store.chunks, c))
    BY DEF LitFor
  <2> HIDE DEF l
  <2> QED BY <2>1, LitExplained
<1>2. Puts(in, c, s, l)
  OBVIOUS
<1> HIDE DEF l
<1> QED BY <1>1, <1>2, PutsLit, TrimLit

\* Every operation keeps the light of every chunk within its levels.
LEMMA LitStep ==
  ASSUME FillsFit
  PROVE  Typed /\ SoundStore /\ LitStore /\ [Next]_vars => LitStore'
<1> SUFFICES ASSUME Typed, SoundStore, LitStore, [Next]_vars PROVE LitStore'
  OBVIOUS
<1>1. AllLit(store.chunks) /\ AllLit(saved) /\ AllLit(edit.pending_chunks)
  BY DEF LitStore
<1>2. Shaped(store.chunks) /\ Shaped(saved) /\ Shaped(edit.pending_chunks) /\ AllSound(store.chunks)
  BY DEF Typed, TypedEdit, SoundStore
<1>3. ASSUME NEW c \in Coords, NEW f \in Fills, LoadChunk(c, f)
      PROVE  LitStore'
  <2>1. PICK in : Puts(in, c, Filled(f), LitFor(c, Filled(f))) /\ Trim(store'.chunks, in)
    BY <1>3, LoadChunkDoes
  <2>2. Sound(Filled(f))
    BY FillSound
  <2>3. AllLit(store'.chunks)
    BY ONLY <1>1, <2>1, <2>2, PutsComputed
  <2>4. UNCHANGED <<saved, edit>>
    BY <1>3 DEF LoadChunk
  <2> QED BY <1>1, <2>3, <2>4 DEF LitStore
<1>4. ASSUME NEW c \in Coords, NEW i \in Sites, NEW id \in Ids, SetBlock(c, i, id)
      PROVE  LitStore'
  <2> DEFINE s == WithBlock(store.chunks[c].section, i, id)
  <2>1. PICK in : Puts(in, c, s, LitFor(c, s)) /\ Trim(store'.chunks, in)
    BY <1>4, SetBlockDoes
  <2>2. Sound(s)
    <3>1. c \in DOMAIN store.chunks /\ i \in Cells
      BY <1>4, StoreAssumption DEF SetBlock
    <3>2. Sound(store.chunks[c].section)
      BY <1>2, <3>1 DEF AllSound
    <3> QED BY <3>1, <3>2, BlockWritten
  <2> HIDE DEF s
  <2>3. AllLit(store'.chunks)
    BY ONLY <1>1, <2>1, <2>2, PutsComputed
  <2>4. UNCHANGED <<saved, edit>>
    BY <1>4 DEF SetBlock
  <2> QED BY <1>1, <2>3, <2>4 DEF LitStore
<1>5. ASSUME NEW c \in Coords, UnloadChunk(c)
      PROVE  LitStore'
  <2>1. AllLit(store'.chunks)
    BY <1>1, <1>5, UnloadChunkDoes DEF AllLit
  <2>2. UNCHANGED <<saved, edit>>
    BY <1>5 DEF UnloadChunk
  <2> QED BY <1>1, <2>1, <2>2 DEF LitStore
<1>6. ASSUME NEW c \in Coords, GetOrGenerateChunk(c)
      PROVE  LitStore'
  <2>1. \/ store'.chunks = store.chunks
        \/ \E in : Puts(in, c, Generation(Generated), NewLight) /\ Trim(store'.chunks, in)
    BY <1>6, GetOrGenerateChunkDoes
  <2>2. AllLit(store'.chunks)
    BY <1>1, <2>1, NewLit, PutsLit, TrimLit
  <2>3. UNCHANGED <<saved, edit>>
    BY <1>6 DEF GetOrGenerateChunk
  <2> QED BY <1>1, <2>2, <2>3 DEF LitStore
<1>7. ASSUME NEW n \in Limits, SetMaxChunks(n)
      PROVE  LitStore'
  BY <1>1, <1>7 DEF SetMaxChunks, LitStore
<1>8. CASE SaveAll
  <2>1. saved' = Joined(saved, store.chunks) /\ UNCHANGED <<store, edit>>
    BY <1>8 DEF SaveAll, Joined
  <2>2. AllLit(saved')
    BY <1>1, <1>2, <2>1, JoinedLit
  <2> QED BY <1>1, <2>1, <2>2 DEF LitStore
<1>9. CASE LoadAll
  <2>1. store'.chunks = Joined(store.chunks, saved)
    BY <1>9, LoadAllDoes
  <2>2. AllLit(store'.chunks)
    BY <1>1, <1>2, <2>1, JoinedLit
  <2>3. UNCHANGED <<saved, edit>>
    BY <1>9 DEF LoadAll
  <2> QED BY <1>1, <2>2, <2>3 DEF LitStore
<1>10. CASE TakeDirtyChunks
  <2>1. store'.chunks = store.chunks
    BY <1>10, CleanStore DEF TakeDirtyChunks
  <2> QED BY <1>1, <1>10, <2>1 DEF TakeDirtyChunks, LitStore
<1>11. CASE StartBulkEdit
  <2>1. edit'.pending_chunks = <<>>
    BY <1>11, StartedEdit, EditParts
  <2>2. UNCHANGED <<store, saved>>
    BY <1>11 DEF StartBulkEdit
  <2> QED BY <1>1, <2>1, <2>2, NoneLit DEF LitStore
<1>12. CASE Abort
  <2>1. edit'.pending_chunks = <<>>
    BY <1>12, NoEditIs, EditParts DEF Abort
  <2>2. UNCHANGED <<store, saved>>
    BY <1>12 DEF Abort
  <2> QED BY <1>1, <2>1, <2>2, NoneLit DEF LitStore
<1>13. CASE Finalize
  <2>1. Trim(store'.chunks, Joined(store.chunks, edit.pending_chunks)) /\ edit'.pending_chunks = <<>>
    BY <1>13, FinalizeDoes, EditParts
  <2>2. AllLit(Joined(store.chunks, edit.pending_chunks))
    BY <1>1, <1>2, JoinedLit
  <2>3. AllLit(store'.chunks)
    BY <2>1, <2>2, TrimLit
  <2>4. UNCHANGED saved
    BY <1>13 DEF Finalize
  <2> QED BY <1>1, <2>1, <2>3, <2>4, NoneLit DEF LitStore
<1>14. CASE NextRound
  <2>1. edit'.pending_chunks = edit.pending_chunks
    BY <1>14, NextRoundDoes, EditParts
  <2>2. UNCHANGED <<store, saved>>
    BY <1>14 DEF NextRound
  <2> QED BY <1>1, <2>1, <2>2 DEF LitStore
<1>15. CASE FinalizeReturns
  <2>1. store'.chunks = store.chunks /\ edit'.pending_chunks = <<>>
    BY <1>15, CleanStore, NoEditIs, EditParts DEF FinalizeReturns
  <2>2. UNCHANGED saved
    BY <1>15 DEF FinalizeReturns
  <2> QED BY <1>1, <2>1, <2>2, NoneLit DEF LitStore
<1>16. ASSUME NEW c \in Coords, NEW f \in Fills, FillChunk(c, f)
       PROVE  LitStore'
  <2>1. /\ DOMAIN edit'.pending_chunks = DOMAIN edit.pending_chunks \cup {c}
        /\ \/ c \in DOMAIN edit.pending_chunks /\ edit'.pending_chunks[c].light = edit.pending_chunks[c].light
           \/ c \in DOMAIN store.chunks /\ edit'.pending_chunks[c].light = store.chunks[c].light
           \/ edit'.pending_chunks[c].light = NewLight
        /\ \A d \in DOMAIN edit.pending_chunks : d # c =>
             edit'.pending_chunks[d] = edit.pending_chunks[d]
    BY <1>16, FillChunkDoes
  <2>2. edit'.pending_chunks[c].light.block \in [Places -> Levels]
    BY <1>1, <2>1, NewLit DEF AllLit
  <2>3. AllLit(edit'.pending_chunks)
    <3> SUFFICES ASSUME NEW d \in DOMAIN edit'.pending_chunks
                 PROVE  edit'.pending_chunks[d].light.block \in [Places -> Levels]
      BY DEF AllLit
    <3>1. CASE d = c
      BY <2>2, <3>1
    <3>2. CASE d # c
      BY <1>1, <2>1, <3>2 DEF AllLit
    <3> QED BY <3>1, <3>2
  <2>4. UNCHANGED <<store, saved>>
    BY <1>16 DEF FillChunk
  <2> QED BY <1>1, <2>3, <2>4 DEF LitStore
<1>17. ASSUME NEW c \in edit.to_process, Relight(c)
       PROVE  LitStore'
  <2>1. store'.chunks = Relit(store.chunks, c) /\ edit'.pending_chunks = edit.pending_chunks
    BY <1>17, RelightDoes
  <2>2. AllLit(store'.chunks)
    BY <1>1, <1>2, <2>1, RelitLit
  <2>3. UNCHANGED saved
    BY <1>17 DEF Relight
  <2> QED BY <1>1, <2>1, <2>2, <2>3 DEF LitStore
<1>18. CASE UNCHANGED vars
  BY <1>1, <1>18 DEF vars, LitStore
<1> QED BY <1>3, <1>4, <1>5, <1>6, <1>7, <1>8, <1>9, <1>10, <1>11, <1>12, <1>13, <1>14, <1>15,
           <1>16, <1>17, <1>18 DEF Next, BulkEdit

\* The block light of every chunk the store keeps gives each cell a level of at most 15.
THEOREM StoreLevels ==
  ASSUME FillsFit
  PROVE  Spec => []LitStore
<1>1. Typed /\ SoundStore /\ LitStore /\ [Next]_vars => LitStore'
  BY LitStep
<1>2. Spec => []SoundStore
  BY SectionsSound
<1> QED BY <1>1, <1>2, LitInit, StoreTyped, PTL DEF Spec

----------------------------------------------------------------------------
(* The rounds of finalize                                                  *)

\* The light of chunk c in the table f is the one its neighbours there demand.
RightIn(f, c) == Explained(f[c].light.block, Blocks(f[c].section), East(f, c).block, West(f, c).block)

\* While finalize computes light, each chunk it is concerned with has the right
\* light or will be looked at again.
Relighting ==
  edit.phase = "relight" =>
    \A c \in store.dirty_chunks \cap DOMAIN store.chunks :
      c \in edit.to_process \cup edit.next_round \/ RightIn(store.chunks, c)

\* A chunk just computed has the right light; it does not look at itself.
LEMMA RelitRight ==
  ASSUME NEW f, Shaped(f), AllSound(f), AllLit(f), NEW c \in DOMAIN f, c \in Int
  PROVE  RightIn(Relit(f, c), c)
<1> DEFINE h == Relit(f, c)
           s == f[c].section
           l == h[c].light
<1>1. /\ DOMAIN h = DOMAIN f /\ (\A d \in DOMAIN f : d # c => h[d] = f[d])
      /\ h[c].section = s /\ l = Lit(Blocks(s), East(f, c), West(f, c))
  BY RelitFacts
<1> HIDE DEF h
<1>2. East(h, c) = East(f, c) /\ West(h, c) = West(f, c)
  <2>1. (\A d : d # c => (d \in DOMAIN h <=> d \in DOMAIN f)) /\ (\A d \in DOMAIN h : d # c => h[d] = f[d])
    BY <1>1
  <2> QED BY <2>1, FacesSame
<1>3. Explained(l.block, Blocks(s), East(f, c).block, West(f, c).block)
  <2>1. Sound(s)
    BY DEF AllSound
  <2>2. l = Lit(Blocks(s), East(f, c), West(f, c))
    BY <1>1
  <2> HIDE DEF s, l
  <2> QED BY <2>1, <2>2, LitExplained
<1> HIDE DEF s
<1>4. Explained(h[c].light.block, Blocks(h[c].section), East(h, c).block, West(h, c).block)
  BY <1>1, <1>2, <1>3
<1> QED BY <1>4 DEF RightIn, h

\* A chunk that is not beside c keeps its light and its neighbours' faces.
LEMMA RightFarAway ==
  ASSUME NEW f, Shaped(f), NEW c \in Int, NEW d \in DOMAIN f, d \in Int, d # c, d # c - 1, d # c + 1,
         RightIn(f, d)
  PROVE  RightIn(Relit(f, c), d)
<1> DEFINE h == Relit(f, c)
<1>1. DOMAIN h = DOMAIN f /\ \A e \in DOMAIN f : e # c => h[e] = f[e]
  BY RelitFacts
<1> HIDE DEF h
<1>2. ASSUME NEW k, k # c, NEW x PROVE Face(h, k, x) = Face(f, k, x)
  <2>1. (k \in DOMAIN h <=> k \in DOMAIN f) /\ (k \in DOMAIN h => h[k] = f[k])
    BY <1>1, <1>2
  <2> QED BY <2>1, FaceSame
<1>3. d + 1 # c /\ d - 1 # c
  OBVIOUS
<1>4. East(h, d) = East(f, d) /\ West(h, d) = West(f, d)
  <2> DEFINE a == d + 1
             b == d - 1
             x == Width - 1
  <2>1. a # c /\ b # c
    BY <1>3
  <2> HIDE DEF a, b, x
  <2>2. Face(h, a, x) = Face(f, a, x) /\ Face(h, b, 0) = Face(f, b, 0)
    BY <1>2, <2>1
  <2> QED BY <2>2 DEF East, West, a, b, x
<1>5. h[d] = f[d]
  BY <1>1
<1> QED BY <1>4, <1>5 DEF RightIn, h

\* No operation leaves a chunk with wrong light that finalize does not look at again.
LEMMA RelightingStep ==
  ASSUME FillsFit
  PROVE  Typed /\ SoundStore /\ LitStore /\ Relighting /\ [Next]_vars => Relighting'
<1> SUFFICES ASSUME Typed, SoundStore, LitStore, Relighting, [Next]_vars PROVE Relighting'
  OBVIOUS
<1>1. ASSUME edit' = edit, edit.phase # "relight"
      PROVE  Relighting'
  BY <1>1 DEF Relighting
<1>2. ASSUME NEW c \in Coords, NEW f \in Fills, LoadChunk(c, f)
      PROVE  Relighting'
  BY <1>1, <1>2 DEF LoadChunk, Free
<1>3. ASSUME NEW c \in Coords, NEW i \in Sites, NEW id \in Ids, SetBlock(c, i, id)
      PROVE  Relighting'
  BY <1>1, <1>3 DEF SetBlock, Free
<1>4. ASSUME NEW c \in Coords, UnloadChunk(c)
      PROVE  Relighting'
  BY <1>1, <1>4 DEF UnloadChunk, Free
<1>5. ASSUME NEW c \in Coords, GetOrGenerateChunk(c)
      PROVE  Relighting'
  BY <1>1, <1>5 DEF GetOrGenerateChunk, Free
<1>6. ASSUME NEW n \in Limits, SetMaxChunks(n)
      PROVE  Relighting'
  BY <1>1, <1>6 DEF SetMaxChunks, Free
<1>7. CASE SaveAll
  BY <1>1, <1>7 DEF SaveAll, Free
<1>8. CASE LoadAll
  BY <1>1, <1>8 DEF LoadAll, Free
<1>9. CASE TakeDirtyChunks
  BY <1>1, <1>9 DEF TakeDirtyChunks, Free
<1>10. CASE StartBulkEdit
  <2>1. edit'.phase = "filling"
    BY <1>10, StartedEdit, EditParts
  <2> QED BY <2>1 DEF Relighting
<1>11. CASE Abort
  <2>1. edit'.phase = "none"
    BY <1>11, NoEditIs, EditParts DEF Abort
  <2> QED BY <2>1 DEF Relighting
<1>12. CASE Finalize
  <2>1. edit'.to_process = store'.dirty_chunks \cap DOMAIN store'.chunks
    BY <1>12, FinalizeDoes, EditParts
  <2> QED BY <2>1 DEF Relighting
<1>13. CASE NextRound
  <2>1. edit'.phase = edit.phase /\ edit'.to_process = edit.next_round
    BY <1>13, NextRoundDoes, EditParts
  <2>2. edit.phase = "relight" /\ edit.to_process = {} /\ store' = store
    BY <1>13 DEF NextRound
  <2> QED BY <2>1, <2>2 DEF Relighting
<1>14. CASE FinalizeReturns
  <2>1. edit'.phase = "none"
    BY <1>14, NoEditIs, EditParts DEF FinalizeReturns
  <2> QED BY <2>1 DEF Relighting
<1>15. ASSUME NEW c \in Coords, NEW f \in Fills, FillChunk(c, f)
       PROVE  Relighting'
  <2>1. edit'.phase = edit.phase /\ edit.phase = "filling"
    BY <1>15, FillChunkDoes DEF FillChunk
  <2> QED BY <2>1 DEF Relighting
<1>16. ASSUME NEW c \in edit.to_process, Relight(c)
       PROVE  Relighting'
  <2> DEFINE f == store.chunks
             n == IF store'.chunks = store.chunks THEN edit.next_round
                  ELSE edit.next_round \cup ({c - 1, c + 1} \cap DOMAIN store.chunks)
  <2>1. /\ store'.dirty_chunks = store.dirty_chunks /\ store'.chunks = Relit(f, c)
        /\ DOMAIN store'.chunks = DOMAIN f
    BY <1>16, RelightDoes
  <2>2. edit'.to_process = edit.to_process \ {c} /\ edit'.next_round = n
    <3>1. edit' = EditOf(edit.phase, edit.pending_chunks, edit.pending_access_order,
                         edit.to_process \ {c}, n, edit.round)
      BY <1>16, RelightDoes
    <3> HIDE DEF n
    <3> QED BY <3>1, EditParts
  <2>3. edit.phase = "relight"
    BY <1>16 DEF Relight
  <2>4. Shaped(f) /\ AllSound(f) /\ AllLit(f) /\ \A d \in DOMAIN f : d \in Int
    BY StoreFacts, StoreAssumption DEF SoundStore, LitStore
  <2>5. ASSUME NEW d \in store.dirty_chunks \cap DOMAIN f
        PROVE  d \in edit'.to_process \cup edit'.next_round \/ RightIn(store'.chunks, d)
    <3>1. d \in edit.to_process \cup edit.next_round \/ RightIn(f, d)
      BY <2>3, <2>5 DEF Relighting
    <3>2. CASE d = c
      <4>1. d \in DOMAIN f /\ d \in Int
        BY <2>4, <2>5
      <4>2. RightIn(Relit(f, d), d)
        BY ONLY <2>4, <4>1, RelitRight
      <4> QED BY <2>1, <3>2, <4>2
    <3>3. CASE d # c /\ d \in edit.to_process \cup edit.next_round
      BY <2>2, <3>3
    <3>4. CASE d # c /\ RightIn(f, d)
      <4>1. CASE store'.chunks = f
        BY <3>4, <4>1
      <4>2. CASE store'.chunks # f /\ d \in {c - 1, c + 1}
        BY <2>2, <2>5, <4>2
      <4>3. CASE store'.chunks # f /\ d \notin {c - 1, c + 1}
        <5>1. CASE c \in DOMAIN f
          <6>1. c \in Int /\ d \in DOMAIN f /\ d \in Int /\ d # c - 1 /\ d # c + 1
            BY <2>4, <2>5, <4>3, <5>1
          <6>2. RightIn(Relit(f, c), d)
            BY ONLY <2>4, <3>4, <6>1, RightFarAway
          <6> QED BY <2>1, <6>2
        <5>2. CASE c \notin DOMAIN f
          BY <2>1, <4>3, <5>2 DEF Relit
        <5> QED BY <5>1, <5>2
      <4> QED BY <4>1, <4>2, <4>3
    <3> QED BY <3>1, <3>2, <3>3, <3>4
  <2> QED BY <2>1, <2>5 DEF Relighting
<1>17. CASE UNCHANGED vars
  BY <1>17 DEF vars, Relighting
<1> QED BY <1>2, <1>3, <1>4, <1>5, <1>6, <1>7, <1>8, <1>9, <1>10, <1>11, <1>12, <1>13, <1>14, <1>15,
           <1>16, <1>17 DEF Next, BulkEdit

\* No bulk edit is open at first.
LEMMA RelightingInit == Init => Relighting
<1> SUFFICES ASSUME Init PROVE Relighting
  OBVIOUS
<1>1. edit.phase = "none"
  BY NoEditIs, EditParts DEF Init
<1> QED BY <1>1 DEF Relighting

\* finalize ends because no chunk is left, not because its rounds are used up.
RoundsSuffice ==
  edit.to_process = {} /\ edit.next_round # {} => ~ (edit.round + 1 >= MaxRounds)

\* What finalize has computed is right when no chunk is left.
LEMMA ReturnedRight ==
  ASSUME Typed, Relighting, RoundsSuffice, FinalizeReturns,
         NEW c \in store.dirty_chunks \cap DOMAIN store.chunks
  PROVE  LightRight(store, c, store)
<1>1. edit.phase = "relight" /\ edit.to_process = {} /\ edit.next_round = {}
  BY DEF FinalizeReturns, RoundsSuffice
<1>2. RightIn(store.chunks, c)
  BY <1>1 DEF Relighting
<1> QED BY <1>2 DEF RightIn, LightRight

\* What set_block computes is right for the neighbours as they are.
LEMMA WrittenRight ==
  ASSUME Typed, SoundStore, LitStore, NEW c \in DOMAIN store'.chunks, NEW i \in Sites, NEW id \in Ids,
         SetBlock(c, i, id)
  PROVE  LightRight(store', c, store)
<1> DEFINE s == WithBlock(store.chunks[c].section, i, id)
           l == LitFor(c, s)
<1>1. c \in DOMAIN store.chunks /\ c \in Coords /\ i \in Cells
  BY StoreFacts, StoreAssumption DEF SetBlock
<1>2. PICK in : Puts(in, c, s, l) /\ Trim(store'.chunks, in)
  BY <1>1, SetBlockDoes
<1>3. Sound(s)
  <2>1. Sound(store.chunks[c].section)
    BY <1>1 DEF SoundStore, AllSound
  <2> QED BY <1>1, <2>1, BlockWritten
<1> HIDE DEF s
<1>4. Explained(l.block, Blocks(s), East(store.chunks, c).block, West(store.chunks, c).block)
  <2>1. l = Lit(Blocks(s), East(store.chunks, c), West(store.chunks, c))
    BY DEF LitFor
  <2>2. AllLit(store.chunks)
    BY DEF LitStore
  <2> HIDE DEF l
  <2> QED BY <1>3, <2>1, <2>2, LitExplained
<1> HIDE DEF l
<1>5. store'.chunks[c].section = s /\ store'.chunks[c].light = l
  BY <1>2 DEF Puts, Trim
<1> QED BY <1>4, <1>5 DEF LightRight

\* Unless the rounds of finalize are used up, the block light of every chunk it was
\* concerned with is right for its neighbours when it returns, and that of a chunk in
\* which a block was written is right for the neighbours it was computed from.
THEOREM StoreLightsRight ==
  ASSUME FillsFit
  PROVE  Spec /\ []RoundsSuffice => LightsRight
<1> DEFINE Step ==
      /\ FinalizeReturns =>
           \A c \in store.dirty_chunks \cap DOMAIN store.chunks : LightRight(store, c, store)
      /\ \A c \in store'.dirty_chunks \cap DOMAIN store'.chunks, i \in Sites, id \in Ids :
           SetBlock(c, i, id) => LightRight(store', c, store)
<1>1. Typed /\ SoundStore /\ LitStore /\ Relighting /\ [Next]_vars => Relighting'
  BY RelightingStep
<1>2. Spec => []SoundStore /\ []LitStore
  BY SectionsSound, StoreLevels, PTL
<1>3. Typed /\ SoundStore /\ LitStore /\ Relighting /\ RoundsSuffice => Step
  BY ReturnedRight, WrittenRight
<1>4. Spec => []Typed
  BY StoreTyped
<1> HIDE DEF Step
<1>5. Spec /\ []RoundsSuffice => [][Step]_vars
  BY <1>1, <1>2, <1>3, <1>4, RelightingInit, PTL DEF Spec
<1> QED BY <1>5 DEF LightsRight, Step
=============================================================================
