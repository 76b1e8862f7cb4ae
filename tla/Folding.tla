------------------------------- MODULE Folding -------------------------------
(***************************************************************************)
(* What the folds of the community modules compute, for any operator.  The *)
(* operator that is folded and the assertion that it preserves are         *)
(* parameters of this module, so that                                      *)
(*                                                                         *)
(*   F == INSTANCE Folding WITH Op <- ..., P <- ...                        *)
(*                                                                         *)
(* makes the induction over one loop of the code a fact to cite.  What a   *)
(* loop uses besides its accumulator and the next element is in z.         *)
(***************************************************************************)
EXTENDS FiniteSetTheorems, SequenceTheorems, TLAPS

CONSTANTS
  Op(_, _, _),  \* Op(a, x, z): a with x folded into it
  P(_, _, _)    \* P(a, n, z): what holds of a once the first n are folded into it

Largest(T) == CHOOSE x \in T : \A y \in T : x >= y

\* FoldLeft of the community modules, spelled out.
OverSeq(base, seq, z) ==
  MapThenFoldSet(LAMBDA x, a : Op(a, x, z), base, LAMBDA i : seq[i], Largest, DOMAIN seq)

Chosen(T) == CHOOSE x \in T : TRUE

OverSet(base, S, z) ==
  MapThenFoldSet(LAMBDA x, a : Op(a, x, z), base, LAMBDA x : x, LAMBDA T : CHOOSE x \in T : TRUE, S)

----------------------------------------------------------------------------

\* A set of numbers that is not empty has a least one.
LEMMA Least ==
  ASSUME NEW T, T \subseteq Nat, T # {}
  PROVE  \E d \in T : \A e \in T : d <= e
<1> DEFINE L == OpToRel(<, Nat)
<1>1. IsWellFoundedOn(L, Nat)
  BY NatLessThanWellFounded
<1>2. \A x, y \in Nat : x < y => <<x, y>> \in L
  BY DEF OpToRel
<1> HIDE DEF L
<1>3. PICK d \in T : \A e \in T : ~(<<e, d>> \in L)
  BY <1>1, WFMin
<1>4. \A e \in T : ~(e < d)
  BY <1>2, <1>3
<1> QED BY <1>4

\* Sets of at most n elements; the value of a set whose element pick[T] is folded
\* last, given those of smaller sets.
UpTo(S, n) == {T \in SUBSET S : Cardinality(T) <= n}
Folded(f, T, base, e, pick, z) ==
  IF T = {} THEN base ELSE Op(f[T \ {pick[T]}], e[pick[T]], z)

IsTable(f, D, base, e, pick, z) == f = [T \in D |-> Folded(f, T, base, e, pick, z)]

LEMMA TableUpTo ==
  ASSUME NEW S, IsFiniteSet(S), NEW base, NEW e, NEW z,
         NEW pick, \A T \in SUBSET S : T # {} => pick[T] \in T, NEW n \in Nat
  PROVE  \E f : IsTable(f, UpTo(S, n), base, e, pick, z)
<1> DEFINE Made(k) == \E f : f = [T \in UpTo(S, k) |-> Folded(f, T, base, e, pick, z)]
           Bad == {k \in Nat : ~ Made(k)}
<1>1. \A T \in SUBSET S : IsFiniteSet(T) /\ Cardinality(T) \in Nat
  BY FS_Subset, FS_CardinalityType
<1>2. Made(0)
  <2>1. \A T \in UpTo(S, 0) : T = {}
    BY <1>1, FS_EmptySet DEF UpTo
  <2>2. PICK f : f = [T \in UpTo(S, 0) |-> base]
    OBVIOUS
  <2>3. f = [T \in UpTo(S, 0) |-> Folded(f, T, base, e, pick, z)]
    BY <2>1, <2>2 DEF Folded
  <2> QED BY <2>3
<1>3. ASSUME NEW k \in Nat, Made(k)
      PROVE  Made(k + 1)
  <2>1. PICK f : f = [T \in UpTo(S, k) |-> Folded(f, T, base, e, pick, z)]
    BY <1>3
  <2>2. PICK g : g = [T \in UpTo(S, k + 1) |-> Folded(f, T, base, e, pick, z)]
    OBVIOUS
  <2>3. UpTo(S, k) \subseteq UpTo(S, k + 1)
    BY <1>1 DEF UpTo
  <2>4. ASSUME NEW T \in UpTo(S, k + 1), T # {}
        PROVE  T \ {pick[T]} \in UpTo(S, k)
    <3>1. T \in SUBSET S /\ pick[T] \in T /\ Cardinality(T) <= k + 1
      BY <2>4 DEF UpTo
    <3>2. Cardinality(T \ {pick[T]}) = Cardinality(T) - 1 /\ Cardinality(T) \in Nat
      BY <1>1, <3>1, FS_RemoveElement
    <3> QED BY <3>1, <3>2 DEF UpTo
  <2>5. \A T \in UpTo(S, k) : g[T] = f[T]
    <3> TAKE T \in UpTo(S, k)
    <3>1. f[T] = Folded(f, T, base, e, pick, z)
      BY <2>1
    <3> QED BY <2>2, <2>3, <3>1
  <2>6. \A T \in UpTo(S, k + 1) : Folded(f, T, base, e, pick, z) = Folded(g, T, base, e, pick, z)
    BY <2>4, <2>5 DEF Folded
  <2>7. g = [T \in UpTo(S, k + 1) |-> Folded(g, T, base, e, pick, z)]
    BY <2>2, <2>6
  <2> QED BY <2>7
<1> HIDE DEF Made
<1>4. ASSUME Bad # {}
      PROVE  FALSE
  <2>1. PICK d \in Bad : \A c \in Bad : d <= c
    BY <1>4, Least
  <2>2. d # 0
    BY <1>2, <2>1
  <2>3. d - 1 \in Nat /\ ~(d <= d - 1) /\ (d - 1) + 1 = d
    BY <2>1, <2>2
  <2>4. Made(d - 1)
    BY <2>1, <2>3
  <2> QED BY <1>3, <2>1, <2>3, <2>4
<1>5. Made(n)
  BY <1>4
<1> QED BY <1>5 DEF Made, IsTable

\* The function by which MapThenFoldSet is defined exists.
LEMMA Table ==
  ASSUME NEW S, IsFiniteSet(S), NEW base, NEW e, NEW z,
         NEW pick, \A T \in SUBSET S : T # {} => pick[T] \in T
  PROVE  \E f : IsTable(f, SUBSET S, base, e, pick, z)
<1>1. Cardinality(S) \in Nat
  BY FS_CardinalityType
<1>2. \A T \in SUBSET S : Cardinality(T) \in Nat /\ Cardinality(T) <= Cardinality(S)
  BY FS_Subset, FS_CardinalityType
<1>3. UpTo(S, Cardinality(S)) = SUBSET S
  BY <1>2 DEF UpTo
<1>4. \E f : IsTable(f, UpTo(S, Cardinality(S)), base, e, pick, z)
  BY <1>1, TableUpTo
<1> QED BY <1>3, <1>4

----------------------------------------------------------------------------
(* Folds over sequences *)

\* The last of the first n positions.
LEMMA LastPosition ==
  ASSUME NEW n \in Nat, NEW T \in SUBSET (1 .. n), T # {}
  PROVE  /\ Largest(T) \in T
         /\ \A k \in 1 .. n : T = 1 .. k => Largest(T) = k /\ T \ {Largest(T)} = 1 .. k - 1
<1> DEFINE U == {m \in 1 .. n : \A y \in T : m >= y}
<1>0. n \in U /\ U \subseteq Nat
  <2>1. n >= 1 /\ \A y \in T : n >= y
    <3>1. PICK y \in T : TRUE
      OBVIOUS
    <3> QED BY <3>1
  <2> QED BY <2>1
<1> HIDE DEF U
<1>1. PICK d \in U : \A c \in U : d <= c
  BY <1>0, Least
<1> USE DEF U
<1>2. d \in T
  <2> SUFFICES ASSUME d \notin T PROVE FALSE
    OBVIOUS
  <2>1. \A y \in T : d - 1 >= y
    BY <1>1
  <2>2. PICK y \in T : TRUE
    OBVIOUS
  <2>3. d \in 1 .. n /\ y \in 1 .. n /\ d - 1 >= y
    BY <2>1, <2>2
  <2>4. d - 1 \in 1 .. n
    BY <2>3
  <2>5. d - 1 \in U
    BY <2>1, <2>4
  <2> QED BY <1>1, <2>3, <2>5
<1>3. \E x \in T : \A y \in T : x >= y
  BY <1>1, <1>2
<1>4. Largest(T) \in T /\ \A y \in T : Largest(T) >= y
  BY <1>3 DEF Largest
<1>5. ASSUME NEW k \in 1 .. n, T = 1 .. k
      PROVE  Largest(T) = k /\ T \ {Largest(T)} = 1 .. k - 1
  <2>1. Largest(T) = k
    BY <1>4, <1>5
  <2> QED BY <1>5, <2>1
<1> QED BY <1>4, <1>5

\* The values that a fold over a sequence goes through.
IsTrace(tr, seq, base, z) ==
  /\ tr[0] = base /\ tr[Len(seq)] = OverSeq(base, seq, z)
  /\ \A i \in 1 .. Len(seq) : tr[i] = Op(tr[i - 1], seq[i], z)

\* A fold over a sequence goes through one value after the other.
THEOREM OverSeqTrace ==
  ASSUME NEW X, NEW seq \in Seq(X), NEW base, NEW z
  PROVE  \E tr : IsTrace(tr, seq, base, z)
<1> DEFINE n == Len(seq)
<1>1. n \in Nat /\ DOMAIN seq = 1 .. n
  BY LenProperties
<1>2. PICK pick : pick = [T \in SUBSET (1 .. n) |-> Largest(T)]
  OBVIOUS
<1>3. \A T \in SUBSET (1 .. n) : T # {} => pick[T] \in T
  BY <1>1, <1>2, LastPosition
<1>4. IsFiniteSet(1 .. n)
  BY <1>1, FS_Interval
<1>5. PICK f : IsTable(f, SUBSET (1 .. n), base, seq, pick, z)
  BY <1>3, <1>4, Table
<1>6. f = [T \in SUBSET (1 .. n) |-> IF T = {} THEN base ELSE Op(f[T \ {Largest(T)}], seq[Largest(T)], z)]
  BY <1>2, <1>5 DEF Folded, IsTable
<1> DEFINE iter == CHOOSE g : g = [T \in SUBSET (1 .. n) |->
                      IF T = {} THEN base ELSE Op(g[T \ {Largest(T)}], seq[Largest(T)], z)]
<1>7. iter = [T \in SUBSET (1 .. n) |->
                IF T = {} THEN base ELSE Op(iter[T \ {Largest(T)}], seq[Largest(T)], z)]
  BY <1>6
<1>8. OverSeq(base, seq, z) = iter[1 .. n]
  BY <1>1 DEF OverSeq, MapThenFoldSet
<1> HIDE DEF iter, n
<1>9. PICK tr : tr = [k \in 0 .. n |-> iter[1 .. k]]
  OBVIOUS
<1>10. tr[0] = base
  <2>1. 1 .. 0 = {} /\ 0 \in 0 .. n
    BY <1>1
  <2> QED BY <1>7, <1>9, <2>1
<1>11. ASSUME NEW i \in 1 .. n
       PROVE  tr[i] = Op(tr[i - 1], seq[i], z)
  <2>1. 1 .. i \in SUBSET (1 .. n) /\ 1 .. i # {} /\ i \in 0 .. n /\ i - 1 \in 0 .. n
    BY <1>1, <1>11
  <2>2. Largest(1 .. i) = i /\ (1 .. i) \ {Largest(1 .. i)} = 1 .. i - 1
    BY <1>1, <2>1, LastPosition
  <2>3. iter[1 .. i] = Op(iter[(1 .. i) \ {Largest(1 .. i)}], seq[Largest(1 .. i)], z)
    BY <1>7, <2>1
  <2> QED BY <1>9, <2>1, <2>2, <2>3
<1>12. tr[n] = OverSeq(base, seq, z)
  BY <1>1, <1>8, <1>9
<1> QED BY <1>10, <1>11, <1>12 DEF n, IsTrace

\* What holds at the start and is kept by every step of a fold holds at its end.
THEOREM OverSeqInduction ==
  ASSUME NEW X, NEW seq \in Seq(X), NEW base, NEW z, P(base, 0, z),
         \A a : \A i \in 1 .. Len(seq) : P(a, i - 1, z) => P(Op(a, seq[i], z), i, z)
  PROVE  P(OverSeq(base, seq, z), Len(seq), z)
<1>0. PICK tr : IsTrace(tr, seq, base, z)
  BY OverSeqTrace
<1>1. /\ tr[0] = base /\ tr[Len(seq)] = OverSeq(base, seq, z)
      /\ \A i \in 1 .. Len(seq) : tr[i] = Op(tr[i - 1], seq[i], z)
  BY <1>0 DEF IsTrace
<1>2. Len(seq) \in Nat
  BY LenProperties
<1> DEFINE Bad == {i \in 0 .. Len(seq) : ~ P(tr[i], i, z)}
<1>3. ASSUME Bad # {}
      PROVE  FALSE
  <2>0. Bad \subseteq Nat
    BY <1>2
  <2> HIDE DEF Bad
  <2>1. PICK d \in Bad : \A c \in Bad : d <= c
    BY <1>3, <2>0, Least
  <2> USE DEF Bad
  <2>2. d # 0
    BY <1>1, <2>1
  <2>3. d \in 1 .. Len(seq) /\ d - 1 \in 0 .. Len(seq) /\ ~(d <= d - 1)
    BY <1>2, <2>1, <2>2
  <2>4. P(tr[d - 1], d - 1, z)
    BY <2>1, <2>3
  <2>5. P(tr[d], d, z)
    BY <1>1, <2>3, <2>4
  <2> QED BY <2>1, <2>5
<1>4. Len(seq) \in 0 .. Len(seq)
  BY <1>2
<1> QED BY <1>1, <1>3, <1>4

\* Two sequences of values that start alike and go on alike are alike.
LEMMA SameValues ==
  ASSUME NEW n \in Nat, NEW s, NEW t, s[0] = t[0],
         \A i \in 1 .. n : s[i - 1] = t[i - 1] => s[i] = t[i]
  PROVE  s[n] = t[n]
<1> DEFINE Bad == {i \in 0 .. n : s[i] # t[i]}
<1>1. Bad \subseteq Nat
  OBVIOUS
<1>2. ASSUME NEW d \in Bad, \A c \in Bad : d <= c
      PROVE  FALSE
  <2>1. d # 0
    BY <1>2
  <2>2. d \in 1 .. n /\ d - 1 \in 0 .. n /\ ~(d <= d - 1)
    BY <1>2, <2>1
  <2>3. s[d - 1] = t[d - 1]
    BY <1>2, <2>2
  <2> QED BY <1>2, <2>2, <2>3
<1> HIDE DEF Bad
<1>3. Bad = {}
  BY <1>1, <1>2, Least
<1> QED BY <1>3 DEF Bad

\* A fold over a longer sequence is one step more.
THEOREM OverSeqAppend ==
  ASSUME NEW X, NEW seq \in Seq(X), NEW x \in X, NEW base, NEW z
  PROVE  /\ OverSeq(base, <<>>, z) = base
         /\ OverSeq(base, Append(seq, x), z) = Op(OverSeq(base, seq, z), x, z)
<1>1. OverSeq(base, <<>>, z) = base
  <2>1. PICK q \in Seq(X) : q = <<>> /\ Len(q) = 0
    BY EmptySeq
  <2>2. PICK tr : IsTrace(tr, q, base, z)
    BY OverSeqTrace
  <2> QED BY <2>1, <2>2 DEF IsTrace
<1> DEFINE n == Len(seq)
           longer == Append(seq, x)
<1>2. /\ n \in Nat /\ longer \in Seq(X) /\ Len(longer) = n + 1 /\ longer[n + 1] = x
      /\ \A i \in 1 .. n : longer[i] = seq[i]
  BY AppendProperties, LenProperties
<1> HIDE DEF longer
<1>3. PICK s : IsTrace(s, seq, base, z)
  BY OverSeqTrace
<1>4. PICK t : IsTrace(t, longer, base, z)
  <2>1. longer \in Seq(X)
    BY <1>2
  <2> QED BY <2>1, OverSeqTrace
<1> HIDE DEF n
<1>5. \A i \in 1 .. n : s[i - 1] = t[i - 1] => s[i] = t[i]
  BY <1>2, <1>3, <1>4 DEF IsTrace, n
<1>6. s[n] = t[n] /\ n + 1 \in 1 .. n + 1 /\ (n + 1) - 1 = n
  BY <1>2, <1>3, <1>4, <1>5, SameValues DEF IsTrace
<1>7. t[n + 1] = Op(t[n], x, z)
  BY <1>2, <1>4, <1>6 DEF IsTrace
<1> QED BY <1>1, <1>2, <1>3, <1>4, <1>6, <1>7 DEF longer, IsTrace, n

----------------------------------------------------------------------------
(* Folds over sets *)

\* A fold over a set is one over the set without the chosen element, and one step.
THEOREM OverSetStep ==
  ASSUME NEW S, IsFiniteSet(S), NEW base, NEW z
  PROVE  /\ S = {} => OverSet(base, S, z) = base
         /\ S # {} => OverSet(base, S, z) = Op(OverSet(base, S \ {Chosen(S)}, z), Chosen(S), z)
<1>1. ASSUME NEW R, IsFiniteSet(R)
      PROVE  \E f : /\ f = [T \in SUBSET R |->
                         IF T = {} THEN base ELSE Op(f[T \ {Chosen(T)}], Chosen(T), z)]
                    /\ f[R] = OverSet(base, R, z)
  <2>1. PICK pick : pick = [T \in SUBSET R |-> Chosen(T)]
    OBVIOUS
  <2>2. \A T \in SUBSET R : T # {} => pick[T] \in T
    BY <2>1 DEF Chosen
  <2>3. PICK id : id = [x \in R |-> x]
    OBVIOUS
  <2>4. PICK f : IsTable(f, SUBSET R, base, id, pick, z)
    BY <1>1, <2>2, Table
  <2>5. f = [T \in SUBSET R |-> IF T = {} THEN base ELSE Op(f[T \ {Chosen(T)}], Chosen(T), z)]
    BY <2>1, <2>2, <2>3, <2>4 DEF Folded, IsTable
  <2> DEFINE iter == CHOOSE g : g = [T \in SUBSET R |->
                        IF T = {} THEN base ELSE Op(g[T \ {Chosen(T)}], Chosen(T), z)]
  <2>6. iter = [T \in SUBSET R |->
                  IF T = {} THEN base ELSE Op(iter[T \ {Chosen(T)}], Chosen(T), z)]
    BY <2>5
  <2>7. OverSet(base, R, z) = iter[R]
    BY DEF OverSet, MapThenFoldSet, Chosen
  <2> QED BY <2>6, <2>7
<1>2. ASSUME S = {}
      PROVE  OverSet(base, S, z) = base
  BY <1>1, <1>2
<1>3. ASSUME S # {}
      PROVE  OverSet(base, S, z) = Op(OverSet(base, S \ {Chosen(S)}, z), Chosen(S), z)
  <2> DEFINE R == S \ {Chosen(S)}
  <2>1. IsFiniteSet(R) /\ R \subseteq S
    BY FS_Subset
  <2>2. PICK f : /\ f = [T \in SUBSET S |->
                      IF T = {} THEN base ELSE Op(f[T \ {Chosen(T)}], Chosen(T), z)]
                 /\ f[S] = OverSet(base, S, z)
    BY <1>1
  <2>3. PICK g : /\ g = [T \in SUBSET R |->
                      IF T = {} THEN base ELSE Op(g[T \ {Chosen(T)}], Chosen(T), z)]
                 /\ g[R] = OverSet(base, R, z)
    BY <1>1, <2>1
  <2> HIDE DEF R
  <2>4. \A T \in SUBSET R : IsFiniteSet(T) /\ Cardinality(T) \in Nat
    BY <2>1, FS_Subset, FS_CardinalityType
  <2> DEFINE Sizes == {k \in Nat : \E T \in SUBSET R : Cardinality(T) = k /\ f[T] # g[T]}
  <2>5. ASSUME Sizes # {}
        PROVE  FALSE
    <3>1. PICK k \in Sizes : \A c \in Sizes : k <= c
      BY <2>5, Least
    <3>2. PICK T \in SUBSET R : Cardinality(T) = k /\ f[T] # g[T]
      BY <3>1
    <3>3. T \in SUBSET S
      BY <2>1
    <3>4. T # {}
      BY <2>2, <2>3, <3>2, <3>3
    <3>5. Chosen(T) \in T
      BY <3>4 DEF Chosen
    <3>6. /\ T \ {Chosen(T)} \in SUBSET R /\ Cardinality(T \ {Chosen(T)}) = k - 1
          /\ k \in Nat /\ k - 1 \in Nat
      <4>1. IsFiniteSet(T) /\ Cardinality(T) = k
        BY <2>4, <3>2
      <4>2. Cardinality(T \ {Chosen(T)}) = k - 1
        BY <3>5, <4>1, FS_RemoveElement
      <4>3. T \ {Chosen(T)} \in SUBSET R
        OBVIOUS
      <4>4. k - 1 \in Nat /\ k \in Nat
        <5>1. Cardinality(T \ {Chosen(T)}) \in Nat
          BY <2>4, <4>3
        <5> QED BY <3>1, <4>2, <5>1
      <4> QED BY <4>2, <4>3, <4>4
    <3>7. f[T \ {Chosen(T)}] = g[T \ {Chosen(T)}]
      BY <3>1, <3>6
    <3>8. f[T] = Op(f[T \ {Chosen(T)}], Chosen(T), z) /\ g[T] = Op(g[T \ {Chosen(T)}], Chosen(T), z)
      BY <2>2, <2>3, <3>3, <3>4
    <3> QED BY <3>2, <3>7, <3>8
  <2>6. f[R] = g[R]
    BY <2>4, <2>5
  <2>7. f[S] = Op(f[R], Chosen(S), z)
    BY <1>3, <2>2 DEF R
  <2> QED BY <2>2, <2>3, <2>6, <2>7 DEF R
<1> QED BY <1>2, <1>3

\* What holds of the empty set, and of a set if it does without the element chosen
\* from it, holds of every finite set.
THEOREM OverSetInduction ==
  ASSUME NEW S, IsFiniteSet(S), NEW z, NEW base,
         P(OverSet(base, {}, z), {}, z),
         \A T \in SUBSET S : T # {} /\ P(OverSet(base, T \ {Chosen(T)}, z), T \ {Chosen(T)}, z)
                               => P(OverSet(base, T, z), T, z)
  PROVE  P(OverSet(base, S, z), S, z)
<1> DEFINE Sizes == {k \in Nat : \E T \in SUBSET S :
                       Cardinality(T) = k /\ ~ P(OverSet(base, T, z), T, z)}
<1>1. \A T \in SUBSET S : IsFiniteSet(T) /\ Cardinality(T) \in Nat
  BY FS_Subset, FS_CardinalityType
<1>2. ASSUME Sizes # {}
      PROVE  FALSE
  <2>1. PICK k \in Sizes : \A c \in Sizes : k <= c
    BY <1>2, Least
  <2>2. PICK T \in SUBSET S : Cardinality(T) = k /\ ~ P(OverSet(base, T, z), T, z)
    BY <2>1
  <2>3. T # {}
    BY <2>2
  <2>4. Chosen(T) \in T
    BY <2>3 DEF Chosen
  <2>5. /\ T \ {Chosen(T)} \in SUBSET S /\ Cardinality(T \ {Chosen(T)}) = k - 1
        /\ k \in Nat /\ k - 1 \in Nat
    <3>1. IsFiniteSet(T) /\ Cardinality(T) = k
      BY <1>1, <2>2
    <3>2. Cardinality(T \ {Chosen(T)}) = k - 1
      BY <2>4, <3>1, FS_RemoveElement
    <3>3. T \ {Chosen(T)} \in SUBSET S
      OBVIOUS
    <3>4. k - 1 \in Nat /\ k \in Nat
      <4>1. Cardinality(T \ {Chosen(T)}) \in Nat
        BY <1>1, <3>3
      <4> QED BY <2>1, <3>2, <4>1
    <3> QED BY <3>2, <3>3, <3>4
  <2>6. P(OverSet(base, T \ {Chosen(T)}, z), T \ {Chosen(T)}, z)
    BY <2>1, <2>5
  <2> QED BY <2>2, <2>3, <2>6
<1> QED BY <1>1, <1>2
===============================================================================
