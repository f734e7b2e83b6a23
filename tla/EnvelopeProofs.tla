--------------------------- MODULE EnvelopeProofs ---------------------------
(***************************************************************************)
(* The theorems of Envelope, for every base and width of the arrays, every *)
(* limit and every set of requests. What is converted is numbers of any    *)
(* size, so the recursive definitions of Words are reasoned about by       *)
(* induction; the rest follows the arguments through the convertor.        *)
(***************************************************************************)
EXTENDS Envelope, WellFoundedInduction, FiniteSetTheorems, TLAPS

-----------------------------------------------------------------------------
(* Induction and recursion over the natural numbers. What is proved by     *)
(* induction is given as the set of numbers it holds for, and the step of  *)
(* a recursion as a function.                                              *)

\* Every set of natural numbers has a least element, since the finite sets are
\* well-founded.
LEMMA LeastElement ==
  ASSUME NEW T \in SUBSET Nat, T # {}
  PROVE  \E n \in T : \A m \in T : n <= m
<1> DEFINE U == {1..n : n \in T}
<1>1. IsWellFoundedOn(StrictSubsetOrdering(Nat), FiniteSubsetsOf(Nat))
  BY FS_StrictSubsetOrderingWellFounded
<1>2. U \subseteq FiniteSubsetsOf(Nat) /\ U # {}
  <2>1. ASSUME NEW n \in T PROVE (1..n) \in FiniteSubsetsOf(Nat)
    <3>1. (1..n) \in SUBSET Nat /\ n \in Int /\ 1 \in Int
      OBVIOUS
    <3>2. IsFiniteSet(1..n)
      BY <3>1, FS_Interval
    <3> QED BY <3>1, <3>2 DEF FiniteSubsetsOf
  <2> QED BY <2>1
<1>3. PICK x \in U : \A y \in U : ~ (<<y, x>> \in StrictSubsetOrdering(Nat))
  BY <1>1, <1>2, WFMin, Zenon
<1>4. PICK n \in T : x = 1..n
  OBVIOUS
<1>5. ASSUME NEW m \in T, m < n PROVE FALSE
  <2>1. (1..m) \in U /\ (1..m) \subseteq (1..n) /\ n \in 1..n /\ n \notin 1..m
    BY <1>5
  <2>2. (1..m) \in SUBSET Nat /\ (1..n) \in SUBSET Nat /\ (1..m) # (1..n)
    BY <2>1
  <2>3. <<1..m, 1..n>> \in StrictSubsetOrdering(Nat)
    BY <2>1, <2>2 DEF StrictSubsetOrdering
  <2> QED BY <1>3, <1>4, <2>1, <2>3
<1> QED BY <1>5

\* Course-of-values induction.
LEMMA Induction ==
  ASSUME NEW T \in SUBSET Nat,
         \A n \in Nat : (\A m \in Nat : m < n => m \in T) => n \in T
  PROVE  T = Nat
<1> SUFFICES ASSUME Nat \ T # {} PROVE FALSE
  OBVIOUS
<1>1. Nat \ T \in SUBSET Nat
  OBVIOUS
<1>2. PICK n \in Nat \ T : \A m \in Nat \ T : n <= m
  BY <1>1, LeastElement
<1>3. \A m \in Nat : m < n => m \in T
  BY <1>2
<1> QED
  BY <1>3

\* The recursion that starts from a and computes the value at n with H[n] from
\* the one at p[n], and a solution of it.
Recursive(S, a, p, H) ==
  /\ a \in S /\ H \in [Nat -> [S -> S]]
  /\ p \in [Nat -> Nat] /\ \A n \in Nat : n > 0 => p[n] < n

Follows(g, a, p, H) == \A n \in Nat : g[n] = IF n = 0 THEN a ELSE H[n][g[p[n]]]

\* A function is defined by a recursion from each number to a smaller one.
LEMMA Recursion ==
  ASSUME NEW S, NEW a, NEW p, NEW H, Recursive(S, a, p, H)
  PROVE  \E g \in [Nat -> S] : Follows(g, a, p, H)
<1> USE DEF Recursive, Follows
<1> DEFINE Fits(g, n) == /\ g \in [0..n -> S]
                         /\ \A m \in 0..n : g[m] = IF m = 0 THEN a ELSE H[m][g[p[m]]]
           T == {n \in Nat : \E g : Fits(g, n)}
<1>1. T = Nat
  <2>1. T \in SUBSET Nat
    OBVIOUS
  <2>2. ASSUME NEW n \in Nat, \A m \in Nat : m < n => m \in T PROVE n \in T
    <3>1. CASE n = 0
      <4>1. Fits([m \in 0..n |-> a], n)
        BY <3>1
      <4> QED BY <4>1
    <3>2. CASE n > 0
      <4>1. n - 1 \in Nat /\ n - 1 < n
        BY <3>2
      <4>2. PICK g : Fits(g, n - 1)
        BY <2>2, <4>1
      <4> DEFINE h == [m \in 0..n |-> IF m = n THEN H[n][g[p[n]]] ELSE g[m]]
      <4>3. p[n] \in 0..(n - 1)
        BY <3>2
      <4>4. H[n][g[p[n]]] \in S
        BY <4>2, <4>3
      <4>5. h \in [0..n -> S]
        BY <4>2, <4>4
      <4>6. ASSUME NEW m \in 0..n PROVE h[m] = IF m = 0 THEN a ELSE H[m][h[p[m]]]
        <5>1. m > 0 => p[m] \in 0..(n - 1) /\ h[p[m]] = g[p[m]]
          OBVIOUS
        <5>2. CASE m = n
          BY <3>2, <5>1, <5>2
        <5>3. CASE m # n
          <6>1. m \in 0..(n - 1) /\ h[m] = g[m]
            BY <5>3
          <6>2. g[m] = IF m = 0 THEN a ELSE H[m][g[p[m]]]
            BY <4>2, <6>1
          <6>3. m = 0 \/ m > 0
            OBVIOUS
          <6> HIDE DEF h
          <6> QED BY <5>1, <6>1, <6>2, <6>3
        <5> QED BY <5>2, <5>3
      <4>7. Fits(h, n)
        BY <4>5, <4>6
      <4> QED BY <4>7
    <3>3. n = 0 \/ n > 0
      OBVIOUS
    <3> HIDE DEF T
    <3> QED BY <3>1, <3>2, <3>3
  <2> HIDE DEF T
  <2> QED BY <2>1, <2>2, Induction
<1>2. ASSUME NEW n \in Nat, NEW k \in Nat, NEW g, NEW h, Fits(g, n), Fits(h, k)
      PROVE  \A m \in Nat : m <= n /\ m <= k => g[m] = h[m]
  <2> DEFINE E == {m \in Nat : m <= n /\ m <= k => g[m] = h[m]}
  <2>1. E \in SUBSET Nat
    OBVIOUS
  <2>2. ASSUME NEW m \in Nat, \A l \in Nat : l < m => l \in E PROVE m \in E
    <3> SUFFICES ASSUME m <= n, m <= k PROVE g[m] = h[m]
      OBVIOUS
    <3>1. m \in 0..n /\ m \in 0..k
      OBVIOUS
    <3>2. /\ g[m] = IF m = 0 THEN a ELSE H[m][g[p[m]]]
          /\ h[m] = IF m = 0 THEN a ELSE H[m][h[p[m]]]
      BY <1>2, <3>1
    <3>3. m > 0 => p[m] \in Nat /\ p[m] < m /\ p[m] <= n /\ p[m] <= k
      OBVIOUS
    <3>4. m > 0 => g[p[m]] = h[p[m]]
      BY <2>2, <3>3
    <3> QED BY <3>2, <3>4
  <2>3. E = Nat
    <3> HIDE DEF E
    <3> QED BY <2>1, <2>2, Induction
  <2> QED BY <2>3
<1>3. PICK G : \A n \in Nat : Fits(G[n], n)
  <2> DEFINE C == [n \in Nat |-> CHOOSE g : Fits(g, n)]
  <2>1. ASSUME NEW n \in Nat PROVE Fits(C[n], n)
    <3>1. \E g : Fits(g, n)
      BY <1>1
    <3> HIDE DEF Fits
    <3> QED BY <3>1
  <2> HIDE DEF C, Fits
  <2> QED BY <2>1
<1> DEFINE f == [n \in Nat |-> G[n][n]]
<1>4. f \in [Nat -> S]
  <2>1. ASSUME NEW n \in Nat PROVE G[n][n] \in S
    <3>1. G[n] \in [0..n -> S] /\ n \in 0..n
      BY <1>3
    <3> QED BY <3>1
  <2> QED BY <2>1
<1>5. ASSUME NEW n \in Nat PROVE f[n] = IF n = 0 THEN a ELSE H[n][f[p[n]]]
  <2>1. n \in 0..n /\ f[n] = G[n][n]
    OBVIOUS
  <2>2. ASSUME n > 0 PROVE G[n][p[n]] = f[p[n]]
    <3>1. PICK k \in Nat : k = p[n] /\ k < n
      BY <2>2
    <3>2. k <= n /\ k <= k
      BY <3>1
    <3>3. G[n][k] = G[k][k]
      <4> HIDE DEF Fits
      <4>1. Fits(G[n], n) /\ Fits(G[k], k)
        BY <1>3
      <4> QED BY <1>2, <3>2, <4>1
    <3> QED BY <3>1, <3>3
  <2>3. G[n][n] = IF n = 0 THEN a ELSE H[n][G[n][p[n]]]
    BY <1>3, <2>1
  <2>4. n = 0 \/ n > 0
    OBVIOUS
  <2> HIDE DEF f
  <2> QED BY <2>1, <2>2, <2>3, <2>4
<1> HIDE DEF f
<1> QED
  BY <1>4, <1>5

-----------------------------------------------------------------------------
(* The recursive definitions of Words.                                     *)

LEMMA PowDef == \A n \in Nat : Pow[n] = IF n = 0 THEN 1 ELSE Base * Pow[n - 1]
<1>1. PICK p : p = [k \in Nat |-> IF k = 0 THEN 0 ELSE k - 1]
  OBVIOUS
<1>2. PICK h \in [Nat -> Nat] : \A x \in Nat : h[x] = Base * x
  <2>1. [x \in Nat |-> Base * x] \in [Nat -> Nat]
    BY WordsAssumption
  <2> QED BY <2>1
<1>3. PICK H \in [Nat -> [Nat -> Nat]] : \A k \in Nat : H[k] = h
  <2>1. [k \in Nat |-> h] \in [Nat -> [Nat -> Nat]]
    OBVIOUS
  <2> QED BY <2>1
<1>4. Recursive(Nat, 1, p, H)
  BY <1>1, <1>3 DEF Recursive
<1>5. PICK g \in [Nat -> Nat] : Follows(g, 1, p, H)
  BY <1>4, Recursion
<1>6. g = [k \in Nat |-> IF k = 0 THEN 1 ELSE Base * g[k - 1]]
  <2>1. ASSUME NEW n \in Nat PROVE g[n] = IF n = 0 THEN 1 ELSE Base * g[n - 1]
    <3>1. g[n] = IF n = 0 THEN 1 ELSE H[n][g[p[n]]]
      BY <1>5 DEF Follows
    <3>2. ASSUME n > 0 PROVE H[n][g[p[n]]] = Base * g[n - 1]
      <4>1. p[n] = n - 1 /\ n - 1 \in Nat
        BY <1>1, <3>2
      <4>2. g[n - 1] \in Nat
        BY <4>1
      <4> QED BY <1>2, <1>3, <4>1, <4>2
    <3> QED BY <3>1, <3>2
  <2> QED BY <2>1
<1>a. Pow = [k \in Nat |-> IF k = 0 THEN 1 ELSE Base * Pow[k - 1]]
  BY <1>6 DEF Pow
<1> QED
  BY <1>a, Zenon

LEMMA PowFacts ==
  /\ Pow[0] = 1
  /\ \A k \in Nat : Pow[k] \in Nat /\ Pow[k] > 0 /\ Pow[k + 1] = Base * Pow[k]
<1>6. Pow[0] = 1
  BY PowDef
<1>7. ASSUME NEW k \in Nat PROVE Pow[k + 1] = Base * Pow[k]
  <2>1. k + 1 \in Nat /\ k + 1 # 0 /\ (k + 1) - 1 = k
    OBVIOUS
  <2> QED BY <2>1, PowDef
<1> DEFINE T == {k \in Nat : Pow[k] \in Nat /\ Pow[k] > 0}
<1>8. T = Nat
  <2>1. T \in SUBSET Nat
    OBVIOUS
  <2>2. ASSUME NEW k \in Nat, \A m \in Nat : m < k => m \in T PROVE k \in T
    <3>1. CASE k = 0
      BY <1>6, <3>1
    <3>2. CASE k > 0
      <4>1. PICK m \in Nat : m = k - 1 /\ m < k /\ k = m + 1
        BY <3>2
      <4>2. Pow[m] \in Nat /\ Pow[m] > 0
        BY <2>2, <4>1
      <4>3. Pow[k] = Base * Pow[m]
        BY <1>7, <4>1
      <4>4. Base * Pow[m] \in Nat /\ Base * Pow[m] > 0
        <5>1. PICK x \in Nat : x = Pow[m] /\ x > 0
          BY <4>2
        <5>2. Base * x \in Nat /\ Base * x > 0
          BY <5>1, WordsAssumption
        <5> QED BY <5>1, <5>2
      <4> QED BY <4>3, <4>4
    <3>3. k = 0 \/ k > 0
      OBVIOUS
    <3> HIDE DEF T
    <3> QED BY <3>1, <3>2, <3>3
  <2> HIDE DEF T
  <2> QED BY <2>1, <2>2, Induction
<1>9. \A k \in Nat : Pow[k] \in Nat /\ Pow[k] > 0
  BY <1>8
<1> HIDE DEF T
<1> QED
  BY <1>6, <1>7, <1>9

LEMMA DivFacts ==
  ASSUME NEW n \in Nat
  PROVE  /\ n \div Base \in Nat
         /\ (n % Base) \in 0..(Base - 1)
         /\ n = Base * (n \div Base) + (n % Base)
         /\ n > 0 => n \div Base < n
<1>1. Base \in Nat /\ Base > 1
  BY WordsAssumption
<1>2. n \div Base \in Nat /\ (n % Base) \in 0..(Base - 1)
  BY <1>1
<1>3. n = Base * (n \div Base) + (n % Base)
  BY <1>1
<1>4. PICK q \in Nat, r \in Nat : q = n \div Base /\ r = n % Base
  BY <1>2
<1>5. n > 0 => q < n
  BY <1>1, <1>3, <1>4
<1> QED
  BY <1>2, <1>3, <1>4, <1>5

LEMMA BytesDef ==
  \A n \in Nat : Bytes[n] = IF n = 0 THEN <<>> ELSE Append(Bytes[n \div Base], n % Base)
<1> DEFINE S == Seq(0..(Base - 1))
<1>1. PICK p \in [Nat -> Nat] : /\ \A n \in Nat : p[n] = n \div Base
                                /\ \A n \in Nat : n > 0 => p[n] < n
  <2>1. [n \in Nat |-> n \div Base] \in [Nat -> Nat]
    BY DivFacts
  <2> QED BY <2>1, DivFacts
<1>2. PICK H \in [Nat -> [S -> S]] : \A n \in Nat : H[n] = [x \in S |-> Append(x, n % Base)]
  <2>1. ASSUME NEW n \in Nat PROVE [x \in S |-> Append(x, n % Base)] \in [S -> S]
    <3>1. (n % Base) \in 0..(Base - 1)
      BY DivFacts
    <3>2. \A x \in S : Append(x, n % Base) \in S
      BY <3>1
    <3> HIDE DEF S
    <3> QED BY <3>2
  <2>2. [n \in Nat |-> [x \in S |-> Append(x, n % Base)]] \in [Nat -> [S -> S]]
    BY <2>1
  <2> HIDE DEF S
  <2> QED BY <2>2
<1>3. <<>> \in S
  OBVIOUS
<1> HIDE DEF S
<1>4. Recursive(S, <<>>, p, H)
  BY <1>1, <1>2, <1>3 DEF Recursive
<1>a. PICK g \in [Nat -> S] : Follows(g, <<>>, p, H)
  BY <1>4, Recursion
<1>5. g = [n \in Nat |-> IF n = 0 THEN <<>> ELSE Append(g[n \div Base], n % Base)]
  <2>1. ASSUME NEW n \in Nat PROVE g[n] = IF n = 0 THEN <<>> ELSE Append(g[n \div Base], n % Base)
    <3>1. g[n] = IF n = 0 THEN <<>> ELSE H[n][g[p[n]]]
      BY <1>a DEF Follows
    <3>2. p[n] = n \div Base /\ g[p[n]] \in S
      BY <1>1
    <3>3. H[n] = [x \in S |-> Append(x, n % Base)]
      BY <1>2
    <3>4. H[n][g[p[n]]] = Append(g[n \div Base], n % Base)
      BY <3>2, <3>3
    <3> QED BY <3>1, <3>4
  <2> QED BY <2>1
<1>6. Bytes = [n \in Nat |-> IF n = 0 THEN <<>> ELSE Append(Bytes[n \div Base], n % Base)]
  BY <1>5 DEF Bytes
<1> QED
  BY <1>6, Zenon

LEMMA BytesFacts ==
  /\ Bytes[0] = <<>>
  /\ \A n \in Nat : /\ Bytes[n] \in Seq(0..(Base - 1))
                    /\ n > 0 => Bytes[n] = Append(Bytes[n \div Base], n % Base)
<1> DEFINE S == Seq(0..(Base - 1))
<1> DEFINE T == {n \in Nat : Bytes[n] \in S}
<1>8. T = Nat
  <2>1. T \in SUBSET Nat
    OBVIOUS
  <2>2. ASSUME NEW n \in Nat, \A m \in Nat : m < n => m \in T PROVE n \in T
    <3>1. CASE n = 0
      <4>1. Bytes[n] = <<>>
        BY <3>1, BytesDef
      <4>2. <<>> \in S
        OBVIOUS
      <4> QED BY <4>1, <4>2, Zenon
    <3>2. CASE n > 0
      <4>1. Bytes[n \div Base] \in S
        BY <2>2, <3>2, DivFacts
      <4>2. Append(Bytes[n \div Base], n % Base) \in S
        BY <4>1, DivFacts DEF S
      <4>3. Bytes[n] = Append(Bytes[n \div Base], n % Base)
        <5>1. n # 0
          BY <3>2
        <5> QED BY <5>1, BytesDef, Zenon
      <4> QED BY <4>2, <4>3, Zenon
    <3>3. n = 0 \/ n > 0
      OBVIOUS
    <3> HIDE DEF T
    <3> QED BY <3>1, <3>2, <3>3
  <2> HIDE DEF T
  <2> QED BY <2>1, <2>2, Induction
<1>9. \A n \in Nat : Bytes[n] \in Seq(0..(Base - 1))
  BY <1>8 DEF S
<1>10. Bytes[0] = <<>>
  BY BytesDef
<1>11. ASSUME NEW n \in Nat, n > 0 PROVE Bytes[n] = Append(Bytes[n \div Base], n % Base)
  <2>1. n # 0
    BY <1>11
  <2> QED BY <2>1, BytesDef, Zenon
<1> HIDE DEF T
<1> QED
  BY <1>9, <1>10, <1>11

LEMMA MulLess ==
  ASSUME NEW b \in Nat, b > 1, NEW q \in Nat, NEW r \in 0..(b - 1), NEW x \in Nat
  PROVE  b * q + r < b * x <=> q < x
<1>1. ASSUME q < x PROVE b * q + r < b * x
  <2>1. PICK d \in Nat : x = q + 1 + d
    <3>1. x - q - 1 \in Nat /\ x = q + 1 + (x - q - 1)
      BY <1>1
    <3> QED BY <3>1
  <2>2. b * x = b * q + b + b * d /\ b * d \in Nat /\ b * q \in Nat
    BY <2>1
  <2> QED BY <2>2
<1>2. ASSUME x <= q PROVE ~(b * q + r < b * x)
  <2>1. PICK d \in Nat : q = x + d
    <3>1. q - x \in Nat /\ q = x + (q - x)
      BY <1>2
    <3> QED BY <3>1
  <2>2. b * q = b * x + b * d /\ b * d \in Nat /\ b * x \in Nat
    BY <2>1
  <2> QED BY <2>2
<1> QED
  BY <1>1, <1>2

LEMMA SeqWider ==
  ASSUME NEW S, NEW T, S \subseteq T, NEW b \in Seq(S)
  PROVE  b \in Seq(T) /\ Len(b) \in Nat
<1>1. PICK k \in Nat : k = Len(b)
  OBVIOUS
<1>2. b \in [1..k -> S]
  BY <1>1
<1>3. b \in [1..k -> T]
  BY <1>2, Zenon
<1> QED
  BY <1>1, <1>3

LEMMA BytesAreNat ==
  ASSUME NEW n \in Nat
  PROVE  Bytes[n] \in Seq(Nat) /\ Len(Bytes[n]) \in Nat
<1>1. 0..(Base - 1) \subseteq Nat /\ Bytes[n] \in Seq(0..(Base - 1))
  BY BytesFacts, WordsAssumption
<1> QED
  BY <1>1, SeqWider, Zenon

\* A number has at most k bytes exactly if k bytes can hold it.
LEMMA BytesLen ==
  ASSUME NEW n \in Nat, NEW k \in Nat
  PROVE  Len(Bytes[n]) <= k <=> n < Pow[k]
<1> DEFINE T == {m \in Nat : \A l \in Nat : Len(Bytes[m]) <= l <=> m < Pow[l]}
<1>1. T = Nat
  <2>1. T \in SUBSET Nat
    OBVIOUS
  <2>2. ASSUME NEW m \in Nat, \A i \in Nat : i < m => i \in T PROVE m \in T
    <3> SUFFICES ASSUME NEW l \in Nat PROVE Len(Bytes[m]) <= l <=> m < Pow[l]
      OBVIOUS
    <3>0. Pow[l] \in Nat /\ Pow[l] > 0
      BY PowFacts
    <3>1. CASE m = 0
      <4>1. Len(Bytes[m]) = 0
        BY <3>1, BytesFacts
      <4> QED BY <3>0, <3>1, <4>1
    <3>2. CASE m > 0
      <4>1. PICK q \in Nat, r \in 0..(Base - 1) :
              q = m \div Base /\ r = m % Base /\ q < m /\ m = Base * q + r
        BY <3>2, DivFacts
      <4>2. Bytes[m] = Append(Bytes[q], r) /\ Bytes[q] \in Seq(0..(Base - 1))
        BY <3>2, <4>1, BytesFacts
      <4>3. Len(Bytes[m]) = Len(Bytes[q]) + 1 /\ Len(Bytes[q]) \in Nat
        BY <4>2
      <4>4. CASE l = 0
        <5>1. Pow[l] = 1
          BY <4>4, PowFacts
        <5> QED BY <3>2, <4>3, <4>4, <5>1
      <4>5. CASE l > 0
        <5>1. PICK j \in Nat : l = j + 1
          <6>1. l - 1 \in Nat /\ l = (l - 1) + 1
            BY <4>5
          <6> QED BY <6>1
        <5>2. Pow[l] = Base * Pow[j] /\ Pow[j] \in Nat
          BY <5>1, PowFacts
        <5>3. q \in T
          BY <2>2, <4>1
        <5>4. Len(Bytes[q]) <= j <=> q < Pow[j]
          BY <5>3
        <5>5. Len(Bytes[m]) <= l <=> Len(Bytes[q]) <= j
          BY <4>3, <5>1
        <5>6. Base \in Nat /\ Base > 1
          BY WordsAssumption
        <5>7. q < Pow[j] <=> Base * q + r < Base * Pow[j]
          BY <5>2, <5>6, MulLess
        <5> QED BY <4>1, <5>2, <5>4, <5>5, <5>7
      <4> QED BY <4>4, <4>5
    <3> QED BY <3>1, <3>2
  <2> HIDE DEF T
  <2> QED BY <2>1, <2>2, Induction
<1> QED
  BY <1>1

\* The values of the beginnings of b, the last of which is the value of b.
Horner(b, v) ==
  /\ v \in [0..Len(b) -> Nat] /\ v[0] = 0
  /\ \A i \in 1..Len(b) : v[i] = Base * v[i - 1] + b[i]

LEMMA HornerExists ==
  ASSUME NEW b \in Seq(Nat)
  PROVE  \E v : v = [i \in 0..Len(b) |-> IF i = 0 THEN 0 ELSE Base * v[i - 1] + b[i]]
<1>0. PICK n \in Nat : n = Len(b) /\ \A i \in 1..n : b[i] \in Nat
  OBVIOUS
<1>1. PICK p : p = [k \in Nat |-> IF k = 0 THEN 0 ELSE k - 1]
  OBVIOUS
<1>2. PICK d \in [Nat -> Nat] : \A i \in 1..n : d[i] = b[i]
  <2>1. [k \in Nat |-> IF k \in 1..n THEN b[k] ELSE 0] \in [Nat -> Nat]
    BY <1>0
  <2>2. \A i \in 1..n : [k \in Nat |-> IF k \in 1..n THEN b[k] ELSE 0][i] = b[i]
    BY <1>0
  <2> QED BY <2>1, <2>2
<1>3. PICK H \in [Nat -> [Nat -> Nat]] : \A k \in Nat : H[k] = [x \in Nat |-> Base * x + d[k]]
  <2>1. ASSUME NEW k \in Nat, NEW x \in Nat PROVE Base * x + d[k] \in Nat
    <3>1. PICK y \in Nat : y = Base * x
      BY WordsAssumption
    <3>2. PICK z \in Nat : z = d[k]
      OBVIOUS
    <3>3. y + z \in Nat
      OBVIOUS
    <3> QED BY <3>1, <3>2, <3>3
  <2>2. [k \in Nat |-> [x \in Nat |-> Base * x + d[k]]] \in [Nat -> [Nat -> Nat]]
    BY <2>1
  <2> QED BY <2>2
<1>4. Recursive(Nat, 0, p, H)
  <2>1. p \in [Nat -> Nat] /\ \A k \in Nat : k > 0 => p[k] < k
    BY <1>1
  <2>2. H \in [Nat -> [Nat -> Nat]]
    OBVIOUS
  <2>3. 0 \in Nat
    OBVIOUS
  <2> QED BY <2>1, <2>2, <2>3, Zenon DEF Recursive
<1>5. PICK g \in [Nat -> Nat] : Follows(g, 0, p, H)
  BY <1>4, Recursion
<1>6. PICK v \in [0..n -> Nat] : \A i \in 0..n : v[i] = g[i]
  <2>1. ASSUME NEW i \in 0..n PROVE g[i] \in Nat
    <3>1. i \in Nat
      OBVIOUS
    <3> QED BY <3>1, Zenon
  <2>2. [i \in 0..n |-> g[i]] \in [0..n -> Nat]
    BY <2>1, Zenon
  <2> QED BY <2>2, Zenon
<1>8. v[0] = 0
  <2>1. g[0] = 0
    BY <1>5 DEF Follows
  <2>2. 0 \in 0..n
    OBVIOUS
  <2> QED BY <1>6, <2>1, <2>2
<1>9. ASSUME NEW i \in 1..n PROVE v[i] = Base * v[i - 1] + b[i]
  <2>1. i \in Nat /\ i # 0 /\ i - 1 \in Nat /\ i - 1 \in 0..n /\ i \in 0..n
    OBVIOUS
  <2>2. p[i] = i - 1
    BY <1>1, <2>1
  <2>3. g[i] = H[i][g[i - 1]]
    BY <1>5, <2>1, <2>2 DEF Follows
  <2>4. g[i - 1] \in Nat
    BY <2>1
  <2>5. H[i] = [x \in Nat |-> Base * x + d[i]]
    BY <1>3, <2>1
  <2>6. H[i][g[i - 1]] = Base * g[i - 1] + d[i]
    BY <2>4, <2>5
  <2>7. v[i] = g[i] /\ v[i - 1] = g[i - 1]
    BY <1>6, <2>1
  <2> QED BY <1>2, <2>3, <2>6, <2>7
<1>11. v = [i \in 0..n |-> IF i = 0 THEN 0 ELSE Base * v[i - 1] + b[i]]
  <2>1. \A i \in 0..n : v[i] = IF i = 0 THEN 0 ELSE Base * v[i - 1] + b[i]
    <3> TAKE i \in 0..n
    <3>1. CASE i = 0
      BY <1>8, <3>1
    <3>2. CASE i # 0
      BY <1>9, <3>2
    <3> QED BY <3>1, <3>2
  <2> QED BY <1>6, <2>1
<1> QED
  BY <1>0, <1>11

\* c begins with k zeros and b.
Starts(c, k, b) ==
  /\ k + Len(b) <= Len(c)
  /\ \A i \in 1..k : c[i] = 0
  /\ \A i \in 1..Len(b) : c[k + i] = b[i]

\* Leading zeros and what follows do not change the value of a beginning.
LEMMA HornerAlike ==
  ASSUME NEW b \in Seq(Nat), NEW v, Horner(b, v), NEW c \in Seq(Nat), NEW w, Horner(c, w),
         NEW k \in Nat, Starts(c, k, b)
  PROVE  w[k + Len(b)] = v[Len(b)]
<1> USE DEF Starts
<1>0. PICK n \in Nat : n = Len(b)
  OBVIOUS
<1>1. \A i \in 1..(k + n) : w[i] = Base * w[i - 1] + c[i]
  <2>1. \A i \in 1..(k + n) : i \in 1..Len(c)
    BY <1>0
  <2> QED BY <2>1 DEF Horner
<1>2. \A i \in 1..n : v[i] = Base * v[i - 1] + b[i]
  BY <1>0 DEF Horner
<1>3. w[0] = 0 /\ v[0] = 0
  BY DEF Horner
<1> DEFINE Z == {i \in Nat : i <= k => w[i] = 0}
           T == {i \in Nat : i <= n => w[k + i] = v[i]}
<1>4. Z = Nat
  <2>1. Z \in SUBSET Nat
    OBVIOUS
  <2>2. ASSUME NEW i \in Nat, \A j \in Nat : j < i => j \in Z PROVE i \in Z
    <3> SUFFICES ASSUME i <= k, i > 0 PROVE w[i] = 0
      BY <1>3
    <3>1. i - 1 \in Nat /\ i - 1 < i /\ i - 1 <= k /\ i \in 1..k /\ i \in 1..(k + n)
      OBVIOUS
    <3>2. w[i - 1] = 0
      BY <2>2, <3>1
    <3>3. w[i] = Base * w[i - 1] + c[i] /\ c[i] = 0
      BY <1>1, <3>1
    <3> QED BY <3>2, <3>3, WordsAssumption
  <2> HIDE DEF Z
  <2> QED BY <2>1, <2>2, Induction
<1>5. w[k] = 0
  BY <1>4
<1>6. T = Nat
  <2>1. T \in SUBSET Nat
    OBVIOUS
  <2>2. ASSUME NEW i \in Nat, \A j \in Nat : j < i => j \in T PROVE i \in T
    <3>a. CASE i = 0
      BY <1>3, <1>5, <3>a
    <3>b. CASE i > 0 /\ i <= n
      <4>1. /\ i - 1 \in Nat /\ i - 1 < i /\ i - 1 <= n /\ i \in 1..n /\ k + i \in 1..(k + n)
            /\ (k + i) - 1 = k + (i - 1)
        BY <3>b
      <4>2. w[k + (i - 1)] = v[i - 1]
        BY <2>2, <4>1
      <4>3. w[k + i] = Base * w[(k + i) - 1] + c[k + i]
        BY <1>1, <4>1
      <4>4. c[k + i] = b[i] /\ v[i] = Base * v[i - 1] + b[i]
        BY <1>0, <1>2, <4>1
      <4>5. w[k + i] = v[i]
        BY <4>1, <4>2, <4>3, <4>4
      <4> QED BY <4>5
    <3>c. CASE ~(i <= n)
      BY <3>c
    <3>d. i = 0 \/ i > 0
      OBVIOUS
    <3> HIDE DEF T
    <3> QED BY <3>a, <3>b, <3>c, <3>d
  <2> HIDE DEF T
  <2> QED BY <2>1, <2>2, Induction
<1>7. w[k + n] = v[n]
  <2>1. n \in T
    <3> HIDE DEF T
    <3> QED BY <1>6
  <2> QED BY <2>1
<1> QED
  BY <1>0, <1>7, Zenon

LEMMA ValueFacts ==
  ASSUME NEW b \in Seq(Nat)
  PROVE  \E v : Horner(b, v) /\ Value(b) = v[Len(b)]
<1> DEFINE Eq(v) == v = [i \in 0..Len(b) |-> IF i = 0 THEN 0 ELSE Base * v[i - 1] + b[i]]
<1>0. PICK n \in Nat : n = Len(b)
  OBVIOUS
<1>1. PICK w : w = CHOOSE v : Eq(v)
  OBVIOUS
<1>2. Value(b) = w[Len(b)]
  BY <1>1 DEF Value
<1>3. Eq(w)
  <2>1. \E v : Eq(v)
    BY HornerExists
  <2> HIDE DEF Eq
  <2> QED BY <1>1, <2>1
<1>4. \A i \in 0..n : w[i] = IF i = 0 THEN 0 ELSE Base * w[i - 1] + b[i]
  BY <1>0, <1>3, Zenon
<1>5. DOMAIN w = 0..n /\ w = [i \in 0..n |-> w[i]]
  BY <1>0, <1>3
<1> HIDE DEF Eq
<1>6. w[0] = 0 /\ \A i \in 1..n : w[i] = Base * w[i - 1] + b[i]
  <2>1. 0 \in 0..n /\ \A i \in 1..n : i \in 0..n /\ i # 0
    OBVIOUS
  <2> QED BY <1>4, <2>1
<1> DEFINE T == {i \in Nat : i <= n => w[i] \in Nat}
<1>7. T = Nat
  <2>1. T \in SUBSET Nat
    OBVIOUS
  <2>2. ASSUME NEW i \in Nat, \A j \in Nat : j < i => j \in T PROVE i \in T
    <3>a. CASE i = 0
      BY <1>6, <3>a
    <3>b. CASE i > 0 /\ i <= n
      <4>1. i - 1 \in Nat /\ i - 1 < i /\ i - 1 <= n /\ i \in 1..n
        BY <3>b
      <4>2. w[i - 1] \in Nat
        BY <2>2, <4>1
      <4>3. b[i] \in Nat
        BY <1>0, <4>1
      <4>4. w[i] = Base * w[i - 1] + b[i]
        BY <1>6, <4>1
      <4>5. PICK x \in Nat, y \in Nat : x = w[i - 1] /\ y = b[i]
        BY <4>2, <4>3
      <4>6. Base * x + y \in Nat
        BY WordsAssumption
      <4>7. w[i] \in Nat
        BY <4>4, <4>5, <4>6
      <4> QED BY <4>7
    <3>c. CASE ~(i <= n)
      BY <3>c
    <3>d. i = 0 \/ i > 0
      OBVIOUS
    <3> HIDE DEF T
    <3> QED BY <3>a, <3>b, <3>c, <3>d
  <2> HIDE DEF T
  <2> QED BY <2>1, <2>2, Induction
<1>8. \A i \in 0..n : w[i] \in Nat
  BY <1>7
<1> HIDE DEF T
<1>9. w \in [0..n -> Nat]
  BY <1>5, <1>8
<1>10. Horner(b, w)
  BY <1>0, <1>6, <1>9 DEF Horner
<1> QED
  BY <1>2, <1>10

LEMMA ValueEmpty == Value(<<>>) = 0
<1>1. <<>> \in Seq(Nat) /\ Len(<<>>) = 0
  OBVIOUS
<1>2. PICK v : Horner(<<>>, v) /\ Value(<<>>) = v[Len(<<>>)]
  BY <1>1, ValueFacts
<1> QED
  BY <1>1, <1>2 DEF Horner

LEMMA ValueAppend ==
  ASSUME NEW b \in Seq(Nat), NEW d \in Nat
  PROVE  Value(Append(b, d)) = Base * Value(b) + d
<1>0. PICK n \in Nat : n = Len(b)
  OBVIOUS
<1>1. PICK c \in Seq(Nat) : c = Append(b, d)
  <2>1. Append(b, d) \in Seq(Nat)
    OBVIOUS
  <2> QED BY <2>1, Zenon
<1>2. /\ Len(c) = n + 1 /\ c[n + 1] = d /\ 0 + Len(b) <= Len(c)
      /\ \A i \in 1..Len(b) : c[0 + i] = b[i]
  BY <1>0, <1>1
<1>3. PICK v : Horner(b, v) /\ Value(b) = v[Len(b)]
  BY ValueFacts
<1>4. PICK w : Horner(c, w) /\ Value(c) = w[Len(c)]
  BY ValueFacts
<1>5. Starts(c, 0, b)
  <2>1. \A i \in 1..0 : c[i] = 0
    OBVIOUS
  <2> QED BY <1>2, <2>1, Zenon DEF Starts
<1>6. w[0 + Len(b)] = v[Len(b)]
  <2>1. 0 \in Nat
    OBVIOUS
  <2> QED BY <1>3, <1>4, <1>5, <2>1, HornerAlike, Zenon
<1>7. w[n + 1] = Base * w[(n + 1) - 1] + c[n + 1]
  <2>1. n + 1 \in 1..Len(c)
    BY <1>2
  <2> QED BY <1>4, <2>1 DEF Horner
<1>8. (n + 1) - 1 = n /\ 0 + n = n
  OBVIOUS
<1> QED
  BY <1>0, <1>1, <1>2, <1>3, <1>4, <1>6, <1>7, <1>8

\* The bytes of a number have its value.
LEMMA ValueBytes ==
  ASSUME NEW n \in Nat
  PROVE  Value(Bytes[n]) = n
<1> DEFINE T == {m \in Nat : Value(Bytes[m]) = m}
<1>1. T = Nat
  <2>1. T \in SUBSET Nat
    OBVIOUS
  <2>2. ASSUME NEW m \in Nat, \A i \in Nat : i < m => i \in T PROVE m \in T
    <3>1. CASE m = 0
      <4>1. Value(Bytes[m]) = 0
        BY <3>1, BytesFacts, ValueEmpty
      <4> QED BY <3>1, <4>1
    <3>2. CASE m > 0
      <4>1. PICK q \in Nat, r \in 0..(Base - 1) :
              q = m \div Base /\ r = m % Base /\ q < m /\ m = Base * q + r
        BY <3>2, DivFacts
      <4>2. Bytes[m] = Append(Bytes[q], r)
        BY <3>2, <4>1, BytesFacts
      <4>3. Bytes[q] \in Seq(Nat) /\ r \in Nat
        BY BytesAreNat, WordsAssumption
      <4>4. Value(Bytes[m]) = Base * Value(Bytes[q]) + r
        BY <4>2, <4>3, ValueAppend
      <4>5. Value(Bytes[q]) = q
        BY <2>2, <4>1
      <4>6. Value(Bytes[m]) = m
        BY <4>1, <4>4, <4>5
      <4> QED BY <4>6
    <3>3. m = 0 \/ m > 0
      OBVIOUS
    <3> HIDE DEF T
    <3> QED BY <3>1, <3>2, <3>3
  <2> HIDE DEF T
  <2> QED BY <2>1, <2>2, Induction
<1> QED
  BY <1>1

\* What copy(c[k:], src) leaves in the array c.
Copied(c, w, k, src) ==
  /\ c \in Seq(Nat) /\ Len(c) = w /\ c # <<>>
  /\ \A i \in 1..k : c[i] = 0
  /\ k + Len(src) <= w => \A i \in 1..Len(src) : c[k + i] = src[i]

LEMMA CopyFacts ==
  ASSUME NEW w \in Nat, w > 0, NEW k \in Nat, k <= w, NEW src \in Seq(Nat)
  PROVE  Copied(CopyAt(w, k, src), w, k, src)
<1>0. PICK n \in Nat : n = Len(src) /\ \A i \in 1..n : src[i] \in Nat
  OBVIOUS
<1>1. PICK e \in Nat : e = Min(w, k + n) /\ e <= k + n /\ (k + n <= w => e = k + n)
  BY DEF Min
<1>2. PICK c : c = [i \in 1..w |-> IF i \in (k + 1)..e THEN src[i - k] ELSE 0]
  OBVIOUS
<1>3. CopyAt(w, k, src) = c
  BY <1>0, <1>1, <1>2 DEF CopyAt
<1>4. \A i \in 1..w : (IF i \in (k + 1)..e THEN src[i - k] ELSE 0) \in Nat
  <2> TAKE i \in 1..w
  <2>1. i \in (k + 1)..e => i - k \in 1..n
    BY <1>1
  <2> QED BY <1>0, <2>1
<1>5. c \in [1..w -> Nat]
  BY <1>2, <1>4
<1>6. c \in Seq(Nat) /\ Len(c) = w
  BY <1>5
<1>7. c # <<>>
  <2>1. Len(<<>>) = 0
    OBVIOUS
  <2> QED BY <1>6, <2>1
<1>8. ASSUME NEW i \in 1..k PROVE c[i] = 0
  <2>1. i \in 1..w /\ i \notin (k + 1)..e
    OBVIOUS
  <2> QED BY <1>2, <2>1
<1>9. ASSUME k + n <= w, NEW i \in 1..n PROVE c[k + i] = src[i]
  <2>1. k + i \in 1..w /\ k + i \in (k + 1)..e /\ (k + i) - k = i
    BY <1>1, <1>9
  <2> QED BY <1>2, <2>1
<1> QED
  BY <1>0, <1>3, <1>6, <1>7, <1>8, <1>9 DEF Copied

-----------------------------------------------------------------------------
(* The conversions of numbers.                                             *)

\* An amount is refused exactly if it has more bytes than its array; otherwise
\* the contract reads from the array the amount that was given.
LEMMA AmountFacts ==
  ASSUME NEW n \in Nat
  PROVE  /\ amount(n) # <<>> <=> n < Pow[Wide]
         /\ n < Pow[Wide] => Value(amount(n)) = n
<1>1. PICK b \in Seq(Nat), l \in Nat : b = Bytes[n] /\ l = Len(b)
  BY BytesAreNat, Zenon
<1>2. PICK m \in Nat : m = Wide /\ m > 0
  BY WordsAssumption DEF Wide
<1>3. l <= m <=> n < Pow[m]
  BY <1>1, BytesLen
<1>4. CASE l > m
  <2>1. amount(n) = <<>>
    BY <1>1, <1>2, <1>4 DEF amount
  <2>2. ~(n < Pow[Wide])
    BY <1>2, <1>3, <1>4
  <2> QED BY <2>1, <2>2
<1>5. CASE l <= m
  <2>1. PICK k \in Nat : k = m - l
    BY <1>5
  <2>2. k <= m /\ k + l = m
    BY <1>5, <2>1
  <2>3. PICK c : c = CopyAt(m, k, b)
    OBVIOUS
  <2>4. amount(n) = c
    <3>1. ~(l > m)
      BY <1>5
    <3> QED BY <1>1, <1>2, <2>1, <2>3, <3>1 DEF amount
  <2>a. Copied(c, m, k, b)
    BY <1>2, <2>2, <2>3, CopyFacts
  <2>5. c \in Seq(Nat) /\ Len(c) = m /\ c # <<>>
    BY <2>a DEF Copied
  <2>6. Starts(c, k, b)
    <3>1. k + Len(b) <= m
      BY <1>1, <2>2
    <3> QED BY <2>a, <3>1 DEF Starts, Copied
  <2>7. PICK v : Horner(b, v) /\ Value(b) = v[Len(b)]
    BY ValueFacts
  <2>8. PICK w : Horner(c, w) /\ Value(c) = w[Len(c)]
    BY <2>5, ValueFacts
  <2>9. w[k + Len(b)] = v[Len(b)]
    <3>1. c \in Seq(Nat)
      BY <2>5
    <3>2. Horner(b, v) /\ Horner(c, w)
      BY <2>7, <2>8
    <3> QED BY <2>6, <3>1, <3>2, HornerAlike, Zenon
  <2>10. Value(b) = n
    BY <1>1, ValueBytes
  <2>11. Value(c) = n
    <3>1. k + Len(b) = Len(c)
      BY <1>1, <2>2, <2>5
    <3> QED BY <2>7, <2>8, <2>9, <2>10, <3>1
  <2>12. n < Pow[Wide]
    BY <1>2, <1>3, <1>5
  <2> QED BY <2>4, <2>5, <2>11, <2>12
<1> QED
  BY <1>4, <1>5

\* The ms_ts of a claim is refused exactly if it has fewer bytes than its array,
\* for the slice panics, or more than twice as many.
LEMMA ClaimFacts ==
  ASSUME NEW n \in Nat
  PROVE  claimMsTs(n) # <<>> <=> n >= Pow[Width - 1] /\ n < Pow[Wide]
<1>1. PICK b \in Seq(Nat), l \in Nat : b = Bytes[n] /\ l = Len(b)
  BY BytesAreNat, Zenon
<1>2. PICK w \in Nat, u \in Nat, m \in Nat :
        w = Width /\ u = Width - 1 /\ m = Wide /\ w > 0 /\ u = w - 1 /\ m = 2 * w
  BY WordsAssumption DEF Wide
<1>3. (l <= m <=> n < Pow[m]) /\ (l <= u <=> n < Pow[u]) /\ Pow[u] \in Nat
  BY <1>1, BytesLen, PowFacts
<1>4. n >= Pow[u] <=> ~(n < Pow[u])
  BY <1>3
<1>5. CASE l > m
  <2>1. claimMsTs(n) = <<>>
    BY <1>1, <1>2, <1>5 DEF claimMsTs
  <2>2. ~(l <= m)
    BY <1>5
  <2> QED BY <1>2, <1>3, <2>1, <2>2
<1>6. CASE l <= m
  <2>1. PICK k \in Nat : k = m - l
    BY <1>6
  <2>2. claimMsTs(n) = CopyAt(w, k, b)
    <3>1. ~(l > m)
      BY <1>6
    <3> QED BY <1>1, <1>2, <2>1, <3>1 DEF claimMsTs
  <2>3. k > w <=> l <= u
    BY <1>2, <2>1
  <2>4. CASE k > w
    <3>1. CopyAt(w, k, b) = <<>>
      BY <2>4 DEF CopyAt
    <3> QED BY <1>2, <1>3, <1>4, <2>2, <2>3, <2>4, <3>1
  <2>5. CASE ~(k > w)
    <3>1. k <= w
      BY <2>5
    <3>2. CopyAt(w, k, b) # <<>>
      BY <1>2, <3>1, CopyFacts DEF Copied
    <3>3. ~(l <= u)
      BY <2>3, <2>5
    <3> QED BY <1>2, <1>3, <1>4, <1>6, <2>2, <3>2, <3>3
  <2> QED BY <2>4, <2>5
<1> QED
  BY <1>5, <1>6

\* Two numbers with equally many bytes, not more than the array has, become the
\* ms_ts of a mint in different ways: the array starts with their bytes.
LEMMA MintMsTsInjective ==
  ASSUME NEW m \in Nat, NEW n \in Nat, Len(Bytes[m]) = Len(Bytes[n]), Len(Bytes[m]) <= Width,
         mintMsTs(m) = mintMsTs(n)
  PROVE  m = n
<1>1. PICK b \in Seq(Nat), c \in Seq(Nat), l \in Nat :
        b = Bytes[m] /\ c = Bytes[n] /\ l = Len(b) /\ l = Len(c)
  BY BytesAreNat, Zenon
<1>2. PICK w \in Nat : w = Width /\ w > 0 /\ l <= w
  BY <1>1, WordsAssumption
<1>3. PICK d : d = CopyAt(w, 0, b) /\ d = CopyAt(w, 0, c)
  BY <1>1, <1>2 DEF mintMsTs
<1>4. 0 \in Nat /\ 0 <= w /\ 0 + l <= w
  BY <1>2
<1>a. Copied(d, w, 0, b) /\ Copied(d, w, 0, c)
  BY <1>2, <1>3, <1>4, CopyFacts
<1>5. (\A i \in 1..l : d[0 + i] = b[i]) /\ (\A i \in 1..l : d[0 + i] = c[i])
  BY <1>1, <1>4, <1>a DEF Copied
<1>6. b \in [1..l -> Nat] /\ c \in [1..l -> Nat]
  BY <1>1
<1>b. \A i \in 1..l : b[i] = c[i]
  BY <1>5
<1>7. b = c
  BY <1>6, <1>b
<1>8. Value(b) = m /\ Value(c) = n
  BY <1>1, ValueBytes
<1> QED
  BY <1>7, <1>8

-----------------------------------------------------------------------------
(* The conversions of optional arguments.                                  *)

LEMMA OptionalOne ==
  ASSUME NEW o, Optional(o), NEW x \in o
  PROVE  o = {x}
BY DEF Optional

LEMMA AbsFacts ==
  ASSUME NEW n \in Int
  PROVE  Abs(n) \in Nat
BY DEF Abs

LEMMA AmountBytesFacts ==
  ASSUME NEW dec \in SUBSET Int, Optional(dec)
  PROVE  /\ AmountBytes(dec) # {} <=> \E n \in dec : Abs(n) < Pow[Wide]
         /\ \A a \in AmountBytes(dec) :
              \E n \in Int : dec = {n} /\ a = amount(Abs(n)) /\ Value(a) = Abs(n)
<1>1. ASSUME NEW a \in AmountBytes(dec)
      PROVE  \E n \in dec : a = amount(Abs(n)) /\ Abs(n) < Pow[Wide] /\ Value(a) = Abs(n)
  <2>1. PICK n \in dec : a = amount(Abs(n)) /\ a # <<>>
    BY <1>1 DEF AmountBytes
  <2>2. PICK k \in Nat : k = Abs(n)
    BY AbsFacts
  <2>3. amount(k) # <<>> /\ a = amount(k)
    BY <2>1, <2>2
  <2>4. k < Pow[Wide] /\ Value(a) = k
    BY <2>3, AmountFacts
  <2> QED BY <2>1, <2>2, <2>4
<1>2. ASSUME NEW n \in dec, Abs(n) < Pow[Wide] PROVE amount(Abs(n)) \in AmountBytes(dec)
  <2>1. PICK k \in Nat : k = Abs(n)
    BY AbsFacts
  <2>2. amount(k) # <<>>
    BY <1>2, <2>1, AmountFacts
  <2> QED BY <2>1, <2>2 DEF AmountBytes
<1>3. ASSUME NEW n \in dec PROVE n \in Int /\ dec = {n}
  BY OptionalOne
<1>4. AmountBytes(dec) # {} <=> \E n \in dec : Abs(n) < Pow[Wide]
  BY <1>1, <1>2, Zenon
<1>5. ASSUME NEW a \in AmountBytes(dec)
      PROVE  \E n \in Int : dec = {n} /\ a = amount(Abs(n)) /\ Value(a) = Abs(n)
  BY <1>1, <1>3, Zenon
<1> QED
  BY <1>4, <1>5

\* The hex arguments.
LEMMA HexFacts ==
  ASSUME NEW h \in Hex
  PROVE  /\ GoodHex(h) => /\ IsHexAddress(h)
                          /\ strToBytes8(h) = {Plain(h)} /\ strToBytes32(h) = {Plain(h)}
         /\ ~GoodHex(h) => ~IsHexAddress(h) /\ strToBytes8(h) = {} /\ strToBytes32(h) = {}
         /\ h \in {"a", "b", "0xa", ""} => strToAddr(h) = {Address(h)}
         /\ h \notin {"a", "b", "0xa", ""} => strToAddr(h) = {}
         /\ GoodHex(h) => Address(h) = Plain(h) /\ h \in {"a", "b", "0xa", ""}
BY DEF Hex, GoodHex, IsHexAddress, strToBytes8, strToBytes32, strToAddr, Address, Plain

\* A permit that can be sent, and what is sent for it.
GoodPermit(p) ==
  /\ p.deadline \in 0..MaxInt32 /\ p.v \in 0..MaxUint8 /\ GoodHex(p.r) /\ GoodHex(p.s)

PermitArgs(p) ==
  [asset |-> Usdc, deadline |-> p.deadline, v |-> p.v, r |-> Plain(p.r), s |-> Plain(p.s)]

InRange(p) == Int32(p.deadline) # {} /\ Int32(p.v) # {}

LEMMA UnmarshalPermit ==
  ASSUME NEW p \in PermitInput
  PROVE  unmarshalInputPermit(p) = IF InRange(p) THEN {p} ELSE {}
<1>1. [p EXCEPT !.deadline = p.deadline, !.v = p.v] = p
  BY DEF PermitInput
<1>2. Int32(p.deadline) \in {{}, {p.deadline}} /\ Int32(p.v) \in {{}, {p.v}}
  BY DEF Int32
<1>a. \A x : x \in unmarshalInputPermit(p) <=>
        \E d \in Int32(p.deadline), v \in Int32(p.v) : x = [p EXCEPT !.deadline = d, !.v = v]
  BY DEF unmarshalInputPermit
<1>3. CASE InRange(p)
  <2>1. Int32(p.deadline) = {p.deadline} /\ Int32(p.v) = {p.v}
    BY <1>2, <1>3 DEF InRange
  <2>2. unmarshalInputPermit(p) = {[p EXCEPT !.deadline = p.deadline, !.v = p.v]}
    BY <1>a, <2>1, Zenon
  <2> QED BY <1>1, <1>3, <2>2
<1>4. CASE ~InRange(p)
  BY <1>4, <1>a DEF InRange
<1> QED
  BY <1>3, <1>4

LEMMA UnmarshalMint ==
  ASSUME NEW m \in MintInput, OneMint(m)
  PROVE  unmarshalInputMint(m) = IF \A p \in m.permit : InRange(p) THEN {m} ELSE {}
<1>1. CASE m.permit = {}
  BY <1>1 DEF unmarshalInputMint
<1>2. CASE m.permit # {}
  <2>1. PICK p \in m.permit : TRUE
    BY <1>2
  <2>2. m.permit = {p} /\ p \in PermitInput
    BY OptionalOne DEF OneMint, MintInput
  <2>3. UNION {unmarshalInputPermit(x) : x \in m.permit} = unmarshalInputPermit(p)
    BY <2>2, Zenon
  <2>4. unmarshalInputMint(m) = {[m EXCEPT !.permit = {x}] : x \in unmarshalInputPermit(p)}
    BY <1>2, <2>3, Zenon DEF unmarshalInputMint
  <2>5. [m EXCEPT !.permit = {p}] = m
    BY <2>2 DEF MintInput
  <2>6. CASE InRange(p)
    <3>1. unmarshalInputPermit(p) = {p}
      BY <2>2, <2>6, UnmarshalPermit
    <3>2. unmarshalInputMint(m) = {[m EXCEPT !.permit = {p}]}
      BY <2>4, <3>1, Zenon
    <3> QED BY <2>2, <2>5, <2>6, <3>2
  <2>7. CASE ~InRange(p)
    <3>1. unmarshalInputPermit(p) = {}
      BY <2>2, <2>7, UnmarshalPermit
    <3> QED BY <2>2, <2>4, <2>7, <3>1
  <2> QED BY <2>6, <2>7
<1> QED
  BY <1>1, <1>2

\* A permit is sent exactly if it is good.
LEMMA PermitFacts ==
  ASSUME NEW o \in SUBSET PermitInput, Optional(o)
  PROVE  /\ o = {} => Permits(o) = {<<>>}
         /\ \A p \in o : /\ GoodPermit(p) => InRange(p) /\ Permits(o) = {<<PermitArgs(p)>>}
                         /\ ~GoodPermit(p) => ~InRange(p) \/ Permits(o) = {}
             /\ Permits(o) \subseteq {<<PermitArgs(p)>>}
                         /\ Permits(o) \subseteq {<<PermitArgs(p)>>}
<1>1. o = {} => Permits(o) = {<<>>}
  BY DEF Permits
<1>2. ASSUME NEW p \in o
      PROVE  /\ GoodPermit(p) => InRange(p) /\ Permits(o) = {<<PermitArgs(p)>>}
             /\ ~GoodPermit(p) => ~InRange(p) \/ Permits(o) = {}
             /\ Permits(o) \subseteq {<<PermitArgs(p)>>}
  <2>1. o = {p} /\ p \in PermitInput
    BY OptionalOne
  <2>2. p.deadline \in Int /\ p.v \in Int /\ p.r \in Hex /\ p.s \in Hex
    BY <2>1 DEF PermitInput
  <2>3. CASE p.deadline >= 0
    <3>1. {y \in o : y.deadline >= 0} = {p}
      BY <2>1, <2>3
    <3>2. UNION {NewPermitGraph(x) : x \in {p}} = NewPermitGraph(p)
      BY Zenon
    <3>3. Permits(o) = {<<x>> : x \in NewPermitGraph(p)}
      <4>1. o # {}
        BY <2>1
      <4> QED BY <3>1, <3>2, <4>1, Zenon DEF Permits
    <3>a. \A x : x \in NewPermitGraph(p) <=>
            \E v \in Uint8(p.v), r \in strToBytes32(p.r), z \in strToBytes32(p.s) :
              x = [asset |-> Usdc, deadline |-> p.deadline, v |-> v, r |-> r, s |-> z]
      BY DEF NewPermitGraph
    <3>b. Permits(o) \subseteq {<<PermitArgs(p)>>}
      <4>1. /\ Uint8(p.v) \subseteq {p.v} /\ strToBytes32(p.r) \subseteq {Plain(p.r)}
            /\ strToBytes32(p.s) \subseteq {Plain(p.s)}
        BY DEF Uint8, strToBytes32
      <4>2. \A x \in NewPermitGraph(p) : x = PermitArgs(p)
        BY <3>a, <4>1, Zenon DEF PermitArgs
      <4> QED BY <3>3, <4>2, Zenon
    <3>4. CASE GoodPermit(p)
      <4>1. InRange(p)
        BY <2>2, <3>4, EnvelopeAssumption DEF GoodPermit, InRange, Int32
      <4>2. Uint8(p.v) = {p.v} /\ strToBytes32(p.r) = {Plain(p.r)} /\ strToBytes32(p.s) = {Plain(p.s)}
        BY <2>2, <3>4, HexFacts DEF GoodPermit, Uint8
      <4>3. NewPermitGraph(p) = {PermitArgs(p)}
        BY <3>a, <4>2, Zenon DEF PermitArgs
      <4>4. Permits(o) = {<<PermitArgs(p)>>}
        BY <3>3, <4>3, Zenon
      <4> QED BY <3>4, <3>b, <4>1, <4>4
    <3>5. CASE ~GoodPermit(p)
      <4>1. p.deadline > MaxInt32 => ~InRange(p)
        BY <2>2, EnvelopeAssumption DEF InRange, Int32
      <4>2. ~(p.v \in 0..MaxUint8 /\ GoodHex(p.r) /\ GoodHex(p.s)) => NewPermitGraph(p) = {}
        <5>1. p.v \notin 0..MaxUint8 => Uint8(p.v) = {}
          BY DEF Uint8
        <5>2. (~GoodHex(p.r) => strToBytes32(p.r) = {}) /\ (~GoodHex(p.s) => strToBytes32(p.s) = {})
          BY <2>2, HexFacts
        <5> QED BY <3>a, <5>1, <5>2, Zenon
      <4>3. NewPermitGraph(p) = {} => Permits(o) = {}
        BY <3>3
      <4>4. p.deadline > MaxInt32 \/ p.deadline \in 0..MaxInt32
        BY <2>2, <2>3, EnvelopeAssumption
      <4> QED BY <3>5, <3>b, <4>1, <4>2, <4>3, <4>4 DEF GoodPermit
    <3> QED BY <3>4, <3>5
  <2>4. CASE ~(p.deadline >= 0)
    <3>1. {y \in o : y.deadline >= 0} = {} /\ o # {}
      BY <2>1, <2>4
    <3>2. Permits(o) = {}
      BY <3>1 DEF Permits
    <3>3. ~GoodPermit(p)
      BY <2>2, <2>4, EnvelopeAssumption DEF GoodPermit
    <3> QED BY <3>2, <3>3
  <2> QED BY <2>3, <2>4
<1> QED
  BY <1>1, <1>2

-----------------------------------------------------------------------------
(* The solve of a mint.                                                    *)

\* What is signed for the mint m of the amount n at the time k.
MintArgs(m, n, k, p, who) ==
  [permit |-> p,
   from |-> <<[asset |-> Usdc, to_take |-> amount(Abs(n)), max_unspent |-> 0]>>,
   target |-> Address(m.market),
   cd |-> <<"mint8A059B6E", [front |-> Plain(m.outcome), back |-> "zero"], Abs(n),
            [front |-> "zero", back |-> Address(m.referrer)], [front |-> "zero", back |-> who]>>,
   ms_ts |-> mintMsTs(Abs(k))]

\* x is what is signed for m.
SignedFor(x, m, who) ==
  \E n \in Int, k \in Int, p \in Permits(m.permit) :
    /\ m.amount = {n} /\ m.ms_ts = {k}
    /\ Value(amount(Abs(n))) = Abs(n)
    /\ x = MintArgs(m, n, k, p, who)

LEMMA MintGraph ==
  ASSUME NEW m \in MintInput, OneMint(m), NEW who, NEW x
  PROVE  x \in CreateSolveArgsSigArgsMintGraph(m, who) <=>
           \E o \in strToBytes8(m.outcome), a \in AmountBytes(m.amount),
              market \in strToAddr(m.market), ref \in strToAddr(m.referrer),
              ms \in MintMsTs(m.ms_ts), p \in Permits(m.permit) :
             x = CreateSolveArgsSigArgsMint(Usdc, market, o, a, ref, who, p, ms)
BY DEF CreateSolveArgsSigArgsMintGraph

LEMMA MintGraphSigned ==
  ASSUME NEW m \in MintInput, OneMint(m), NEW who,
         NEW x \in CreateSolveArgsSigArgsMintGraph(m, who)
  PROVE  SignedFor(x, m, who)
<1>1. PICK o \in strToBytes8(m.outcome), a \in AmountBytes(m.amount),
           market \in strToAddr(m.market), ref \in strToAddr(m.referrer),
           ms \in MintMsTs(m.ms_ts), p \in Permits(m.permit) :
        x = CreateSolveArgsSigArgsMint(Usdc, market, o, a, ref, who, p, ms)
  BY MintGraph
<1>2. /\ m.outcome \in Hex /\ m.market \in Hex /\ m.referrer \in Hex
      /\ m.amount \in SUBSET Int /\ m.ms_ts \in SUBSET Int
      /\ Optional(m.amount) /\ Optional(m.ms_ts)
  BY DEF MintInput, OneMint
<1>3. PICK n \in Int : m.amount = {n} /\ a = amount(Abs(n)) /\ Value(a) = Abs(n)
  BY <1>2, AmountBytesFacts
<1>4. PICK k \in Int : m.ms_ts = {k} /\ ms = mintMsTs(Abs(k))
  <2>1. PICK k \in m.ms_ts : ms = mintMsTs(Abs(k))
    BY DEF MintMsTs
  <2> QED BY <1>2, <2>1, OptionalOne
<1>5. o = Plain(m.outcome) /\ market = Address(m.market) /\ ref = Address(m.referrer)
  <2>1. o = Plain(m.outcome)
    BY <1>2, HexFacts
  <2>2. market = Address(m.market) /\ ref = Address(m.referrer)
    BY <1>2, HexFacts
  <2> QED BY <2>1, <2>2
<1>6. x = MintArgs(m, n, k, p, who)
  BY <1>1, <1>3, <1>4, <1>5, Zenon
  DEF CreateSolveArgsSigArgsMint, CreateSolveArgsSigArgs, FromArgs, NewMint, BytesWord, AddressWord,
      MintArgs
<1>7. Value(amount(Abs(n))) = Abs(n)
  BY <1>3
<1> QED
  BY <1>3, <1>4, <1>6, <1>7, Zenon DEF SignedFor

\* A mint is signed exactly if it is good.
LEMMA MintGraphGood ==
  ASSUME NEW m \in MintInput, OneMint(m), NEW who
  PROVE  GoodMint(m) <=> /\ \A p \in m.permit : InRange(p)
                         /\ CreateSolveArgsSigArgsMintGraph(m, who) # {}
<1>1. /\ m.outcome \in Hex /\ m.market \in Hex /\ m.referrer \in Hex
      /\ m.amount \in SUBSET Int /\ m.permit \in SUBSET PermitInput
      /\ Optional(m.amount) /\ Optional(m.permit)
  BY DEF MintInput, OneMint
<1>2. CreateSolveArgsSigArgsMintGraph(m, who) # {} <=>
        /\ strToBytes8(m.outcome) # {} /\ AmountBytes(m.amount) # {}
        /\ strToAddr(m.market) # {} /\ strToAddr(m.referrer) # {}
        /\ MintMsTs(m.ms_ts) # {} /\ Permits(m.permit) # {}
  <2>1. ASSUME NEW x \in CreateSolveArgsSigArgsMintGraph(m, who)
        PROVE  /\ strToBytes8(m.outcome) # {} /\ AmountBytes(m.amount) # {}
               /\ strToAddr(m.market) # {} /\ strToAddr(m.referrer) # {}
               /\ MintMsTs(m.ms_ts) # {} /\ Permits(m.permit) # {}
    BY MintGraph
  <2>2. ASSUME NEW o \in strToBytes8(m.outcome), NEW a \in AmountBytes(m.amount),
               NEW market \in strToAddr(m.market), NEW ref \in strToAddr(m.referrer),
               NEW ms \in MintMsTs(m.ms_ts), NEW p \in Permits(m.permit)
        PROVE  CreateSolveArgsSigArgsMintGraph(m, who) # {}
    <3>1. PICK x : x = CreateSolveArgsSigArgsMint(Usdc, market, o, a, ref, who, p, ms)
      OBVIOUS
    <3>2. x \in CreateSolveArgsSigArgsMintGraph(m, who)
      BY <3>1, MintGraph
    <3> QED BY <3>2
  <2> QED BY <2>1, <2>2, Zenon
<1>3. strToBytes8(m.outcome) # {} <=> GoodHex(m.outcome)
  BY <1>1, HexFacts
<1>4. strToAddr(m.market) # {} /\ strToAddr(m.referrer) # {} <=>
        {m.market, m.referrer} \subseteq {"a", "b", "0xa", ""}
  <2>1. strToAddr(m.market) # {} <=> m.market \in {"a", "b", "0xa", ""}
    BY <1>1, HexFacts
  <2>2. strToAddr(m.referrer) # {} <=> m.referrer \in {"a", "b", "0xa", ""}
    BY <1>1, HexFacts
  <2> QED BY <2>1, <2>2
<1>5. AmountBytes(m.amount) # {} <=> \E n \in m.amount : Abs(n) < Pow[Wide]
  BY <1>1, AmountBytesFacts
<1>6. MintMsTs(m.ms_ts) # {} <=> m.ms_ts # {}
  BY DEF MintMsTs
<1>7. (\A p \in m.permit : GoodPermit(p)) <=>
        (\A p \in m.permit : InRange(p)) /\ Permits(m.permit) # {}
  <2>1. CASE m.permit = {}
    BY <1>1, <2>1, PermitFacts
  <2>2. CASE m.permit # {}
    <3>1. PICK p \in m.permit : TRUE
      BY <2>2
    <3>2. m.permit = {p}
      BY <1>1, OptionalOne
    <3>3. /\ GoodPermit(p) => InRange(p) /\ Permits(m.permit) = {<<PermitArgs(p)>>}
          /\ ~GoodPermit(p) => ~InRange(p) \/ Permits(m.permit) = {}
      BY <1>1, PermitFacts
    <3>4. GoodPermit(p) <=> InRange(p) /\ Permits(m.permit) # {}
      BY <3>3
    <3> QED BY <3>2, <3>4
  <2> QED BY <2>1, <2>2
<1>8. GoodMint(m) <=>
        /\ GoodHex(m.outcome) /\ {m.market, m.referrer} \subseteq {"a", "b", "0xa", ""}
        /\ \E n \in m.amount : Abs(n) < Pow[Wide]
        /\ m.ms_ts # {}
        /\ \A p \in m.permit : GoodPermit(p)
  BY DEF GoodMint, GoodPermit
<1> QED
  BY <1>2, <1>3, <1>4, <1>5, <1>6, <1>7, <1>8

\* The permit that is signed is the one of the mint.
LEMMA PermitSigned ==
  ASSUME NEW o \in SUBSET PermitInput, Optional(o), NEW p \in Permits(o)
  PROVE  (o = {} /\ p = <<>>) \/ \E y \in PermitInput : o = {y} /\ p = <<PermitArgs(y)>>
<1>1. CASE o = {}
  BY <1>1, PermitFacts
<1>2. CASE o # {}
  <2>1. PICK y \in o : TRUE
    BY <1>2
  <2>2. o = {y} /\ y \in PermitInput
    BY OptionalOne
  <2>4. p = <<PermitArgs(y)>>
    BY PermitFacts
  <2> QED BY <2>2, <2>4
<1> QED
  BY <1>1, <1>2

-----------------------------------------------------------------------------
(* What is sent for a request.                                             *)

LEMMA RequestFacts ==
  ASSUME NEW q \in Request
  PROVE  /\ q.op \in {"create", "mint", "claim"}
         /\ q.op = "claim" => q \in ClaimRequest /\ Optional(q.ms_ts)
         /\ q.op = "mint" => q \in MintRequest
         /\ q.op = "create" => q \in CreateRequest /\ Optional(q.account.authority)
         /\ q.op # "claim" => /\ q.mint \in SUBSET MintInput /\ Optional(q.mint)
                              /\ \A m \in q.mint : OneMint(m)
         /\ q.op = "mint" => q.mint # {}
<1>1. q \in CreateRequest \/ q \in MintRequest \/ q \in ClaimRequest
  BY RequestAssumption
<1>2. /\ q \in CreateRequest => q.op = "create" /\ q.mint \in SUBSET MintInput
      /\ q \in MintRequest => q.op = "mint" /\ q.mint \in SUBSET MintInput
      /\ q \in ClaimRequest => q.op = "claim"
  BY DEF CreateRequest, MintRequest, ClaimRequest
<1>3. /\ q.op = "claim" => Optional(q.ms_ts)
      /\ q.op # "claim" => Optional(q.mint) /\ \A m \in q.mint : OneMint(m)
      /\ q.op = "mint" => q.mint # {}
      /\ q.op = "create" => Optional(q.account.authority)
  BY RequestAssumption
<1>4. CASE q \in CreateRequest
  BY <1>2, <1>3, <1>4
<1>5. CASE q \in MintRequest
  BY <1>2, <1>3, <1>5
<1>6. CASE q \in ClaimRequest
  BY <1>2, <1>3, <1>6
<1> QED
  BY <1>1, <1>4, <1>5, <1>6

LEMMA MintFacts ==
  ASSUME NEW q \in Request, q.op # "claim", NEW m \in q.mint
  PROVE  m \in MintInput /\ OneMint(m) /\ q.mint = {m}
<1>1. q.mint \in SUBSET MintInput /\ Optional(q.mint) /\ \A n \in q.mint : OneMint(n)
  BY RequestFacts
<1> QED
  BY <1>1, OptionalOne

InRangeMint(m) == \A p \in m.permit : InRange(p)

LEMMA SentMint ==
  ASSUME NEW q \in Request, q.op = "mint", NEW m \in q.mint, NEW e
  PROVE  e \in Sent(q) <=>
           /\ InRangeMint(m) /\ Enough(m.amount)
           /\ \E f \in CreateSolveArgsSigArgsMintGraph(m, q.eoa) : e = CreateSolveV2(f, q.eoa, q.eoa)
<1>1. m \in MintInput /\ OneMint(m) /\ q.mint = {m}
  BY MintFacts
<1>2. Sent(q) = NinelivesMint(q)
  BY DEF Sent
<1>3. unmarshalInputMint(m) = IF InRangeMint(m) THEN {m} ELSE {}
  BY <1>1, UnmarshalMint DEF InRangeMint
<1>4. UNION {unmarshalInputMint(y) : y \in q.mint} = unmarshalInputMint(m)
  BY <1>1, Zenon
<1>5. \A x : x \in {z \in UNION {unmarshalInputMint(y) : y \in q.mint} : Enough(z.amount)} <=>
               x = m /\ InRangeMint(m) /\ Enough(m.amount)
  BY <1>3, <1>4
<1>6. e \in NinelivesMint(q) <=>
        \E x \in {z \in UNION {unmarshalInputMint(y) : y \in q.mint} : Enough(z.amount)} :
          \E f \in CreateSolveArgsSigArgsMintGraph(x, q.eoa) : e = CreateSolveV2(f, q.eoa, q.eoa)
  BY Zenon DEF NinelivesMint
<1> QED
  BY <1>2, <1>5, <1>6, Zenon

LEMMA SentClaim ==
  ASSUME NEW q \in Request, q.op = "claim", NEW e
  PROVE  e \in Sent(q) <=>
           /\ \A i \in DOMAIN q.markets : IsHexAddress(q.markets[i])
           /\ \E ms \in ClaimMsTs(q.ms_ts) :
                e = CreateSolveV2(CreatePayoffForOtherArgs([i \in DOMAIN q.markets |-> Plain(q.markets[i])],
                                                           q.eoa, ms), q.eoa, q.eoa)
<1>1. Sent(q) = ClaimRewards(q)
  BY DEF Sent
<1> QED
  BY <1>1, Zenon DEF ClaimRewards, CreatePayoffForOtherArgsGraph

GoodAccount(c) ==
  /\ GoodHex(c.eoa) /\ GoodHex(c.r) /\ GoodHex(c.s)
  /\ c.v \in 0..MaxUint8 /\ c.authority \subseteq {"a", "b", "0xa", ""}

Fresh(c) ==
  CreateAccountToFreshBackwards(Plain(c.eoa), c.v, Plain(c.r), Plain(c.s),
                                {Address(h) : h \in c.authority})

LEMMA AuthorityFacts ==
  ASSUME NEW o \in SUBSET Hex, Optional(o)
  PROVE  Authority(o) = IF o \subseteq {"a", "b", "0xa", ""} THEN {{Address(h) : h \in o}} ELSE {}
<1>1. CASE o = {}
  BY <1>1 DEF Authority
<1>2. CASE o # {}
  <2>1. PICK h \in o : TRUE
    BY <1>2
  <2>2. o = {h} /\ h \in Hex
    BY OptionalOne
  <2>3. UNION {strToAddr(x) : x \in o} = strToAddr(h)
    BY <2>2, Zenon
  <2>4. Authority(o) = {{a} : a \in strToAddr(h)}
    BY <1>2, <2>3, Zenon DEF Authority
  <2>5. CASE h \in {"a", "b", "0xa", ""}
    <3>1. strToAddr(h) = {Address(h)}
      BY <2>2, <2>5, HexFacts
    <3>2. Authority(o) = {{Address(h)}}
      BY <2>4, <3>1, Zenon
    <3>3. {Address(x) : x \in o} = {Address(h)}
      BY <2>2, Zenon
    <3> QED BY <2>2, <2>5, <3>2, <3>3
  <2>6. CASE h \notin {"a", "b", "0xa", ""}
    <3>1. strToAddr(h) = {}
      BY <2>2, <2>6, HexFacts
    <3>2. Authority(o) = {}
      BY <2>4, <3>1, Zenon
    <3> QED BY <2>2, <2>6, <3>2
  <2> QED BY <2>5, <2>6
<1> QED
  BY <1>1, <1>2

LEMMA FreshFacts ==
  ASSUME NEW c \in AccountInput, Optional(c.authority), NEW e
  PROVE  IsHexAddress(c.eoa) /\ e \in CreateAccountToFreshBackwardsGraph(c) <=>
           GoodAccount(c) /\ e = Fresh(c)
<1>1. /\ c.eoa \in Hex /\ c.r \in Hex /\ c.s \in Hex /\ c.authority \in SUBSET Hex /\ c.v \in Int
  BY DEF AccountInput
<1>2. e \in CreateAccountToFreshBackwardsGraph(c) <=>
        \E eoa \in strToAddr(c.eoa), a \in Authority(c.authority), v \in Uint8(c.v),
           r \in strToBytes32(c.r), s \in strToBytes32(c.s) :
          e = CreateAccountToFreshBackwards(eoa, v, r, s, a)
  BY DEF CreateAccountToFreshBackwardsGraph
<1>3. Authority(c.authority) = IF c.authority \subseteq {"a", "b", "0xa", ""}
                               THEN {{Address(h) : h \in c.authority}} ELSE {}
  BY <1>1, AuthorityFacts
<1>4. Uint8(c.v) = IF c.v \in 0..MaxUint8 THEN {c.v} ELSE {}
  BY DEF Uint8
<1>5. (GoodHex(c.eoa) <=> IsHexAddress(c.eoa)) /\ (GoodHex(c.eoa) => strToAddr(c.eoa) = {Plain(c.eoa)})
  BY <1>1, HexFacts
<1>6. /\ strToBytes32(c.r) = IF GoodHex(c.r) THEN {Plain(c.r)} ELSE {}
      /\ strToBytes32(c.s) = IF GoodHex(c.s) THEN {Plain(c.s)} ELSE {}
  BY <1>1, HexFacts
<1>7. ASSUME GoodAccount(c), e = Fresh(c)
      PROVE  IsHexAddress(c.eoa) /\ e \in CreateAccountToFreshBackwardsGraph(c)
  <2>1. /\ Plain(c.eoa) \in strToAddr(c.eoa) /\ c.v \in Uint8(c.v)
        /\ {Address(h) : h \in c.authority} \in Authority(c.authority)
        /\ Plain(c.r) \in strToBytes32(c.r) /\ Plain(c.s) \in strToBytes32(c.s)
        /\ IsHexAddress(c.eoa)
    BY <1>3, <1>4, <1>5, <1>6, <1>7 DEF GoodAccount
  <2> QED BY <1>2, <1>7, <2>1, Zenon DEF Fresh
<1>8. ASSUME IsHexAddress(c.eoa), e \in CreateAccountToFreshBackwardsGraph(c)
      PROVE  GoodAccount(c) /\ e = Fresh(c)
  <2>1. PICK eoa \in strToAddr(c.eoa), a \in Authority(c.authority), v \in Uint8(c.v),
             r \in strToBytes32(c.r), s \in strToBytes32(c.s) :
          e = CreateAccountToFreshBackwards(eoa, v, r, s, a)
    BY <1>2, <1>8
  <2>2. /\ eoa = Plain(c.eoa) /\ v = c.v /\ r = Plain(c.r) /\ s = Plain(c.s)
        /\ a = {Address(h) : h \in c.authority} /\ GoodAccount(c)
    BY <1>3, <1>4, <1>5, <1>6, <1>8, Zenon DEF GoodAccount
  <2> QED BY <2>1, <2>2, Zenon DEF Fresh
<1> QED
  BY <1>7, <1>8

LEMMA UnmarshalAccount ==
  ASSUME NEW c \in AccountInput
  PROVE  /\ unmarshalInputCreateAccount(c) \subseteq {c}
         /\ GoodAccount(c) => c \in unmarshalInputCreateAccount(c)
<1>1. [c EXCEPT !.v = c.v] = c
  BY DEF AccountInput
<1>2. Int32(c.v) \subseteq {c.v}
  BY DEF Int32
<1>3. GoodAccount(c) => c.v \in Int32(c.v)
  <2>1. \A n \in 0..MaxUint8 : n \in (-MaxInt32 - 1)..MaxInt32
    BY EnvelopeAssumption
  <2> QED BY <2>1, Zenon DEF GoodAccount, Int32
<1>4. \A x : x \in unmarshalInputCreateAccount(c) <=> \E v \in Int32(c.v) : x = [c EXCEPT !.v = v]
  BY DEF unmarshalInputCreateAccount
<1> QED
  BY <1>1, <1>2, <1>3, <1>4, Zenon

LEMMA SentCreate ==
  ASSUME NEW q \in Request, q.op = "create", NEW e
  PROVE  e \in Sent(q) <=>
           /\ GoodAccount(q.account)
           /\ \/ q.mint = {} /\ e = Fresh(q.account)
              \/ \E m \in q.mint :
                   /\ InRangeMint(m)
                   /\ \E x \in CreateSolveArgsSigArgsMintGraph(m, Plain(q.account.eoa)) :
                        e = [Fresh(q.account) EXCEPT !.solve_args = <<x>>]
<1> DEFINE Ms == UNION {unmarshalInputMint(y) : y \in q.mint}
           For(c) == IF ~IsHexAddress(c.eoa) THEN {}
                     ELSE IF q.mint = {} THEN CreateAccountToFreshBackwardsGraph(c)
                     ELSE UNION {TagFreshBackwardsWithMintGraph(x, m, Plain(c.eoa)) :
                                   x \in CreateAccountToFreshBackwardsGraph(c), m \in Ms}
<1>1. PICK c : c = q.account
  OBVIOUS
<1>2. c \in AccountInput /\ Optional(c.authority)
  BY <1>1, RequestFacts DEF CreateRequest
<1>3. e \in Sent(q) <=> \E d \in unmarshalInputCreateAccount(q.account) : e \in For(d)
  BY DEF Sent, CreateAccountExec
<1>4. \A m : m \in Ms <=> m \in q.mint /\ InRangeMint(m)
  <2>1. ASSUME NEW y \in q.mint PROVE unmarshalInputMint(y) = IF InRangeMint(y) THEN {y} ELSE {}
    BY MintFacts, UnmarshalMint DEF InRangeMint
  <2> QED BY <2>1
<1>5. ASSUME q.mint # {}
      PROVE  e \in For(c) <=>
               /\ IsHexAddress(c.eoa)
               /\ \E x \in CreateAccountToFreshBackwardsGraph(c), m \in Ms :
                    e \in TagFreshBackwardsWithMintGraph(x, m, Plain(c.eoa))
  BY <1>5
<1>6. q.mint = {} => (e \in For(c) <=> IsHexAddress(c.eoa) /\ e \in CreateAccountToFreshBackwardsGraph(c))
  OBVIOUS
<1> HIDE DEF Ms, For
<1>7. e \in Sent(q) => e \in For(c)
  BY <1>1, <1>2, <1>3, UnmarshalAccount
<1>8. GoodAccount(c) => (e \in For(c) <=> e \in Sent(q))
  BY <1>1, <1>2, <1>3, <1>7, UnmarshalAccount
<1>9. \A f : IsHexAddress(c.eoa) /\ f \in CreateAccountToFreshBackwardsGraph(c) <=>
               GoodAccount(c) /\ f = Fresh(c)
  BY <1>2, FreshFacts
<1>10. ASSUME NEW f, NEW m, NEW who
       PROVE  e \in TagFreshBackwardsWithMintGraph(f, m, who) <=>
                \E x \in CreateSolveArgsSigArgsMintGraph(m, who) : e = [f EXCEPT !.solve_args = <<x>>]
  BY DEF TagFreshBackwardsWithMintGraph
<1>11. CASE q.mint = {}
  <2>1. e \in For(c) <=> GoodAccount(c) /\ e = Fresh(c)
    BY <1>6, <1>9, <1>11
  <2> QED BY <1>1, <1>7, <1>8, <1>11, <2>1
<1>12. CASE q.mint # {}
  <2>1. e \in For(c) <=> GoodAccount(c) /\ \E m \in Ms :
                           e \in TagFreshBackwardsWithMintGraph(Fresh(c), m, Plain(c.eoa))
    BY <1>5, <1>9, <1>12, Zenon
  <2>2. e \in For(c) <=> GoodAccount(c) /\ \E m \in Ms :
                           \E x \in CreateSolveArgsSigArgsMintGraph(m, Plain(c.eoa)) :
                             e = [Fresh(c) EXCEPT !.solve_args = <<x>>]
    BY <1>10, <2>1, Zenon
  <2>3. e \in Sent(q) <=> e \in For(c)
    BY <1>7, <1>8, <2>1
  <2> QED BY <1>1, <1>4, <1>12, <2>2, <2>3, Zenon
<1> QED
  BY <1>11, <1>12

-----------------------------------------------------------------------------
(* The properties, for one and for two requests.                           *)

\* Exactly the well formed requests are sent.
LEMMA SentAccepted ==
  ASSUME NEW q \in Request
  PROVE  Sent(q) # {} <=> Accepted(q)
<1>1. CASE q.op = "mint"
  <2>1. PICK m \in q.mint : TRUE
    BY <1>1, RequestFacts
  <2>2. m \in MintInput /\ OneMint(m) /\ q.mint = {m}
    BY <1>1, MintFacts
  <2>3. Sent(q) # {} <=> /\ InRangeMint(m) /\ Enough(m.amount)
                         /\ CreateSolveArgsSigArgsMintGraph(m, q.eoa) # {}
    BY <1>1, SentMint, Zenon
  <2>4. GoodMint(m) <=> InRangeMint(m) /\ CreateSolveArgsSigArgsMintGraph(m, q.eoa) # {}
    BY <2>2, MintGraphGood DEF InRangeMint
  <2>5. GoodMint(m) => m.amount # {}
    BY DEF GoodMint
  <2>6. Accepted(q) <=> GoodMint(m) /\ \A n \in m.amount : n >= MinimumAmount
    BY <1>1, <2>2 DEF Accepted
  <2> QED BY <2>3, <2>4, <2>5, <2>6 DEF Enough
<1>2. CASE q.op = "create"
  <2>1. Accepted(q) <=> GoodAccount(q.account) /\ \A m \in q.mint : GoodMint(m)
    BY <1>2 DEF Accepted, GoodAccount
  <2>2. CASE q.mint = {}
    <3>1. \A e : e \in Sent(q) <=> GoodAccount(q.account) /\ e = Fresh(q.account)
      BY <1>2, <2>2, SentCreate
    <3> QED BY <2>1, <2>2, <3>1
  <2>3. CASE q.mint # {}
    <3>1. PICK m \in q.mint : TRUE
      BY <2>3
    <3>2. m \in MintInput /\ OneMint(m) /\ q.mint = {m} /\ q.op # "claim"
      BY <1>2, MintFacts
    <3>3. \A e : e \in Sent(q) <=>
            /\ GoodAccount(q.account) /\ InRangeMint(m)
            /\ \E x \in CreateSolveArgsSigArgsMintGraph(m, Plain(q.account.eoa)) :
                 e = [Fresh(q.account) EXCEPT !.solve_args = <<x>>]
      BY <1>2, <2>3, <3>2, SentCreate, Zenon
    <3>4. Sent(q) # {} <=> /\ GoodAccount(q.account) /\ InRangeMint(m)
                           /\ CreateSolveArgsSigArgsMintGraph(m, Plain(q.account.eoa)) # {}
      BY <3>3, Zenon
    <3>5. GoodMint(m) <=> /\ InRangeMint(m)
                          /\ CreateSolveArgsSigArgsMintGraph(m, Plain(q.account.eoa)) # {}
      BY <3>2, MintGraphGood DEF InRangeMint
    <3> QED BY <2>1, <3>2, <3>4, <3>5
  <2> QED BY <2>2, <2>3
<1>3. CASE q.op = "claim"
  <2>1. /\ q.markets \in Seq(Hex) /\ q.ms_ts \in SUBSET Int
    BY <1>3, RequestFacts DEF ClaimRequest
  <2>2. \A i \in DOMAIN q.markets : IsHexAddress(q.markets[i]) <=> GoodHex(q.markets[i])
    BY DEF IsHexAddress, GoodHex
  <2>3. ClaimMsTs(q.ms_ts) # {} <=>
          \E n \in q.ms_ts : Abs(n) >= Pow[Width - 1] /\ Abs(n) < Pow[Wide]
    <3>1. ASSUME NEW n \in q.ms_ts
          PROVE  claimMsTs(Abs(n)) # <<>> <=> Abs(n) >= Pow[Width - 1] /\ Abs(n) < Pow[Wide]
      <4>1. Abs(n) \in Nat
        BY <2>1, AbsFacts
      <4> QED BY <4>1, ClaimFacts
    <3>2. ClaimMsTs(q.ms_ts) # {} <=> \E n \in q.ms_ts : claimMsTs(Abs(n)) # <<>>
      BY Zenon DEF ClaimMsTs
    <3> QED BY <3>1, <3>2, Zenon
  <2>4. Sent(q) # {} <=> /\ \A i \in DOMAIN q.markets : IsHexAddress(q.markets[i])
                         /\ ClaimMsTs(q.ms_ts) # {}
    BY <1>3, SentClaim, Zenon
  <2>5. Accepted(q) <=>
          /\ \A i \in DOMAIN q.markets : GoodHex(q.markets[i])
          /\ \E n \in q.ms_ts : Abs(n) >= Pow[Width - 1] /\ Abs(n) < Pow[Wide]
    BY <1>3 DEF Accepted
  <2> QED BY <2>2, <2>3, <2>4, <2>5, Zenon
<1> QED
  BY <1>1, <1>2, <1>3, RequestFacts

\* The solves of the three kinds of envelopes.
LEMMA SolvesV2 ==
  ASSUME NEW f, NEW o, NEW t
  PROVE  Solves(CreateSolveV2(f, o, t)) = {[args |-> f, permit_owner |-> o, transfer_owner |-> t]}
<1>1. PICK e : e = CreateSolveV2(f, o, t)
  OBVIOUS
<1>2. e.enum = "SolveV2" /\ e.args = <<f>> /\ e.permit_owner = o /\ e.transfer_owner = t
  BY <1>1 DEF CreateSolveV2
<1>3. {e.args[i] : i \in DOMAIN e.args} = {f}
  BY <1>2
<1> QED
  BY <1>1, <1>2, <1>3 DEF Solves

LEMMA SolvesFresh ==
  ASSUME NEW c
  PROVE  Solves(Fresh(c)) = {}
<1>1. PICK e : e = Fresh(c)
  OBVIOUS
<1>2. e.enum = "FreshBackwards" /\ e.solve_args = <<>>
  BY <1>1 DEF Fresh, CreateAccountToFreshBackwards
<1>3. {e.solve_args[i] : i \in DOMAIN e.solve_args} = {}
  BY <1>2
<1> QED
  BY <1>1, <1>2, <1>3 DEF Solves

LEMMA SolvesTagged ==
  ASSUME NEW c, NEW x
  PROVE  Solves([Fresh(c) EXCEPT !.solve_args = <<x>>]) =
           {[args |-> x, permit_owner |-> Plain(c.eoa), transfer_owner |-> Plain(c.eoa)]}
<1>1. PICK e : e = [Fresh(c) EXCEPT !.solve_args = <<x>>]
  OBVIOUS
<1>2. e.enum = "FreshBackwards" /\ e.solve_args = <<x>> /\ e.eoa_addr = Plain(c.eoa)
  BY <1>1 DEF Fresh, CreateAccountToFreshBackwards
<1>3. {e.solve_args[i] : i \in DOMAIN e.solve_args} = {x}
  BY <1>2
<1> QED
  BY <1>1, <1>2, <1>3 DEF Solves

LEMMA SignedIsMint ==
  ASSUME NEW m \in MintInput, OneMint(m), NEW who, NEW x, SignedFor(x, m, who)
  PROVE  IsMint(x, m, who)
<1>1. PICK n \in Int, k \in Int, p \in Permits(m.permit) :
        /\ m.amount = {n} /\ m.ms_ts = {k} /\ Value(amount(Abs(n))) = Abs(n)
        /\ x = MintArgs(m, n, k, p, who)
  BY DEF SignedFor
<1>2. /\ x.target = Address(m.market) /\ x.permit = p
      /\ x.from = <<[asset |-> Usdc, to_take |-> amount(Abs(n)), max_unspent |-> 0]>>
      /\ x.cd = <<"mint8A059B6E", [front |-> Plain(m.outcome), back |-> "zero"], Abs(n),
                  [front |-> "zero", back |-> Address(m.referrer)], [front |-> "zero", back |-> who]>>
  BY <1>1 DEF MintArgs
<1>3. Len(x.from) = 1 /\ x.from[1].asset = Usdc /\ x.from[1].to_take = amount(Abs(n))
  BY <1>2
<1>4. Value(x.from[1].to_take) = Abs(n)
  BY <1>1, <1>3
<1>5. Value(x.from[1].to_take) \in {Abs(j) : j \in m.amount}
  BY <1>1, <1>4
<1>6. m.permit \in SUBSET PermitInput /\ Optional(m.permit)
  BY DEF MintInput, OneMint
<1>7. /\ Len(x.permit) = Cardinality(m.permit)
      /\ \A y \in m.permit : x.permit[1].deadline = y.deadline /\ x.permit[1].v = y.v
                            /\ x.permit[1].r = Plain(y.r) /\ x.permit[1].s = Plain(y.s)
  <2>1. CASE m.permit = {} /\ p = <<>>
    <3>1. Cardinality(m.permit) = 0
      BY <2>1, FS_EmptySet
    <3> QED BY <1>2, <2>1, <3>1
  <2>2. ASSUME NEW y \in PermitInput, m.permit = {y}, p = <<PermitArgs(y)>>
        PROVE  /\ Len(x.permit) = Cardinality(m.permit)
               /\ x.permit[1].deadline = y.deadline /\ x.permit[1].v = y.v
               /\ x.permit[1].r = Plain(y.r) /\ x.permit[1].s = Plain(y.s)
    <3>1. Cardinality(m.permit) = 1
      BY <2>2, FS_Singleton
    <3>2. Len(x.permit) = 1 /\ x.permit[1] = PermitArgs(y)
      BY <1>2, <2>2
    <3> QED BY <3>1, <3>2 DEF PermitArgs
  <2>3. (m.permit = {} /\ p = <<>>) \/ \E y \in PermitInput : m.permit = {y} /\ p = <<PermitArgs(y)>>
    BY <1>6, PermitSigned
  <2> QED BY <2>1, <2>2, <2>3
<1> QED
  BY <1>2, <1>3, <1>4, <1>5, <1>7 DEF IsMint

\* The solves that are sent for a creation or a mint.
LEMMA SentSolves ==
  ASSUME NEW q \in Request, q.op # "claim", NEW e \in Sent(q)
  PROVE  \/ q.mint = {} /\ Solves(e) = {}
         \/ \E m \in q.mint : \E x :
              /\ SignedFor(x, m, Requester(q))
              /\ Solves(e) = {[args |-> x, permit_owner |-> Requester(q),
                               transfer_owner |-> Requester(q)]}
<1>1. CASE q.op = "mint"
  <2>1. PICK m \in q.mint : TRUE
    BY <1>1, RequestFacts
  <2>2. m \in MintInput /\ OneMint(m)
    BY MintFacts
  <2>3. PICK f \in CreateSolveArgsSigArgsMintGraph(m, q.eoa) : e = CreateSolveV2(f, q.eoa, q.eoa)
    BY <1>1, SentMint
  <2>4. SignedFor(f, m, q.eoa)
    BY <2>2, MintGraphSigned
  <2>5. Requester(q) = q.eoa
    BY <1>1 DEF Requester
  <2>6. Solves(e) = {[args |-> f, permit_owner |-> q.eoa, transfer_owner |-> q.eoa]}
    BY <2>3, SolvesV2
  <2>7. /\ SignedFor(f, m, Requester(q))
        /\ Solves(e) = {[args |-> f, permit_owner |-> Requester(q), transfer_owner |-> Requester(q)]}
    BY <2>4, <2>5, <2>6
  <2> QED BY <2>7, Zenon
<1>2. CASE q.op = "create"
  <2>1. Requester(q) = Plain(q.account.eoa)
    BY <1>2 DEF Requester
  <2>2. CASE q.mint = {} /\ e = Fresh(q.account)
    BY <2>2, SolvesFresh
  <2>3. ASSUME NEW m \in q.mint,
               NEW x \in CreateSolveArgsSigArgsMintGraph(m, Plain(q.account.eoa)),
               e = [Fresh(q.account) EXCEPT !.solve_args = <<x>>]
        PROVE  \E n \in q.mint : \E y :
                  /\ SignedFor(y, n, Requester(q))
                  /\ Solves(e) = {[args |-> y, permit_owner |-> Requester(q),
                                   transfer_owner |-> Requester(q)]}
    <3>1. m \in MintInput /\ OneMint(m)
      BY MintFacts
    <3>2. SignedFor(x, m, Plain(q.account.eoa))
      BY <3>1, MintGraphSigned
    <3> QED BY <2>1, <2>3, <3>2, SolvesTagged, Zenon
  <2>4. \/ q.mint = {} /\ e = Fresh(q.account)
        \/ \E m \in q.mint : \E x \in CreateSolveArgsSigArgsMintGraph(m, Plain(q.account.eoa)) :
             e = [Fresh(q.account) EXCEPT !.solve_args = <<x>>]
    BY <1>2, SentCreate
  <2> QED BY <2>2, <2>3, <2>4, Zenon
<1> QED
  BY <1>1, <1>2, RequestFacts

\* The fields of the envelope of a creation.
LEMMA CreationFields ==
  ASSUME NEW q \in Request, q.op = "create", NEW e \in Sent(q)
  PROVE  /\ e.enum = "FreshBackwards" /\ e.key = AccPubKey
         /\ e.eoa_addr = Plain(q.account.eoa) /\ e.v = q.account.v
         /\ e.authority = {Address(h) : h \in q.account.authority}
<1>1. PICK c : c = q.account
  OBVIOUS
<1>2. e = Fresh(c) \/ \E x : e = [Fresh(c) EXCEPT !.solve_args = <<x>>]
  BY <1>1, SentCreate, Zenon
<1>3. /\ Fresh(c).enum = "FreshBackwards" /\ Fresh(c).key = AccPubKey
      /\ Fresh(c).eoa_addr = Plain(c.eoa) /\ Fresh(c).v = c.v
      /\ Fresh(c).authority = {Address(h) : h \in c.authority}
  BY DEF Fresh, CreateAccountToFreshBackwards
<1>4. ASSUME NEW x, e = [Fresh(c) EXCEPT !.solve_args = <<x>>]
      PROVE  /\ e.enum = Fresh(c).enum /\ e.key = Fresh(c).key /\ e.eoa_addr = Fresh(c).eoa_addr
             /\ e.v = Fresh(c).v /\ e.authority = Fresh(c).authority
  BY <1>4 DEF Fresh, CreateAccountToFreshBackwards
<1> QED
  BY <1>1, <1>2, <1>3, <1>4

\* The solve of a claim.
LEMMA ClaimArgs ==
  ASSUME NEW q \in Request, q.op = "claim", NEW e \in Sent(q)
  PROVE  \E f : /\ e = CreateSolveV2(f, q.eoa, q.eoa)
                /\ f.from = <<>> /\ f.permit = <<>> /\ f.target = ClaimantHelperAddr
                /\ f.cd = <<"payoffForOther", [i \in DOMAIN q.markets |-> Plain(q.markets[i])], q.eoa>>
<1>1. PICK ms \in ClaimMsTs(q.ms_ts) :
        e = CreateSolveV2(CreatePayoffForOtherArgs([i \in DOMAIN q.markets |-> Plain(q.markets[i])],
                                                   q.eoa, ms), q.eoa, q.eoa)
  BY SentClaim
<1>2. PICK g : g = [i \in DOMAIN q.markets |-> Plain(q.markets[i])]
  OBVIOUS
<1>3. PICK f : f = CreatePayoffForOtherArgs(g, q.eoa, ms)
  OBVIOUS
<1>4. /\ f.from = <<>> /\ f.permit = <<>> /\ f.target = ClaimantHelperAddr
      /\ f.cd = <<"payoffForOther", g, q.eoa>>
  BY <1>3 DEF CreatePayoffForOtherArgs, NewPayoffForOther
<1> QED
  BY <1>1, <1>2, <1>3, <1>4, Zenon

\* What SignedAsAsked says of the request q.
AsAsked(q) ==
  \A e \in Sent(q) :
    LET who == Requester(q)
    IN  /\ \A x \in Solves(e) :
             /\ x.permit_owner = who /\ x.transfer_owner = who
             /\ IF q.op = "claim"
                THEN /\ x.args.from = <<>> /\ x.args.permit = <<>>
                     /\ x.args.target = ClaimantHelperAddr
                     /\ x.args.cd = <<"payoffForOther",
                                      [i \in DOMAIN q.markets |-> Plain(q.markets[i])], who>>
                ELSE \E m \in q.mint : IsMint(x.args, m, who)
        /\ Cardinality(Solves(e)) = IF q.op = "claim" THEN 1 ELSE Cardinality(q.mint)
        /\ q.op = "create" =>
             /\ e.key = AccPubKey /\ e.eoa_addr = who /\ e.v = q.account.v
             /\ e.authority = {Address(h) : h \in q.account.authority}

LEMMA SentAsAsked ==
  ASSUME NEW q \in Request
  PROVE  AsAsked(q)
<1> SUFFICES ASSUME NEW e \in Sent(q)
             PROVE  /\ \A x \in Solves(e) :
                         /\ x.permit_owner = Requester(q) /\ x.transfer_owner = Requester(q)
                         /\ IF q.op = "claim"
                            THEN /\ x.args.from = <<>> /\ x.args.permit = <<>>
                                 /\ x.args.target = ClaimantHelperAddr
                                 /\ x.args.cd = <<"payoffForOther",
                                                  [i \in DOMAIN q.markets |-> Plain(q.markets[i])],
                                                  Requester(q)>>
                            ELSE \E m \in q.mint : IsMint(x.args, m, Requester(q))
                    /\ Cardinality(Solves(e)) = IF q.op = "claim" THEN 1 ELSE Cardinality(q.mint)
                    /\ q.op = "create" =>
                         /\ e.key = AccPubKey /\ e.eoa_addr = Requester(q) /\ e.v = q.account.v
                         /\ e.authority = {Address(h) : h \in q.account.authority}
  BY Zenon DEF AsAsked
<1>1. CASE q.op = "claim"
  <2>1. PICK f : /\ e = CreateSolveV2(f, q.eoa, q.eoa)
                 /\ f.from = <<>> /\ f.permit = <<>> /\ f.target = ClaimantHelperAddr
                 /\ f.cd = <<"payoffForOther", [i \in DOMAIN q.markets |-> Plain(q.markets[i])], q.eoa>>
    BY <1>1, ClaimArgs, Zenon
  <2>2. Requester(q) = q.eoa
    BY <1>1 DEF Requester
  <2>3. PICK s : s = [args |-> f, permit_owner |-> q.eoa, transfer_owner |-> q.eoa]
    OBVIOUS
  <2>4. Solves(e) = {s} /\ s.args = f /\ s.permit_owner = q.eoa /\ s.transfer_owner = q.eoa
    BY <2>1, <2>3, SolvesV2
  <2>5. Cardinality(Solves(e)) = 1
    BY <2>4, FS_Singleton
  <2> QED BY <1>1, <2>1, <2>2, <2>4, <2>5, Zenon
<1>2. CASE q.op # "claim"
  <2>1. q.op = "create" =>
          /\ e.key = AccPubKey /\ e.eoa_addr = Requester(q) /\ e.v = q.account.v
          /\ e.authority = {Address(h) : h \in q.account.authority}
    BY CreationFields DEF Requester
  <2>2. CASE q.mint = {} /\ Solves(e) = {}
    BY <1>2, <2>1, <2>2
  <2>3. ASSUME NEW m \in q.mint, NEW x, SignedFor(x, m, Requester(q)),
               Solves(e) = {[args |-> x, permit_owner |-> Requester(q),
                             transfer_owner |-> Requester(q)]}
        PROVE  /\ \A y \in Solves(e) : /\ y.permit_owner = Requester(q)
                                       /\ y.transfer_owner = Requester(q)
                                       /\ \E n \in q.mint : IsMint(y.args, n, Requester(q))
               /\ Cardinality(Solves(e)) = Cardinality(q.mint)
    <3>1. m \in MintInput /\ OneMint(m) /\ q.mint = {m}
      BY <1>2, MintFacts
    <3>2. IsMint(x, m, Requester(q))
      BY <2>3, <3>1, SignedIsMint
    <3>a. PICK w : w = Requester(q)
      OBVIOUS
    <3>b. PICK s : s = [args |-> x, permit_owner |-> w, transfer_owner |-> w]
      OBVIOUS
    <3>3. s.args = x /\ s.permit_owner = Requester(q) /\ s.transfer_owner = Requester(q)
      BY <3>a, <3>b
    <3>4. Solves(e) = {s}
      BY <2>3, <3>a, <3>b, Zenon
    <3>5. Cardinality(Solves(e)) = 1 /\ Cardinality(q.mint) = 1
      BY <3>1, <3>4, FS_Singleton
    <3> QED BY <3>2, <3>3, <3>4, <3>5
  <2> QED BY <1>2, <2>1, <2>2, <2>3, SentSolves, Zenon
<1> QED
  BY <1>1, <1>2

\* What was asked for, read out of an envelope.
ReadPermits(p) ==
  {[deadline |-> p[i].deadline, v |-> p[i].v, r |-> p[i].r, s |-> p[i].s] : i \in DOMAIN p}

ReadMint(x) == <<x.target, x.cd[2].front, {x.cd[3]}, x.cd[4].back, ReadPermits(x.permit)>>

ReadMints(e) == {ReadMint(s.args) : s \in Solves(e)}

Read(e) ==
  IF e.enum # "SolveV2" THEN <<"create", ReadMints(e), e.eoa_addr, e.authority>>
  ELSE IF e.args[1].cd[1] = "payoffForOther" THEN <<"claim", e.args[1].cd[2], e.args[1].cd[3]>>
  ELSE <<"mint", ReadMints(e), e.transfer_owner>>

\* The parts of Normal.
NormalPermits(o) ==
  {[deadline |-> p.deadline, v |-> p.v, r |-> Plain(p.r), s |-> Plain(p.s)] : p \in o}

NormalMint(m) ==
  <<Address(m.market), Plain(m.outcome), {Abs(n) : n \in m.amount}, Address(m.referrer),
    NormalPermits(m.permit)>>

NormalMints(q) == {NormalMint(m) : m \in q.mint}

LEMMA PermitRead ==
  ASSUME NEW o \in SUBSET PermitInput, Optional(o), NEW p \in Permits(o)
  PROVE  ReadPermits(p) = NormalPermits(o)
<1>1. CASE o = {} /\ p = <<>>
  <2>1. DOMAIN p = {}
    BY <1>1
  <2> QED BY <1>1, <2>1 DEF ReadPermits, NormalPermits
<1>2. ASSUME NEW y \in PermitInput, o = {y}, p = <<PermitArgs(y)>>
      PROVE  ReadPermits(p) = NormalPermits(o)
  <2>1. DOMAIN p = {1} /\ p[1] = PermitArgs(y)
    BY <1>2
  <2>2. /\ PermitArgs(y).deadline = y.deadline /\ PermitArgs(y).v = y.v
        /\ PermitArgs(y).r = Plain(y.r) /\ PermitArgs(y).s = Plain(y.s)
    BY DEF PermitArgs
  <2>3. ReadPermits(p) = {[deadline |-> y.deadline, v |-> y.v, r |-> Plain(y.r), s |-> Plain(y.s)]}
    <3>1. ReadPermits(p) = {[deadline |-> p[1].deadline, v |-> p[1].v, r |-> p[1].r, s |-> p[1].s]}
      BY <2>1, Zenon DEF ReadPermits
    <3> QED BY <2>1, <2>2, <3>1, Zenon
  <2>4. NormalPermits(o) = {[deadline |-> y.deadline, v |-> y.v, r |-> Plain(y.r), s |-> Plain(y.s)]}
    BY <1>2, Zenon DEF NormalPermits
  <2> QED BY <2>3, <2>4, Zenon
<1> QED
  BY <1>1, <1>2, PermitSigned, Zenon

LEMMA SignedRead ==
  ASSUME NEW m \in MintInput, OneMint(m), NEW who, NEW x, SignedFor(x, m, who)
  PROVE  ReadMint(x) = NormalMint(m) /\ x.cd[1] # "payoffForOther"
<1>1. PICK n \in Int, k \in Int, p \in Permits(m.permit) :
        m.amount = {n} /\ x = MintArgs(m, n, k, p, who)
  BY DEF SignedFor
<1>2. /\ x.target = Address(m.market) /\ x.permit = p
      /\ x.cd = <<"mint8A059B6E", [front |-> Plain(m.outcome), back |-> "zero"], Abs(n),
                  [front |-> "zero", back |-> Address(m.referrer)], [front |-> "zero", back |-> who]>>
  BY <1>1 DEF MintArgs
<1>3. /\ x.cd[1] = "mint8A059B6E" /\ x.cd[2].front = Plain(m.outcome) /\ x.cd[3] = Abs(n)
      /\ x.cd[4].back = Address(m.referrer)
  BY <1>2
<1>4. {Abs(j) : j \in m.amount} = {Abs(n)}
  BY <1>1, Zenon
<1>5. ReadPermits(p) = NormalPermits(m.permit)
  BY PermitRead DEF MintInput, OneMint
<1>6. ReadMint(x) = NormalMint(m)
  BY <1>2, <1>3, <1>4, <1>5, Zenon DEF ReadMint, NormalMint
<1> QED
  BY <1>3, <1>6

LEMMA MintsRead ==
  ASSUME NEW q \in Request, q.op # "claim", NEW e \in Sent(q)
  PROVE  ReadMints(e) = NormalMints(q)
<1>1. CASE q.mint = {} /\ Solves(e) = {}
  BY <1>1 DEF ReadMints, NormalMints
<1>2. ASSUME NEW m \in q.mint, NEW x, SignedFor(x, m, Requester(q)),
             Solves(e) = {[args |-> x, permit_owner |-> Requester(q),
                           transfer_owner |-> Requester(q)]}
      PROVE  ReadMints(e) = NormalMints(q)
  <2>1. m \in MintInput /\ OneMint(m) /\ q.mint = {m}
    BY MintFacts
  <2>2. ReadMint(x) = NormalMint(m)
    BY <1>2, <2>1, SignedRead
  <2>3. PICK s : s = [args |-> x, permit_owner |-> Requester(q), transfer_owner |-> Requester(q)]
    OBVIOUS
  <2>4. Solves(e) = {s} /\ s.args = x
    BY <1>2, <2>3
  <2>5. ReadMints(e) = {ReadMint(x)}
    BY <2>4, Zenon DEF ReadMints
  <2>6. NormalMints(q) = {NormalMint(m)}
    BY <2>1, Zenon DEF NormalMints
  <2> QED BY <2>2, <2>5, <2>6
<1> QED
  BY <1>1, <1>2, SentSolves, Zenon

\* The envelope determines what was asked for.
LEMMA NormalRead ==
  ASSUME NEW q \in Request, NEW e \in Sent(q)
  PROVE  Normal(q) = Read(e)
<1>1. CASE q.op = "claim"
  <2>1. PICK f : /\ e = CreateSolveV2(f, q.eoa, q.eoa)
                 /\ f.cd = <<"payoffForOther", [i \in DOMAIN q.markets |-> Plain(q.markets[i])], q.eoa>>
    BY <1>1, ClaimArgs, Zenon
  <2>2. PICK g : g = [i \in DOMAIN q.markets |-> Plain(q.markets[i])]
    OBVIOUS
  <2>3. f.cd = <<"payoffForOther", g, q.eoa>>
    BY <2>1, <2>2, Zenon
  <2>4. f.cd[1] = "payoffForOther" /\ f.cd[2] = g /\ f.cd[3] = q.eoa
    BY <2>3
  <2>5. e.enum = "SolveV2" /\ e.args[1] = f
    BY <2>1 DEF CreateSolveV2
  <2>6. Read(e) = <<"claim", g, q.eoa>>
    BY <2>4, <2>5 DEF Read
  <2>7. Normal(q) = <<"claim", g, q.eoa>>
    BY <1>1, <2>2, Zenon DEF Normal
  <2> QED BY <2>6, <2>7
<1>2. CASE q.op = "mint"
  <2>1. ReadMints(e) = NormalMints(q)
    BY <1>2, MintsRead
  <2>2. PICK m \in q.mint : TRUE
    BY <1>2, RequestFacts
  <2>3. PICK f \in CreateSolveArgsSigArgsMintGraph(m, q.eoa) : e = CreateSolveV2(f, q.eoa, q.eoa)
    BY <1>2, SentMint
  <2>4. m \in MintInput /\ OneMint(m)
    BY <1>2, MintFacts
  <2>5. f.cd[1] # "payoffForOther"
    BY <2>4, MintGraphSigned, SignedRead
  <2>6. e.enum = "SolveV2" /\ e.args[1] = f /\ e.transfer_owner = q.eoa
    BY <2>3 DEF CreateSolveV2
  <2>7. Read(e) = <<"mint", NormalMints(q), q.eoa>>
    BY <2>1, <2>5, <2>6, Zenon DEF Read
  <2>8. q.op # "claim"
    BY <1>2
  <2>9. Normal(q) = <<"mint", NormalMints(q), q.eoa>>
    BY <1>2, <2>8, Zenon DEF Normal, NormalMints, NormalMint, NormalPermits
  <2> QED BY <2>7, <2>9
<1>3. CASE q.op = "create"
  <2>1. ReadMints(e) = NormalMints(q)
    BY <1>3, MintsRead
  <2>2. /\ e.enum = "FreshBackwards" /\ e.eoa_addr = Plain(q.account.eoa)
        /\ e.authority = {Address(h) : h \in q.account.authority}
    BY <1>3, CreationFields
  <2>3. Read(e) = <<"create", NormalMints(q), Plain(q.account.eoa), {Address(h) : h \in q.account.authority}>>
    <3>1. e.enum # "SolveV2"
      BY <2>2
    <3> QED BY <2>1, <2>2, <3>1, Zenon DEF Read
  <2>4. q.op # "claim" /\ q.op # "mint"
    BY <1>3
  <2>5. Normal(q) = <<"create", NormalMints(q), Plain(q.account.eoa), {Address(h) : h \in q.account.authority}>>
    BY <1>3, <2>4, Zenon DEF Normal, NormalMints, NormalMint, NormalPermits
  <2> QED BY <2>3, <2>5
<1> QED
  BY <1>1, <1>2, <1>3, RequestFacts

\* The ms_ts of what is signed is made from the request's.
LEMMA ClockSigned ==
  ASSUME NEW q \in Request, NEW e \in Sent(q), NEW t \in Clock(q), NEW s \in Solves(e)
  PROVE  t \in Nat /\ Len(Bytes[t]) <= Width /\ s.args.ms_ts = mintMsTs(t)
<1>1. q.op # "claim"
  BY DEF Clock
<1>2. PICK k \in UNION {m.ms_ts : m \in q.mint} : t = Abs(k) /\ Len(Bytes[t]) <= Width
  BY <1>1 DEF Clock
<1>3. PICK m \in q.mint : k \in m.ms_ts
  BY <1>2
<1>4. m \in MintInput /\ OneMint(m) /\ q.mint = {m}
  BY <1>1, MintFacts
<1>5. k \in Int /\ Optional(m.ms_ts)
  BY <1>3, <1>4 DEF MintInput, OneMint
<1>6. m.ms_ts = {k}
  BY <1>3, <1>5, OptionalOne
<1>7. PICK x : /\ SignedFor(x, m, Requester(q))
               /\ s = [args |-> x, permit_owner |-> Requester(q), transfer_owner |-> Requester(q)]
  <2>1. PICK n \in q.mint :
          \E x : /\ SignedFor(x, n, Requester(q))
                 /\ Solves(e) = {[args |-> x, permit_owner |-> Requester(q),
                                  transfer_owner |-> Requester(q)]}
    <3>1. Solves(e) # {}
      OBVIOUS
    <3> QED BY <1>1, <3>1, SentSolves, Zenon
  <2>2. n = m
    BY <1>4
  <2> QED BY <2>1, <2>2, Zenon
<1>8. PICK n \in Int, j \in Int, p \in Permits(m.permit) :
        m.ms_ts = {j} /\ x = MintArgs(m, n, j, p, Requester(q))
  BY <1>7 DEF SignedFor
<1>9. j = k
  BY <1>6, <1>8
<1>10. s.args = x /\ x.ms_ts = mintMsTs(Abs(j))
  BY <1>7, <1>8 DEF MintArgs
<1> QED
  BY <1>2, <1>5, <1>9, <1>10, AbsFacts

-----------------------------------------------------------------------------
(* The theorems.                                                           *)

\* Only the server's input types reach the convertor.
Typed == now \in Request /\ last \in Request

LEMMA Typing == Spec => []Typed
<1>1. Init => Typed
  BY DEF Init, Typed
<1>2. Typed /\ [Next]_vars => Typed'
  BY DEF Typed, Next, Receive, vars
<1> QED
  BY <1>1, <1>2, PTL DEF Spec

\* SignedAsAsked: what the convertor makes of a creation, a mint or a claim
\* is what was asked, for every base and width of the arrays and whatever the
\* arguments are. The amount is the one that the contract reads from 32 bytes.
THEOREM AsAskedSigned == Spec => []SignedAsAsked
<1>1. Typed => SignedAsAsked
  <2> SUFFICES ASSUME Typed PROVE SignedAsAsked
    OBVIOUS
  <2>1. AsAsked(now)
    BY SentAsAsked DEF Typed
  <2> QED BY <2>1, Zenon DEF AsAsked, SignedAsAsked
<1> QED
  BY <1>1, Typing, PTL

\* RefusedIfMalformed: the resolvers sign exactly the requests all of whose
\* arguments are within their bounds.
THEOREM MalformedRefused == Spec => []RefusedIfMalformed
<1>1. Typed => RefusedIfMalformed
  BY SentAccepted DEF Typed, RefusedIfMalformed
<1> QED
  BY <1>1, Typing, PTL

\* SignatureBinds: the envelope that is signed determines what was asked.
THEOREM BindingSignature == Spec => []SignatureBinds
<1>1. Typed => SignatureBinds
  <2> SUFFICES ASSUME Typed, Sent(now) \cap Sent(last) # {} PROVE Normal(now) = Normal(last)
    BY DEF SignatureBinds
  <2>1. PICK e : e \in Sent(now) /\ e \in Sent(last)
    OBVIOUS
  <2>2. Normal(now) = Read(e) /\ Normal(last) = Read(e)
    BY <2>1, NormalRead DEF Typed
  <2> QED BY <2>2
<1> QED
  BY <1>1, Typing, PTL

\* MintsDoNotClash: two mints at different times of equally many bytes have
\* different single-use values.
THEOREM MintsApart == Spec => []MintsDoNotClash
<1>1. Typed => MintsDoNotClash
  <2> SUFFICES ASSUME Typed, NEW e \in Sent(now), NEW f \in Sent(last),
                      NEW m \in Clock(now), NEW n \in Clock(last),
                      Len(Bytes[m]) = Len(Bytes[n]), m # n,
                      NEW x \in Solves(e), NEW y \in Solves(f), x.args.ms_ts = y.args.ms_ts
               PROVE  FALSE
    BY DEF MintsDoNotClash
  <2>1. m \in Nat /\ Len(Bytes[m]) <= Width /\ x.args.ms_ts = mintMsTs(m)
    BY ClockSigned DEF Typed
  <2>2. n \in Nat /\ y.args.ms_ts = mintMsTs(n)
    BY ClockSigned DEF Typed
  <2>3. mintMsTs(m) = mintMsTs(n)
    BY <2>1, <2>2
  <2> QED BY <2>1, <2>2, <2>3, MintMsTsInjective
<1> QED
  BY <1>1, Typing, PTL
=============================================================================
