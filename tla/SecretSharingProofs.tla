------------------------ MODULE SecretSharingProofs ------------------------
(***************************************************************************)
(* What the arithmetic of SecretSharing computes, in any prime field.      *)
(*                                                                         *)
(* The loops and folds are recursive, and so are the proofs.  As the       *)
(* library's induction theorems have an operator as parameter, which the   *)
(* provers cannot instantiate, induction is here a fact about a set: if it *)
(* did not hold all, a minimal element that it misses (WFMin) would        *)
(* contradict the induction step.                                          *)
(***************************************************************************)
EXTENDS SecretSharing, FiniteSetTheorems, SequenceTheorems, WellFoundedInduction, TLAPS

\* Every nonempty set of natural numbers has a least element: < is well-founded on them.
LEMMA Least == ASSUME NEW S, S \subseteq Nat, S # {} PROVE \E m \in S : \A k \in S : m <= k
  <1>1. ASSUME NEW R, \A x, y \in Nat : x < y => <<x, y>> \in R
        PROVE  \A x, y \in S : <<y, x>> \in R \/ x <= y
    BY <1>1
  <1>2. \A x, y \in Nat : x < y => <<x, y>> \in OpToRel(<, Nat)  BY DEF OpToRel
  <1>3. PICK x \in S : \A y \in S : <<y, x>> \notin OpToRel(<, Nat)
    BY NatLessThanWellFounded, WFMin
  <1>4. \A u, v \in S : <<v, u>> \in OpToRel(<, Nat) \/ u <= v  BY <1>1, <1>2
  <1>5. QED  BY <1>3, <1>4, Zenon

\* Induction over the natural numbers, as a fact about a set of them.
LEMMA NatInduct ==
  ASSUME NEW S, S \subseteq Nat, 0 \in S, \A n \in S : n + 1 \in S
  PROVE  S = Nat
  <1>1. SUFFICES ASSUME Nat \ S # {} PROVE FALSE
    OBVIOUS
  <1>2. PICK m \in Nat \ S : \A k \in Nat \ S : m <= k
    BY <1>1, Least
  <1>3. m # 0 /\ m - 1 \in Nat /\ m - 1 \in S
    BY <1>2
  <1>4. QED  BY <1>2, <1>3

\* Induction over the parts of a finite set, as a fact about a set P of them.
LEMMA SetInduct ==
  ASSUME NEW D, IsFiniteSet(D), NEW P, {} \in P,
         \A A \in SUBSET D, y \in D : A \in P /\ y \notin A => A \cup {y} \in P
  PROVE  D \in P
  <1> DEFINE Bad == (SUBSET D) \ P
  <1>1. SUFFICES ASSUME Bad # {} PROVE FALSE
    OBVIOUS
  <1>2. IsWellFoundedOn(StrictSubsetOrdering(D), SUBSET D)
    BY FS_FiniteSubsetsOfFinite, FS_StrictSubsetOrderingWellFounded
  <1>3. PICK A \in Bad : \A B \in Bad : <<B, A>> \notin StrictSubsetOrdering(D)
    <2>1. Bad \subseteq SUBSET D  OBVIOUS
    <2> HIDE DEF Bad
    <2>2. QED  BY <1>1, <1>2, <2>1, WFMin
  <1>4. PICK y \in A : TRUE  BY <1>3
  <1>5. A \ {y} \in P /\ A \ {y} \in SUBSET D
    <2>1. A \in SUBSET D /\ A \ {y} \in SUBSET D  BY <1>3
    <2>2. A \ {y} # A /\ A \ {y} \subseteq A  BY <1>4
    <2>3. <<A \ {y}, A>> \in StrictSubsetOrdering(D)
      BY <2>1, <2>2 DEF StrictSubsetOrdering
    <2>4. QED  BY <1>3, <2>1, <2>3
  <1>6. (A \ {y}) \cup {y} = A /\ y \notin A \ {y}  BY <1>4
  <1>7. QED  BY <1>3, <1>4, <1>5, <1>6

-----------------------------------------------------------------------------
(***************************************************************************)
(* Arithmetic modulo Q.                                                    *)
(***************************************************************************)
\* A remainder is a scalar.
LEMMA ModRange ==
  ASSUME NEW x \in Int
  PROVE  x % Q \in Scalar /\ x % Q \in Nat /\ (x \div Q) \in Int /\ x = Q * (x \div Q) + (x % Q)
  BY GroupAssumption DEF Scalar

\* A number has one remainder.
LEMMA ModUnique ==
  ASSUME NEW x \in Int, NEW k \in Int, NEW r \in Scalar, x = Q * k + r
  PROVE  x % Q = r
  BY GroupAssumption DEF Scalar

\* Numbers that differ by a multiple of Q have the same remainder.
LEMMA ModSame ==
  ASSUME NEW x \in Int, NEW y \in Int, NEW k \in Int, x = y + Q * k
  PROVE  x % Q = y % Q
  <1> DEFINE q == y \div Q
             r == y % Q
  <1>1. q \in Int /\ r \in Scalar /\ r \in Int /\ y = Q * q + r  BY ModRange
  <1> HIDE DEF q, r
  <1>2. x = Q * (q + k) + r  BY <1>1, GroupAssumption
  <1>3. QED  BY <1>1, <1>2, ModUnique DEF r

\* A scalar is its own remainder.
LEMMA ScalarMod ==
  ASSUME NEW x \in Scalar
  PROVE  x % Q = x /\ x \in Nat
  BY GroupAssumption DEF Scalar

\* What is added may be reduced before.
LEMMA ModPlus ==
  ASSUME NEW x \in Int, NEW y \in Int
  PROVE  ((x % Q) + y) % Q = (x + y) % Q
  <1> DEFINE q == x \div Q
             r == x % Q
  <1>1. q \in Int /\ r \in Int /\ x = Q * q + r  BY ModRange
  <1> HIDE DEF q, r
  <1>2. x + y = (r + y) + Q * q  BY <1>1, GroupAssumption
  <1>3. QED  BY <1>1, <1>2, ModSame DEF r

\* So may what is multiplied.
LEMMA ModTimes ==
  ASSUME NEW x \in Int, NEW y \in Int
  PROVE  ((x % Q) * y) % Q = (x * y) % Q
  <1> DEFINE q == x \div Q
             r == x % Q
  <1>1. q \in Int /\ r \in Int /\ x = Q * q + r  BY ModRange
  <1> HIDE DEF q, r
  <1>2. x * y = (Q * q + r) * y  BY <1>1
  <1>3. (Q * q + r) * y = r * y + Q * (q * y)  BY <1>1, GroupAssumption
  <1>4. QED  BY <1>1, <1>2, <1>3, ModSame DEF r

\* Sums and products are scalars, and do not depend on the order.
LEMMA PlusTimesType ==
  ASSUME NEW x \in Int, NEW y \in Int
  PROVE  /\ Plus(x, y) \in Scalar /\ Plus(x, y) \in Int /\ Plus(x, y) = Plus(y, x)
         /\ Times(x, y) \in Scalar /\ Times(x, y) \in Int /\ Times(x, y) = Times(y, x)
  <1>1. x + y \in Int /\ x * y \in Int /\ x + y = y + x /\ x * y = y * x  OBVIOUS
  <1>2. QED  BY <1>1, ModRange DEF Plus, Times

\* Addition is associative.
LEMMA PlusAssoc ==
  ASSUME NEW x \in Int, NEW y \in Int, NEW z \in Int
  PROVE  Plus(Plus(x, y), z) = Plus(x, Plus(y, z))
  <1>1. Plus(Plus(x, y), z) = ((x + y) + z) % Q
    BY ModPlus DEF Plus
  <1>2. Plus(x, Plus(y, z)) = (x + (y + z)) % Q
    <2>1. (x + ((y + z) % Q)) = (((y + z) % Q) + x)  BY ModRange
    <2>2. (x + (y + z)) = ((y + z) + x)  OBVIOUS
    <2>3. QED  BY <2>1, <2>2, ModPlus DEF Plus
  <1>3. QED  BY <1>1, <1>2

\* So is multiplication.
LEMMA TimesAssoc ==
  ASSUME NEW x \in Int, NEW y \in Int, NEW z \in Int
  PROVE  Times(Times(x, y), z) = Times(x, Times(y, z))
  <1>1. Times(Times(x, y), z) = ((x * y) * z) % Q
    BY ModTimes DEF Times
  <1>2. Times(x, Times(y, z)) = (x * (y * z)) % Q
    <2>1. (x * ((y * z) % Q)) = (((y * z) % Q) * x)  BY ModRange
    <2>2. (x * (y * z)) = ((y * z) * x)  OBVIOUS
    <2>3. QED  BY <2>1, <2>2, ModTimes DEF Times
  <1>3. (x * y) * z = x * (y * z)  OBVIOUS
  <1>4. QED  BY <1>1, <1>2, <1>3

\* Multiplication distributes over addition.
LEMMA Distributes ==
  ASSUME NEW x \in Int, NEW y \in Int, NEW z \in Int
  PROVE  Times(x, Plus(y, z)) = Plus(Times(x, y), Times(x, z))
  <1>1. Times(x, Plus(y, z)) = (x * (y + z)) % Q
    <2>1. (x * ((y + z) % Q)) = (((y + z) % Q) * x)  BY ModRange
    <2>2. (x * (y + z)) = ((y + z) * x)  OBVIOUS
    <2>3. QED  BY <2>1, <2>2, ModTimes DEF Times, Plus
  <1>2. Plus(Times(x, y), Times(x, z)) = (x * y + x * z) % Q
    <2> DEFINE a == x * y
               b == x * z
    <2>1. a \in Int /\ b \in Int  OBVIOUS
    <2> HIDE DEF a, b
    <2>2. ((a % Q) + (b % Q)) % Q = (a + (b % Q)) % Q  BY <2>1, ModPlus, ModRange
    <2>3. a + (b % Q) = (b % Q) + a /\ a + b = b + a  BY <2>1, ModRange
    <2>4. QED  BY <2>1, <2>2, <2>3, ModPlus DEF Times, Plus, a, b
  <1>3. x * (y + z) = x * y + x * z  OBVIOUS
  <1>4. QED  BY <1>1, <1>2, <1>3

\* Factors change places.
LEMMA TimesSwap ==
  ASSUME NEW x \in Int, NEW y \in Int, NEW z \in Int
  PROVE  /\ Times(Times(x, y), z) = Times(y, Times(x, z))
         /\ Times(x, Times(y, z)) = Times(y, Times(x, z))
         /\ Times(Plus(x, y), z) = Plus(Times(x, z), Times(y, z))
  <1>1. Times(x, y) = Times(y, x)  BY PlusTimesType
  <1>2. Times(Times(y, x), z) = Times(y, Times(x, z))  BY TimesAssoc
  <1>3. Times(Times(x, y), z) = Times(x, Times(y, z))  BY TimesAssoc
  <1>4. Times(Plus(x, y), z) = Plus(Times(x, z), Times(y, z))
    <2>1. Plus(x, y) \in Int  BY PlusTimesType
    <2>2. Times(Plus(x, y), z) = Times(z, Plus(x, y))  BY <2>1, PlusTimesType
    <2>3. Times(z, Plus(x, y)) = Plus(Times(z, x), Times(z, y))  BY Distributes
    <2>4. QED  BY <2>2, <2>3, PlusTimesType
  <1>5. QED  BY <1>1, <1>2, <1>3, <1>4

-----------------------------------------------------------------------------
(***************************************************************************)
(* The loop that evaluates a polynomial.                                   *)
(***************************************************************************)
\* Induction over sequences, as a fact about a set of them.
LEMMA SeqInduct ==
  ASSUME NEW X, NEW P, <<>> \in P,
         \A c \in Seq(X) : c # <<>> /\ Tail(c) \in P => c \in P
  PROVE  Seq(X) \subseteq P
  <1> DEFINE S == {n \in Nat : \A c \in Seq(X) : Len(c) = n => c \in P}
  <1>1. 0 \in S
    <2>1. \A c \in Seq(X) : Len(c) = 0 => c = <<>>  BY EmptySeq
    <2>2. QED  BY <2>1
  <1>2. ASSUME NEW n \in S PROVE n + 1 \in S
    <2>1. ASSUME NEW c \in Seq(X), Len(c) = n + 1 PROVE c \in P
      <3>1. c # <<>>  BY <2>1
      <3>2. Tail(c) \in Seq(X) /\ Len(Tail(c)) = n  BY <2>1, <3>1
      <3>3. QED  BY <3>1, <3>2
    <2>2. QED  BY <2>1
  <1>3. S = Nat
    <2>1. S \subseteq Nat  OBVIOUS
    <2> HIDE DEF S
    <2>2. QED  BY <1>1, <1>2, <2>1, NatInduct
  <1>4. ASSUME NEW c \in Seq(X) PROVE c \in P
    <2>1. Len(c) \in S  BY <1>3
    <2>2. QED  BY <2>1
  <1>5. QED  BY <1>4

\* f evaluates the polynomial from its coefficient number m on.
Evaluates(f, m, c, x) ==
  f = [k \in m..Len(c) |-> IF k = Len(c) THEN c[k] ELSE Plus(c[k], Times(x, f[k + 1]))]

\* The values of the loop.
LEMMA EvaluatesAt ==
  ASSUME NEW f, NEW m, NEW c, NEW x, Evaluates(f, m, c, x)
  PROVE  /\ DOMAIN f = m..Len(c)
         /\ \A k \in m..Len(c) : f[k] =
              IF k = Len(c) THEN c[k] ELSE Plus(c[k], Times(x, f[k + 1]))
  <1> DEFINE g == [k \in m..Len(c) |->
               IF k = Len(c) THEN c[k] ELSE Plus(c[k], Times(x, f[k + 1]))]
  <1>1. f = g  BY DEF Evaluates
  <1>2. /\ DOMAIN g = m..Len(c)
        /\ \A k \in m..Len(c) : g[k] = IF k = Len(c) THEN c[k] ELSE Plus(c[k], Times(x, f[k + 1]))
    OBVIOUS
  <1> HIDE DEF g
  <1>3. QED  BY <1>1, <1>2

\* The loop has a result.
LEMMA EvaluatesExists ==
  ASSUME NEW X, NEW c \in Seq(X), c # <<>>, NEW x
  PROVE  \E f : Evaluates(f, 1, c, x)
  <1> DEFINE n == Len(c)
  <1> DEFINE S == {m \in Nat : m < n => \E f : Evaluates(f, n - m, c, x)}
  <1>1. n \in Nat /\ n >= 1  BY EmptySeq
  <1>2. 0 \in S
    <2> DEFINE f == [k \in n..n |-> c[k]]
    <2>1. Evaluates(f, n, c, x)  BY <1>1 DEF Evaluates
    <2>2. QED  BY <1>1, <2>1
  <1>3. ASSUME NEW m \in S PROVE m + 1 \in S
    <2>1. SUFFICES ASSUME m + 1 < n PROVE \E f : Evaluates(f, n - (m + 1), c, x)
      OBVIOUS
    <2>2. PICK f : Evaluates(f, n - m, c, x)  BY <1>1, <2>1
    <2> DEFINE l == n - (m + 1)
               g == [k \in l..n |-> IF k = l THEN Plus(c[k], Times(x, f[k + 1])) ELSE f[k]]
    <2>3. l \in Nat /\ l < n /\ n - m = l + 1  BY <1>1, <2>1
    <2> HIDE DEF l, n
    <2>4. \A k \in (l + 1)..n : f[k] = IF k = n THEN c[k] ELSE Plus(c[k], Times(x, f[k + 1]))
      BY <2>2, <2>3, EvaluatesAt DEF n
    <2>5. \A k \in (l + 1)..n : g[k] = f[k]  BY <1>1, <2>3
    <2>6. \A k \in l..n : g[k] = IF k = n THEN c[k] ELSE Plus(c[k], Times(x, g[k + 1]))
      <3> TAKE k \in l..n
      <3>1. CASE k = l  BY <1>1, <2>3, <3>1
      <3>2. CASE k # l
        <4>1. k \in (l + 1)..n  BY <3>2, <2>3, <1>1
        <4>2. k # n => k + 1 \in (l + 1)..n  BY <4>1, <2>3, <1>1
        <4> HIDE DEF g
        <4>3. QED  BY <4>1, <4>2, <2>4, <2>5
      <3>3. QED  BY <3>1, <3>2
    <2>7. g = [k \in l..n |-> IF k = n THEN c[k] ELSE Plus(c[k], Times(x, g[k + 1]))]
      <3>1. g = [k \in l..n |-> g[k]]  OBVIOUS
      <3> HIDE DEF g
      <3>2. QED  BY <2>6, <3>1
    <2>8. QED  BY <2>7 DEF Evaluates, l, n
  <1>4. S = Nat
    <2>1. S \subseteq Nat  OBVIOUS
    <2> HIDE DEF S
    <2>2. QED  BY <1>2, <1>3, <2>1, NatInduct
  <1>5. n - 1 \in S /\ n - 1 < n /\ n - (n - 1) = 1  BY <1>1, <1>4
  <1>6. QED  BY <1>5

\* The result is the only one.
LEMMA EvaluatesUnique ==
  ASSUME NEW X, NEW c \in Seq(X), c # <<>>, NEW x, NEW m \in 1..Len(c),
         NEW f, Evaluates(f, 1, c, x), NEW g, Evaluates(g, m, c, x)
  PROVE  g[m] = f[m]
  <1> DEFINE n == Len(c)
  <1> DEFINE S == {l \in Nat : l <= n - m => g[n - l] = f[n - l]}
  <1>1. n \in Nat /\ n >= 1 /\ m \in Nat /\ m >= 1 /\ m <= n  BY EmptySeq
  <1>2. /\ \A k \in 1..n : f[k] = IF k = n THEN c[k] ELSE Plus(c[k], Times(x, f[k + 1]))
        /\ \A k \in m..n : g[k] = IF k = n THEN c[k] ELSE Plus(c[k], Times(x, g[k + 1]))
    BY EvaluatesAt
  <1> HIDE DEF n
  <1>3. 0 \in S
    BY <1>1, <1>2
  <1>4. ASSUME NEW l \in S PROVE l + 1 \in S
    <2>1. SUFFICES ASSUME l + 1 <= n - m PROVE g[n - (l + 1)] = f[n - (l + 1)]
      OBVIOUS
    <2> DEFINE k == n - (l + 1)
    <2>2. k \in m..n /\ k \in 1..n /\ k # n /\ k + 1 = n - l /\ l <= n - m
      BY <1>1, <2>1
    <2>3. g[k + 1] = f[k + 1]  BY <2>2
    <2> HIDE DEF k
    <2>4. g[k] = f[k]  BY <1>2, <2>2, <2>3
    <2>5. QED  BY <2>4 DEF k
  <1>5. S = Nat
    <2>1. S \subseteq Nat  OBVIOUS
    <2> HIDE DEF S
    <2>2. QED  BY <1>3, <1>4, <2>1, NatInduct
  <1>6. n - m \in Nat /\ n - (n - m) = m  BY <1>1
  <1>7. n - m \in S  BY <1>5, <1>6
  <1>8. QED  BY <1>1, <1>6, <1>7

\* Horner's value is that of the loop.
LEMMA HornerIs ==
  ASSUME NEW X, NEW c \in Seq(X), c # <<>>, NEW x,
         NEW f, Evaluates(f, 1, c, x)
  PROVE  Horner(c, x) = f[1]
  <1> DEFINE from == CHOOSE h : h = [k \in 1..Len(c) |->
                        IF k = Len(c) THEN c[k] ELSE Plus(c[k], Times(x, h[k + 1]))]
  <1>1. Horner(c, x) = from[1]  BY DEF Horner
  <1>2. from = [k \in 1..Len(c) |->
          IF k = Len(c) THEN c[k] ELSE Plus(c[k], Times(x, from[k + 1]))]
    BY DEF Evaluates
  <1> HIDE DEF from
  <1>3. Evaluates(from, 1, c, x)  BY <1>2 DEF Evaluates
  <1>4. 1 \in 1..Len(c)  BY EmptySeq
  <1>5. QED  BY <1>1, <1>3, <1>4, EvaluatesUnique

\* The loop, as a recursion on the sequence.
LEMMA HornerStep ==
  ASSUME NEW X, NEW c \in Seq(X), c # <<>>, NEW x
  PROVE  Horner(c, x) = IF Len(c) = 1 THEN c[1] ELSE Plus(c[1], Times(x, Horner(Tail(c), x)))
  <1> DEFINE n == Len(c)
  <1>1. n \in Nat /\ n >= 1  BY EmptySeq
  <1>2. PICK f : Evaluates(f, 1, c, x)  BY EvaluatesExists
  <1>3. \A k \in 1..n : f[k] = IF k = n THEN c[k] ELSE Plus(c[k], Times(x, f[k + 1]))
    BY <1>2, EvaluatesAt
  <1>4. Horner(c, x) = f[1]  BY <1>2, HornerIs
  <1>5. CASE n = 1  BY <1>3, <1>4, <1>5
  <1>6. CASE n # 1
    <2> DEFINE t == Tail(c)
               g == [k \in 1..Len(t) |-> f[k + 1]]
    <2>1. t \in Seq(X) /\ Len(t) = n - 1 /\ t # <<>> /\ n - 1 >= 1
          /\ \A k \in 1..Len(t) : t[k] = c[k + 1]
      <3>1. /\ t \in Seq(X) /\ Len(t) = n - 1
            /\ \A k \in 1..Len(t) : t[k] = c[k + 1]
        BY HeadTailProperties
      <3>2. QED  BY <1>1, <1>6, <3>1
    <2>2. ASSUME NEW k \in 1..Len(t)
          PROVE  g[k] = IF k = Len(t) THEN t[k] ELSE Plus(t[k], Times(x, g[k + 1]))
      <3>1. g[k] = f[k + 1] /\ k + 1 \in 1..n /\ t[k] = c[k + 1] /\ (k = Len(t) <=> k + 1 = n)
        BY <1>1, <2>1
      <3>2. k # Len(t) => g[k + 1] = f[(k + 1) + 1]
        <4>1. Len(t) \in Nat  BY <1>1, <2>1
        <4>2. k # Len(t) => k + 1 \in 1..Len(t)  BY <4>1
        <4>3. QED  BY <4>2
      <3> HIDE DEF g, t, n
      <3>3. QED  BY <3>1, <3>2, <1>3
    <2>3. Evaluates(g, 1, t, x)
      <3>1. g = [k \in 1..Len(t) |-> g[k]]  OBVIOUS
      <3> HIDE DEF g, t
      <3>2. QED  BY <2>2, <3>1 DEF Evaluates
    <2>4. g[1] = f[2]  BY <1>1, <2>1
    <2> HIDE DEF g, t
    <2>5. Horner(t, x) = f[2]  BY <2>1, <2>3, <2>4, HornerIs
    <2>6. f[1] = Plus(c[1], Times(x, f[2]))
      <3>1. 1 \in 1..n /\ 1 + 1 = 2  BY <1>1
      <3> HIDE DEF n
      <3>2. QED  BY <1>3, <1>6, <3>1
    <2>7. QED  BY <1>4, <1>6, <2>5, <2>6 DEF t
  <1>7. QED  BY <1>5, <1>6

\* Sequences with the same elements are the same.
LEMMA SeqIs ==
  ASSUME NEW X, NEW s \in Seq(X)
  PROVE  /\ Len(s) \in Nat /\ DOMAIN s = 1..Len(s) /\ s = [k \in 1..Len(s) |-> s[k]]
         /\ \A k \in 1..Len(s) : s[k] \in X
         /\ s = <<>> <=> Len(s) = 0
  OBVIOUS

\* Without coefficients, the value is 0.
LEMMA HornerEmpty == \A x : Horner(<<>>, x) = 0
  BY DEF Horner

\* 0 and 1 are neutral, and a product with 0 is 0.
LEMMA PlusZero ==
  ASSUME NEW x \in Int
  PROVE  /\ Plus(x, 0) = x % Q /\ Times(x, 0) = 0 /\ Times(x, 1) = x % Q
         /\ Plus(0, x) = x % Q /\ Times(0, x) = 0 /\ Times(1, x) = x % Q
         /\ x \in Scalar => /\ Plus(x, 0) = x /\ Times(x, 1) = x
                           /\ Plus(0, x) = x /\ Times(1, x) = x
  <1>1. x + 0 = x /\ x * 0 = 0 /\ x * 1 = x /\ 0 + x = x /\ 0 * x = 0 /\ 1 * x = x  OBVIOUS
  <1>2. 0 % Q = 0  BY GroupAssumption
  <1>3. QED  BY <1>1, <1>2, ScalarMod DEF Plus, Times

\* The value is a scalar.
LEMMA HornerType ==
  ASSUME NEW c \in Seq(Scalar), NEW x \in Int
  PROVE  Horner(c, x) \in Scalar
  <1> DEFINE P == {d \in Seq(Scalar) : Horner(d, x) \in Scalar}
  <1>1. <<>> \in P  BY HornerEmpty, GroupAssumption DEF Scalar
  <1>2. ASSUME NEW d \in Seq(Scalar), d # <<>>, Tail(d) \in P PROVE d \in P
    <2>1. d[1] \in Scalar /\ d[1] \in Int  BY <1>2, EmptySeq, ScalarMod
    <2> DEFINE h == Horner(Tail(d), x)
    <2>2. h \in Int  BY <1>2, ScalarMod
    <2>3. Horner(d, x) = IF Len(d) = 1 THEN d[1] ELSE Plus(d[1], Times(x, h))
      BY <1>2, HornerStep
    <2> HIDE DEF h
    <2>4. QED  BY <2>1, <2>2, <2>3, PlusTimesType
  <1> HIDE DEF P
  <1>3. Seq(Scalar) \subseteq P  BY <1>1, <1>2, SeqInduct
  <1>4. QED  BY <1>3 DEF P

\* The same when there is no rest, which counts nothing.
LEMMA HornerRest ==
  ASSUME NEW c \in Seq(Scalar), c # <<>>, NEW x \in Int
  PROVE  /\ Horner(c, x) = Plus(c[1], Times(x, Horner(Tail(c), x)))
         /\ c[1] \in Scalar /\ Tail(c) \in Seq(Scalar)
         /\ Len(Tail(c)) = Len(c) - 1 /\ Horner(Tail(c), x) \in Scalar
  <1>1. c[1] \in Scalar /\ c[1] \in Int  BY EmptySeq, ScalarMod
  <1>2. Tail(c) \in Seq(Scalar) /\ Len(Tail(c)) = Len(c) - 1  BY HeadTailProperties
  <1>3. CASE Len(c) = 1
    <2>1. Tail(c) = <<>>
      <3> DEFINE t == Tail(c)
      <3> HIDE DEF t
      <3>1. t \in Seq(Scalar) /\ Len(t) = 0  BY <1>2, <1>3 DEF t
      <3>2. t = <<>>  BY <3>1
      <3>3. QED  BY <3>2 DEF t
    <2>2. Horner(Tail(c), x) = 0  BY <2>1, HornerEmpty
    <2>3. Plus(c[1], Times(x, 0)) = c[1] /\ 0 \in Scalar
      <3>1. Times(x, 0) = 0 /\ Plus(c[1], 0) = c[1]  BY <1>1, PlusZero
      <3>2. QED  BY <3>1, GroupAssumption DEF Scalar
    <2>4. Horner(c, x) = c[1]  BY <1>3, HornerStep
    <2>5. QED  BY <1>1, <1>2, <2>2, <2>3, <2>4
  <1>4. CASE Len(c) # 1  BY <1>1, <1>2, <1>4, HornerStep, HornerType
  <1>5. QED  BY <1>3, <1>4

\* The commitments to the rest are the rest of the commitments.
LEMMA CommitmentsRest ==
  ASSUME NEW c \in Seq(Scalar)
  PROVE  /\ Commitments(c) \in Seq(Scalar) /\ Len(Commitments(c)) = Len(c)
         /\ c # <<>> => /\ Commitments(c)[1] = Times(G, c[1])
                        /\ Tail(Commitments(c)) = Commitments(Tail(c))
  <1> DEFINE n == Len(c)
             b == Commitments(c)
  <1>1. n \in Nat /\ DOMAIN c = 1..n /\ \A k \in 1..n : c[k] \in Scalar  OBVIOUS
  <1>2. \A k \in 1..n : Times(G, c[k]) \in Scalar
    <2> TAKE k \in 1..n
    <2>1. c[k] \in Int /\ G \in Int  BY <1>1, ScalarMod, GroupAssumption
    <2>2. QED  BY <2>1, PlusTimesType
  <1>3. b = [k \in 1..n |-> Times(G, c[k])]  BY <1>1 DEF Commitments
  <1>4. b \in [1..n -> Scalar] /\ DOMAIN b = 1..n  BY <1>2, <1>3
  <1> HIDE DEF b
  <1>5. b \in Seq(Scalar) /\ Len(b) = n  BY <1>1, <1>4
  <1>6. ASSUME c # <<>> PROVE b[1] = Times(G, c[1]) /\ Tail(b) = Commitments(Tail(c))
    <2>1. n >= 1  BY <1>6, EmptySeq
    <2>2. b # <<>>  BY <1>5, <2>1
    <2>3. /\ Tail(c) \in Seq(Scalar) /\ Len(Tail(c)) = n - 1
          /\ \A k \in 1..(n - 1) : Tail(c)[k] = c[k + 1]
          /\ Tail(b) \in Seq(Scalar) /\ Len(Tail(b)) = n - 1
          /\ \A k \in 1..(n - 1) : Tail(b)[k] = b[k + 1]
      BY <1>5, <1>6, <2>2, HeadTailProperties
    <2>4. DOMAIN Tail(c) = 1..(n - 1) /\ Tail(b) = [k \in 1..(n - 1) |-> Tail(b)[k]]
      <3> DEFINE t == Tail(b)
                 u == Tail(c)
      <3> HIDE DEF t, u, b, n
      <3>1. t \in Seq(Scalar) /\ Len(t) = n - 1 /\ u \in Seq(Scalar) /\ Len(u) = n - 1
        BY <2>3 DEF t, u
      <3>2. DOMAIN u = 1..(n - 1) /\ t = [k \in 1..(n - 1) |-> t[k]]  BY <3>1, SeqIs
      <3>3. QED  BY <3>2 DEF t, u
    <2>5. \A k \in 1..(n - 1) : b[k + 1] = Times(G, c[k + 1])
      BY <1>1, <1>3
    <2>6. \A k \in 1..(n - 1) : Tail(b)[k] = Times(G, Tail(c)[k])
      BY <2>3, <2>5
    <2>7. Tail(b) = [k \in 1..(n - 1) |-> Times(G, Tail(c)[k])]
      BY <2>4, <2>6
    <2>8. Tail(b) = Commitments(Tail(c))  BY <2>4, <2>7 DEF Commitments
    <2>9. b[1] = Times(G, c[1])
      <3>1. 1 \in 1..n  BY <1>1, <2>1
      <3>2. QED  BY <1>3, <3>1
    <2>10. QED  BY <2>8, <2>9
  <1>7. QED  BY <1>5, <1>6 DEF b

\* The commitments to a polynomial evaluate to the commitment to its value: evaluate_hiding
\* computes what evaluate_polynomial does, in the group.
THEOREM CommitmentsEvaluate ==
  ASSUME NEW c \in Seq(Scalar), NEW x \in Int
  PROVE  Horner(Commitments(c), x) = Times(G, Horner(c, x))
  <1> DEFINE P == {d \in Seq(Scalar) : Horner(Commitments(d), x) = Times(G, Horner(d, x))}
  <1>1. <<>> \in P
    <2>1. Commitments(<<>>) = <<>>
      <3>1. <<>> \in Seq(Scalar) /\ Len(<<>>) = 0  OBVIOUS
      <3>2. QED  BY <3>1, CommitmentsRest, EmptySeq
    <2>2. QED  BY <2>1, HornerEmpty, PlusZero, GroupAssumption
  <1>2. ASSUME NEW d \in Seq(Scalar), d # <<>>, Tail(d) \in P PROVE d \in P
    <2> DEFINE b == Commitments(d)
               h == Horner(Tail(d), x)
    <2>1. /\ b \in Seq(Scalar) /\ b # <<>> /\ b[1] = Times(G, d[1])
          /\ Tail(b) = Commitments(Tail(d))
      BY <1>2, CommitmentsRest, EmptySeq
    <2>2. Horner(d, x) = Plus(d[1], Times(x, h)) /\ d[1] \in Int /\ h \in Int /\ G \in Int
      BY <1>2, HornerRest, ScalarMod, GroupAssumption
    <2>3. Horner(b, x) = Plus(b[1], Times(x, Times(G, h)))
      <3>1. Horner(b, x) = Plus(b[1], Times(x, Horner(Tail(b), x)))
        <4> HIDE DEF b
        <4>1. QED  BY <2>1, HornerRest
      <3>2. QED  BY <1>2, <2>1, <3>1
    <2> HIDE DEF b, h
    <2>4. Times(x, Times(G, h)) = Times(G, Times(x, h))
      BY <2>2, TimesAssoc, PlusTimesType
    <2>5. Times(G, Plus(d[1], Times(x, h))) = Plus(Times(G, d[1]), Times(G, Times(x, h)))
      <3>1. Times(x, h) \in Int  BY <2>2, PlusTimesType
      <3>2. QED  BY <2>2, <3>1, Distributes
    <2>6. Horner(b, x) = Times(G, Horner(d, x))
      BY <2>1, <2>2, <2>3, <2>4, <2>5
    <2>7. QED  BY <2>6 DEF b
  <1> HIDE DEF P
  <1>3. Seq(Scalar) \subseteq P  BY <1>1, <1>2, SeqInduct
  <1>4. QED  BY <1>3 DEF P

-----------------------------------------------------------------------------
(***************************************************************************)
(* Sums and products.  A fold takes the elements in an order that is       *)
(* unspecified: it makes no difference.                                    *)
(***************************************************************************)
\* The element that FoldFunction takes next.
Chosen(s) == CHOOSE y \in s : TRUE

\* A sum, or a product.
Combine(k, x, y) == IF k = "sum" THEN Plus(x, y) ELSE Times(x, y)
Base(k) == IF k = "sum" THEN 0 ELSE 1

\* Both operations are commutative and associative.
LEMMA CombineOps ==
  ASSUME NEW k
  PROVE  /\ Base(k) \in Scalar
         /\ \A x, y \in Scalar : /\ Combine(k, x, y) \in Scalar
                                /\ Combine(k, x, y) = Combine(k, y, x)
         /\ \A x, y, z \in Scalar :
              Combine(k, Combine(k, x, y), z) = Combine(k, x, Combine(k, y, z))
  <1>1. Base(k) \in Scalar  BY GroupAssumption DEF Base, Scalar
  <1>2. \A x \in Scalar : x \in Int  BY ScalarMod
  <1>3. ASSUME NEW x \in Scalar, NEW y \in Scalar
        PROVE  Combine(k, x, y) \in Scalar /\ Combine(k, x, y) = Combine(k, y, x)
    BY <1>2, PlusTimesType DEF Combine
  <1>4. ASSUME NEW x \in Scalar, NEW y \in Scalar, NEW z \in Scalar
        PROVE  Combine(k, Combine(k, x, y), z) = Combine(k, x, Combine(k, y, z))
    <2>1. x \in Int /\ y \in Int /\ z \in Int  BY <1>2
    <2>2. /\ Plus(Plus(x, y), z) = Plus(x, Plus(y, z))
          /\ Times(Times(x, y), z) = Times(x, Times(y, z))
      BY <2>1, PlusAssoc, TimesAssoc
    <2>3. QED  BY <2>2 DEF Combine
  <1>5. QED  BY <1>1, <1>3, <1>4

\* The first two of three change places.
LEMMA CombineSwap ==
  ASSUME NEW k, NEW x \in Scalar, NEW y \in Scalar, NEW z \in Scalar
  PROVE  Combine(k, x, Combine(k, y, z)) = Combine(k, y, Combine(k, x, z))
  <1>1. x \in Int /\ y \in Int /\ z \in Int  BY ScalarMod
  <1>2. Plus(x, Plus(y, z)) = Plus(y, Plus(x, z))
    <2>1. Plus(x, Plus(y, z)) = Plus(Plus(x, y), z)  BY <1>1, PlusAssoc
    <2>2. Plus(y, Plus(x, z)) = Plus(Plus(y, x), z)  BY <1>1, PlusAssoc
    <2>3. Plus(x, y) = Plus(y, x)  BY <1>1, PlusTimesType
    <2>4. QED  BY <2>1, <2>2, <2>3
  <1>3. Times(x, Times(y, z)) = Times(y, Times(x, z))  BY <1>1, TimesSwap
  <1>4. QED  BY <1>2, <1>3 DEF Combine

\* it is the fold of f over the sets in DD.
Folds(it, k, f, DD) ==
  it = [s \in DD |-> IF s = {} THEN Base(k) ELSE Combine(k, f[Chosen(s)], it[s \ {Chosen(s)}])]

\* It is one of the set.
LEMMA ChosenIn == ASSUME NEW s, s # {} PROVE Chosen(s) \in s
  BY DEF Chosen

\* The values of a fold.
LEMMA FoldsAt ==
  ASSUME NEW it, NEW k, NEW f, NEW DD, Folds(it, k, f, DD)
  PROVE  /\ DOMAIN it = DD
         /\ \A s \in DD : it[s] =
              IF s = {} THEN Base(k) ELSE Combine(k, f[Chosen(s)], it[s \ {Chosen(s)}])
  <1> DEFINE g == [s \in DD |->
               IF s = {} THEN Base(k) ELSE Combine(k, f[Chosen(s)], it[s \ {Chosen(s)}])]
  <1>1. it = g  BY DEF Folds
  <1>2. /\ DOMAIN g = DD
        /\ \A s \in DD : g[s] =
             IF s = {} THEN Base(k) ELSE Combine(k, f[Chosen(s)], it[s \ {Chosen(s)}])
    OBVIOUS
  <1> HIDE DEF g
  <1>3. QED  BY <1>1, <1>2

\* The parts of D with at most n elements.
UpTo(D, n) == {s \in SUBSET D : Cardinality(s) <= n}

\* What is left is smaller by one.
LEMMA RemoveChosen ==
  ASSUME NEW D, IsFiniteSet(D), NEW s \in SUBSET D, s # {}
  PROVE  /\ Chosen(s) \in D /\ s \ {Chosen(s)} \in SUBSET D
         /\ IsFiniteSet(s) /\ Cardinality(s) \in Nat
         /\ Cardinality(s \ {Chosen(s)}) = Cardinality(s) - 1
  <1>1. Chosen(s) \in s  BY ChosenIn
  <1>2. IsFiniteSet(s)  BY FS_Subset
  <1>3. Cardinality(s \ {Chosen(s)}) = Cardinality(s) - 1  BY <1>1, <1>2, FS_RemoveElement
  <1>4. QED  BY <1>1, <1>2, <1>3, FS_CardinalityType

\* There is a fold over all parts of a finite set.
LEMMA FoldsExist ==
  ASSUME NEW D, IsFiniteSet(D), NEW k, NEW f
  PROVE  \E it : Folds(it, k, f, SUBSET D)
  <1> DEFINE S == {n \in Nat : \E it : Folds(it, k, f, UpTo(D, n))}
  <1>1. 0 \in S
    <2> DEFINE it == [s \in UpTo(D, 0) |-> Base(k)]
    <2>1. \A s \in UpTo(D, 0) : s = {}
      BY FS_Subset, FS_EmptySet, FS_CardinalityType DEF UpTo
    <2>2. Folds(it, k, f, UpTo(D, 0))  BY <2>1 DEF Folds
    <2>3. QED  BY <2>2
  <1>2. ASSUME NEW n \in S PROVE n + 1 \in S
    <2>1. PICK it : Folds(it, k, f, UpTo(D, n))  OBVIOUS
    <2>2. n \in Nat  OBVIOUS
    <2> HIDE DEF S
    <2> DEFINE g == [s \in UpTo(D, n + 1) |->
                 IF s = {} THEN Base(k) ELSE Combine(k, f[Chosen(s)], it[s \ {Chosen(s)}])]
    <2>3. \A s \in UpTo(D, n) : s \in UpTo(D, n + 1)
      <3>1. \A s \in SUBSET D : Cardinality(s) \in Nat  BY FS_Subset, FS_CardinalityType
      <3>2. QED  BY <2>2, <3>1 DEF UpTo
    <2>4. \A s \in UpTo(D, n) : g[s] = it[s]
      <3>1. \A s \in UpTo(D, n) : it[s] =
              IF s = {} THEN Base(k) ELSE Combine(k, f[Chosen(s)], it[s \ {Chosen(s)}])
        BY <2>1, FoldsAt
      <3>2. QED  BY <2>3, <3>1
    <2>5. ASSUME NEW s \in UpTo(D, n + 1), s # {} PROVE s \ {Chosen(s)} \in UpTo(D, n)
      <3>1. s \in SUBSET D /\ Cardinality(s) <= n + 1  BY DEF UpTo
      <3>2. QED  BY <2>2, <2>5, <3>1, RemoveChosen DEF UpTo
    <2>6. \A s \in UpTo(D, n + 1) : g[s] =
            IF s = {} THEN Base(k) ELSE Combine(k, f[Chosen(s)], g[s \ {Chosen(s)}])
      BY <2>4, <2>5
    <2>7. g = [s \in UpTo(D, n + 1) |-> g[s]]  OBVIOUS
    <2> HIDE DEF g
    <2>8. g = [s \in UpTo(D, n + 1) |->
            IF s = {} THEN Base(k) ELSE Combine(k, f[Chosen(s)], g[s \ {Chosen(s)}])]
      BY <2>6, <2>7
    <2>9. Folds(g, k, f, UpTo(D, n + 1))  BY <2>8 DEF Folds
    <2>10. QED  BY <2>2, <2>9 DEF S
  <1>3. S = Nat
    <2>1. S \subseteq Nat  OBVIOUS
    <2> HIDE DEF S
    <2>2. QED  BY <1>1, <1>2, <2>1, NatInduct
  <1>4. Cardinality(D) \in Nat  BY FS_CardinalityType
  <1>5. UpTo(D, Cardinality(D)) = SUBSET D  BY FS_Subset DEF UpTo
  <1>6. Cardinality(D) \in S  BY <1>3, <1>4
  <1>7. QED  BY <1>5, <1>6

\* Its values are scalars.
LEMMA FoldsType ==
  ASSUME NEW D, IsFiniteSet(D), NEW k,
         NEW f \in [D -> Scalar], NEW it, Folds(it, k, f, SUBSET D)
  PROVE  \A A \in SUBSET D : it[A] \in Scalar
  <1> DEFINE P == {n \in Nat : \A A \in SUBSET D : Cardinality(A) = n => it[A] \in Scalar}
  <1>1. \A A \in SUBSET D : it[A] =
          IF A = {} THEN Base(k) ELSE Combine(k, f[Chosen(A)], it[A \ {Chosen(A)}])
    BY FoldsAt
  <1>2. 0 \in P
    <2>1. \A A \in SUBSET D : Cardinality(A) = 0 => A = {}  BY FS_Subset, FS_EmptySet
    <2>2. QED  BY <2>1, <1>1, CombineOps
  <1>3. ASSUME NEW n \in P PROVE n + 1 \in P
    <2>1. ASSUME NEW A \in SUBSET D, Cardinality(A) = n + 1 PROVE it[A] \in Scalar
      <3>1. n \in Nat /\ \A B \in SUBSET D : Cardinality(B) = n => it[B] \in Scalar  OBVIOUS
      <3> HIDE DEF P
      <3>2. A # {}
        <4>1. Cardinality({}) = 0  BY FS_EmptySet
        <4>2. n + 1 # 0  BY <3>1
        <4>3. QED  BY <2>1, <4>1, <4>2
      <3>3. Chosen(A) \in D /\ A \ {Chosen(A)} \in SUBSET D /\ Cardinality(A \ {Chosen(A)}) = n
        BY <2>1, <3>1, <3>2, RemoveChosen
      <3>4. it[A \ {Chosen(A)}] \in Scalar  BY <3>1, <3>3
      <3>5. f[Chosen(A)] \in Scalar  BY <3>3
      <3>6. it[A] = Combine(k, f[Chosen(A)], it[A \ {Chosen(A)}])  BY <1>1, <3>2
      <3>7. \A x, y \in Scalar : Combine(k, x, y) \in Scalar  BY CombineOps
      <3>8. QED  BY <3>4, <3>5, <3>6, <3>7
    <2>2. QED  BY <2>1
  <1>4. P = Nat
    <2>1. P \subseteq Nat  OBVIOUS
    <2> HIDE DEF P
    <2>2. QED  BY <1>2, <1>3, <2>1, NatInduct
  <1>5. ASSUME NEW A \in SUBSET D PROVE it[A] \in Scalar
    <2>1. Cardinality(A) \in P  BY <1>4, FS_Subset, FS_CardinalityType
    <2>2. QED  BY <2>1
  <1>6. QED  BY <1>5

\* A fold over A, and over A with any one element more.
Adds(it, k, f, D, A) == \A y \in D \ A : it[A \cup {y}] = Combine(k, f[y], it[A])

\* Any element may be the one that is added last, whichever FoldFunction chooses.
LEMMA FoldsAdd ==
  ASSUME NEW D, IsFiniteSet(D), NEW k,
         NEW f \in [D -> Scalar], NEW it, Folds(it, k, f, SUBSET D)
  PROVE  \A A \in SUBSET D : Adds(it, k, f, D, A)
  <1> DEFINE P == {n \in Nat : \A A \in SUBSET D : Cardinality(A) = n => Adds(it, k, f, D, A)}
  <1>1. \A A \in SUBSET D : it[A] =
          IF A = {} THEN Base(k) ELSE Combine(k, f[Chosen(A)], it[A \ {Chosen(A)}])
    BY FoldsAt
  <1>2. \A A \in SUBSET D : it[A] \in Scalar  BY FoldsType
  <1>3. 0 \in P
    <2>1. ASSUME NEW A \in SUBSET D, Cardinality(A) = 0, NEW y \in D \ A
          PROVE it[A \cup {y}] = Combine(k, f[y], it[A])
      <3>1. A = {}  BY <2>1, FS_Subset, FS_EmptySet
      <3>2. Chosen({y}) = y  BY ChosenIn
      <3>3. {y} \in SUBSET D /\ {y} \ {y} = {} /\ A \cup {y} = {y} /\ {y} # {}  BY <3>1
      <3>4. QED  BY <3>1, <3>2, <3>3, <1>1
    <2>2. QED  BY <2>1 DEF Adds
  <1>4. ASSUME NEW n \in P PROVE n + 1 \in P
    <2>1. ASSUME NEW A \in SUBSET D, Cardinality(A) = n + 1, NEW y \in D \ A
          PROVE it[A \cup {y}] = Combine(k, f[y], it[A])
      <3>1. n \in Nat /\ \A B \in SUBSET D : Cardinality(B) = n => Adds(it, k, f, D, B)  OBVIOUS
      <3> HIDE DEF P
      <3> DEFINE x == Chosen(A \cup {y})
      <3>2. x \in A \cup {y} /\ A \cup {y} # {} /\ A \cup {y} \in SUBSET D  BY ChosenIn
      <3>3. it[A \cup {y}] = Combine(k, f[x], it[(A \cup {y}) \ {x}])  BY <1>1, <3>2
      <3> HIDE DEF x
      <3>4. CASE x = y
        <4>1. (A \cup {y}) \ {y} = A  OBVIOUS
        <4>2. QED  BY <3>3, <3>4, <4>1
      <3>5. CASE x # y
        <4> DEFINE B == A \ {x}
        <4>1. x \in A /\ (A \cup {y}) \ {x} = B \cup {y} /\ B \in SUBSET D /\ B \cup {x} = A
              /\ y \in D \ B /\ x \in D \ B
          BY <3>2, <3>5
        <4>2. IsFiniteSet(A)  BY FS_Subset
        <4>3. Cardinality(B) = n
          <5>1. Cardinality(A \ {x}) = Cardinality(A) - 1  BY <4>1, <4>2, FS_RemoveElement
          <5>2. QED  BY <2>1, <3>1, <5>1
        <4> HIDE DEF B
        <4>4. it[B \cup {y}] = Combine(k, f[y], it[B]) /\ it[A] = Combine(k, f[x], it[B])
          BY <3>1, <4>1, <4>3 DEF Adds
        <4>5. f[x] \in Scalar /\ f[y] \in Scalar /\ it[B] \in Scalar  BY <1>2, <4>1
        <4>6. Combine(k, f[x], Combine(k, f[y], it[B])) =
                Combine(k, f[y], Combine(k, f[x], it[B]))
          BY <4>5, CombineSwap
        <4>7. QED  BY <3>3, <4>1, <4>4, <4>6
      <3>6. QED  BY <3>4, <3>5
    <2>2. QED  BY <2>1 DEF Adds
  <1>5. P = Nat
    <2>1. P \subseteq Nat  OBVIOUS
    <2> HIDE DEF P
    <2>2. QED  BY <1>3, <1>4, <2>1, NatInduct
  <1>6. ASSUME NEW A \in SUBSET D PROVE Adds(it, k, f, D, A)
    <2>1. Cardinality(A) \in P  BY <1>5, FS_Subset, FS_CardinalityType
    <2>2. QED  BY <2>1
  <1>7. QED  BY <1>6

\* Two folds agree on a set on which their functions agree.
LEMMA FoldsSame ==
  ASSUME NEW D, IsFiniteSet(D), NEW k,
         NEW f \in [D -> Scalar], NEW it, Folds(it, k, f, SUBSET D),
         NEW E, D \subseteq E, IsFiniteSet(E),
         NEW h \in [E -> Scalar], NEW jt, Folds(jt, k, h, SUBSET E),
         \A d \in D : f[d] = h[d]
  PROVE  it[D] = jt[D]
  <1> DEFINE P == {A \in SUBSET D : it[A] = jt[A]}
  <1>1. {} \in P
    <2>1. /\ \A s \in SUBSET D : it[s] =
               IF s = {} THEN Base(k) ELSE Combine(k, f[Chosen(s)], it[s \ {Chosen(s)}])
          /\ \A s \in SUBSET E : jt[s] =
               IF s = {} THEN Base(k) ELSE Combine(k, h[Chosen(s)], jt[s \ {Chosen(s)}])
      BY FoldsAt
    <2>2. {} \in SUBSET D /\ {} \in SUBSET E  OBVIOUS
    <2>3. it[{}] = Base(k)  BY <2>1, <2>2
    <2>4. jt[{}] = Base(k)  BY <2>1, <2>2
    <2>5. QED  BY <2>3, <2>4
  <1>2. ASSUME NEW A \in SUBSET D, NEW y \in D, A \in P, y \notin A PROVE A \cup {y} \in P
    <2>1. (\A B \in SUBSET D : Adds(it, k, f, D, B)) /\ (\A B \in SUBSET E : Adds(jt, k, h, E, B))
      BY FoldsAdd
    <2>2. y \in D \ A /\ A \in SUBSET E /\ y \in E \ A  BY <1>2
    <2>3. it[A \cup {y}] = Combine(k, f[y], it[A])  BY <2>1, <2>2 DEF Adds
    <2>4. jt[A \cup {y}] = Combine(k, h[y], jt[A])  BY <2>1, <2>2 DEF Adds
    <2>5. QED  BY <1>2, <2>3, <2>4
  <1> HIDE DEF P
  <1>3. D \in P  BY <1>1, <1>2, SetInduct
  <1>4. QED  BY <1>3 DEF P

\* Both folds of SecretSharing, as one.
Total(k, f) == IF k = "sum" THEN SumOver(f) ELSE ProductOver(f)

\* How it comes to the total of f over D.
Totals(it, k, f, D) == Folds(it, k, f, SUBSET D) /\ Total(k, f) = it[D]

\* FoldFunction is such a fold.
LEMMA TotalIs ==
  ASSUME NEW k, NEW D, IsFiniteSet(D), NEW f \in [D -> Scalar]
  PROVE  \E it : Totals(it, k, f, D)
  <1> DEFINE F(it) == it = [s \in SUBSET DOMAIN f |-> IF s = {} THEN 0
                           ELSE LET x == CHOOSE y \in s : TRUE IN Plus(f[x], it[s \ {x}])]
             H(it) == it = [s \in SUBSET DOMAIN f |-> IF s = {} THEN 1
                           ELSE LET x == CHOOSE y \in s : TRUE IN Times(f[x], it[s \ {x}])]
  <1>1. DOMAIN f = D  OBVIOUS
  <1>2. PICK jt : Folds(jt, k, f, SUBSET D)  BY FoldsExist
  <1>3. CASE k = "sum"
    <2> DEFINE it == CHOOSE it : F(it)
    <2>1. SumOver(f) = it[D]
      BY <1>1 DEF SumOver, FoldFunction, FoldFunctionOnSet, MapThenFoldSet
    <2>2. F(jt)
      BY <1>1, <1>2, <1>3 DEF Folds, Combine, Base, Chosen
    <2>3. F(it)
      <3> HIDE DEF F
      <3>1. QED  BY <2>2
    <2> HIDE DEF it
    <2>4. Folds(it, k, f, SUBSET D)
      BY <1>1, <1>3, <2>3 DEF Folds, Combine, Base, Chosen
    <2>5. QED  BY <1>3, <2>1, <2>4 DEF Total, Totals
  <1>4. CASE k # "sum"
    <2> DEFINE it == CHOOSE it : H(it)
    <2>1. ProductOver(f) = it[D]
      BY <1>1 DEF ProductOver, FoldFunction, FoldFunctionOnSet, MapThenFoldSet
    <2>2. H(jt)
      BY <1>1, <1>2, <1>4 DEF Folds, Combine, Base, Chosen
    <2>3. H(it)
      <3> HIDE DEF H
      <3>1. QED  BY <2>2
    <2> HIDE DEF it
    <2>4. Folds(it, k, f, SUBSET D)
      BY <1>1, <1>4, <2>3 DEF Folds, Combine, Base, Chosen
    <2>5. QED  BY <1>4, <2>1, <2>4 DEF Total, Totals
  <1>5. QED  BY <1>3, <1>4

\* The total of nothing.
LEMMA TotalEmpty ==
  ASSUME NEW k, NEW f \in [{} -> Scalar]
  PROVE  Total(k, f) = Base(k)
  <1>1. IsFiniteSet({})  BY FS_EmptySet
  <1>2. PICK it : Totals(it, k, f, {})  BY <1>1, TotalIs
  <1>3. \A s \in SUBSET {} : it[s] =
          IF s = {} THEN Base(k) ELSE Combine(k, f[Chosen(s)], it[s \ {Chosen(s)}])
    BY <1>2, FoldsAt DEF Totals
  <1>4. QED  BY <1>2, <1>3 DEF Totals

\* A total is a scalar.
LEMMA TotalType ==
  ASSUME NEW k, NEW D, IsFiniteSet(D), NEW f \in [D -> Scalar]
  PROVE  Total(k, f) \in Scalar
  <1>1. PICK it : Totals(it, k, f, D)  BY TotalIs
  <1>2. \A A \in SUBSET D : it[A] \in Scalar  BY <1>1, FoldsType DEF Totals
  <1>3. QED  BY <1>1, <1>2 DEF Totals

\* The total over a part of the domain.
TotalOn(k, f, A) == Total(k, [d \in A |-> f[d]])

\* The total with one more element.
LEMMA TotalAdd ==
  ASSUME NEW k, NEW D, IsFiniteSet(D), NEW y, y \notin D,
         NEW f \in [D \cup {y} -> Scalar]
  PROVE  Total(k, f) = Combine(k, f[y], TotalOn(k, f, D))
  <1> DEFINE E == D \cup {y}
             g == [d \in D |-> f[d]]
  <1>1. IsFiniteSet(E)  BY FS_AddElement
  <1>2. g \in [D -> Scalar] /\ f \in [E -> Scalar] /\ \A d \in D : g[d] = f[d]  OBVIOUS
  <1>3. D \subseteq E /\ D \in SUBSET E /\ y \in E \ D /\ D \cup {y} = E  OBVIOUS
  <1> HIDE DEF E, g
  <1>4. PICK it : Totals(it, k, f, E)  BY <1>1, <1>2, TotalIs
  <1>5. PICK jt : Totals(jt, k, g, D)  BY <1>2, TotalIs
  <1>6. jt[D] = it[D]
    <2>1. Folds(it, k, f, SUBSET E) /\ Folds(jt, k, g, SUBSET D)  BY <1>4, <1>5 DEF Totals
    <2>2. QED  BY <1>1, <1>2, <1>3, <2>1, FoldsSame
  <1>7. \A A \in SUBSET E : Adds(it, k, f, E, A)  BY <1>1, <1>2, <1>4, FoldsAdd DEF Totals
  <1>8. it[D \cup {y}] = Combine(k, f[y], it[D])  BY <1>3, <1>7 DEF Adds
  <1>9. Total(k, f) = Combine(k, f[y], Total(k, g))  BY <1>3, <1>4, <1>5, <1>6, <1>8 DEF Totals
  <1>10. QED  BY <1>9 DEF g, TotalOn

\* The sum of f over some of its domain.
SumOn(f, A) == SumOver([d \in A |-> f[d]])
ProductOn(f, A) == ProductOver([d \in A |-> f[d]])

\* What characterises a sum.
LEMMA SumSteps ==
  ASSUME NEW D, IsFiniteSet(D), NEW f \in [D -> Scalar]
  PROVE  /\ SumOver(f) = SumOn(f, D) /\ SumOn(f, {}) = 0
         /\ \A A \in SUBSET D : SumOn(f, A) \in Scalar
         /\ \A A \in SUBSET D : \A y \in D \ A : SumOn(f, A \cup {y}) = Plus(f[y], SumOn(f, A))
  <1>1. f = [d \in D |-> f[d]]  OBVIOUS
  <1>2. SumOver(f) = SumOn(f, D)  BY <1>1 DEF SumOn
  <1>3. SumOn(f, {}) = 0
    <2> DEFINE g == [d \in {} |-> f[d]]
    <2>1. g \in [{} -> Scalar]  OBVIOUS
    <2> HIDE DEF g
    <2>2. Total("sum", g) = Base("sum")  BY <2>1, TotalEmpty
    <2>3. QED  BY <2>2 DEF Total, Base, SumOn, g
  <1>4. ASSUME NEW A \in SUBSET D PROVE SumOn(f, A) \in Scalar
    <2> DEFINE g == [d \in A |-> f[d]]
    <2>1. g \in [A -> Scalar]  OBVIOUS
    <2> HIDE DEF g
    <2>2. Total("sum", g) \in Scalar  BY <2>1, FS_Subset, TotalType
    <2>3. QED  BY <2>2 DEF Total, SumOn, g
  <1>5. ASSUME NEW A \in SUBSET D, NEW y \in D \ A
        PROVE  SumOn(f, A \cup {y}) = Plus(f[y], SumOn(f, A))
    <2> DEFINE g == [d \in A \cup {y} |-> f[d]]
    <2>1. g \in [A \cup {y} -> Scalar] /\ g[y] = f[y]  OBVIOUS
    <2>2. [d \in A |-> g[d]] = [d \in A |-> f[d]]  OBVIOUS
    <2> HIDE DEF g
    <2>3. IsFiniteSet(A) /\ y \notin A  BY FS_Subset
    <2>4. Total("sum", g) = Combine("sum", g[y], TotalOn("sum", g, A))
      BY <2>1, <2>3, TotalAdd
    <2>5. Total("sum", g) = Combine("sum", f[y], Total("sum", [d \in A |-> f[d]]))
      BY <2>1, <2>2, <2>4 DEF TotalOn
    <2>6. QED  BY <2>5 DEF Total, Combine, SumOn, g
  <1>6. QED  BY <1>2, <1>3, <1>4, <1>5

\* What characterises a product.
LEMMA ProductSteps ==
  ASSUME NEW D, IsFiniteSet(D), NEW f \in [D -> Scalar]
  PROVE  /\ ProductOver(f) = ProductOn(f, D) /\ ProductOn(f, {}) = 1
         /\ \A A \in SUBSET D : ProductOn(f, A) \in Scalar
         /\ \A A \in SUBSET D : \A y \in D \ A :
              ProductOn(f, A \cup {y}) = Times(f[y], ProductOn(f, A))
  <1>1. f = [d \in D |-> f[d]]  OBVIOUS
  <1>2. ProductOver(f) = ProductOn(f, D)  BY <1>1 DEF ProductOn
  <1>3. ProductOn(f, {}) = 1
    <2> DEFINE g == [d \in {} |-> f[d]]
    <2>1. g \in [{} -> Scalar]  OBVIOUS
    <2> HIDE DEF g
    <2>2. Total("product", g) = Base("product")  BY <2>1, TotalEmpty
    <2>3. QED  BY <2>2 DEF Total, Base, ProductOn, g
  <1>4. ASSUME NEW A \in SUBSET D PROVE ProductOn(f, A) \in Scalar
    <2> DEFINE g == [d \in A |-> f[d]]
    <2>1. g \in [A -> Scalar]  OBVIOUS
    <2> HIDE DEF g
    <2>2. Total("product", g) \in Scalar  BY <2>1, FS_Subset, TotalType
    <2>3. QED  BY <2>2 DEF Total, ProductOn, g
  <1>5. ASSUME NEW A \in SUBSET D, NEW y \in D \ A
        PROVE  ProductOn(f, A \cup {y}) = Times(f[y], ProductOn(f, A))
    <2> DEFINE g == [d \in A \cup {y} |-> f[d]]
    <2>1. g \in [A \cup {y} -> Scalar] /\ g[y] = f[y]  OBVIOUS
    <2>2. [d \in A |-> g[d]] = [d \in A |-> f[d]]  OBVIOUS
    <2> HIDE DEF g
    <2>3. IsFiniteSet(A) /\ y \notin A  BY FS_Subset
    <2>4. Total("product", g) = Combine("product", g[y], TotalOn("product", g, A))
      BY <2>1, <2>3, TotalAdd
    <2>5. Total("product", g) = Combine("product", f[y], Total("product", [d \in A |-> f[d]]))
      BY <2>1, <2>2, <2>4 DEF TotalOn
    <2>6. QED  BY <2>5 DEF Total, Combine, ProductOn, g
  <1>6. QED  BY <1>2, <1>3, <1>4, <1>5

\* A common factor of a sum.
LEMMA SumScale ==
  ASSUME NEW D, IsFiniteSet(D), NEW f \in [D -> Scalar], NEW g \in [D -> Scalar], NEW c \in Int,
         \A d \in D : g[d] = Times(c, f[d])
  PROVE  SumOver(g) = Times(c, SumOver(f))
  <1> DEFINE P == {A \in SUBSET D : SumOn(g, A) = Times(c, SumOn(f, A))}
  <1>1. {} \in P  BY SumSteps, PlusZero
  <1>2. ASSUME NEW A \in SUBSET D, NEW y \in D, A \in P, y \notin A PROVE A \cup {y} \in P
    <2>1. y \in D \ A  BY <1>2
    <2>2. SumOn(g, A \cup {y}) = Plus(g[y], SumOn(g, A))  BY <2>1, SumSteps
    <2>3. SumOn(f, A \cup {y}) = Plus(f[y], SumOn(f, A))  BY <2>1, SumSteps
    <2>4. f[y] \in Int /\ SumOn(f, A) \in Int  BY SumSteps, ScalarMod
    <2>5. Times(c, Plus(f[y], SumOn(f, A))) = Plus(Times(c, f[y]), Times(c, SumOn(f, A)))
      BY <2>4, Distributes
    <2>6. QED  BY <1>2, <2>2, <2>3, <2>5
  <1> HIDE DEF P
  <1>3. D \in P  BY <1>1, <1>2, SetInduct
  <1>4. QED  BY <1>3, SumSteps DEF P

\* A sum of sums.
LEMMA SumPlus ==
  ASSUME NEW D, IsFiniteSet(D), NEW f \in [D -> Scalar], NEW g \in [D -> Scalar],
         NEW h \in [D -> Scalar], \A d \in D : h[d] = Plus(f[d], g[d])
  PROVE  SumOver(h) = Plus(SumOver(f), SumOver(g))
  <1> DEFINE P == {A \in SUBSET D : SumOn(h, A) = Plus(SumOn(f, A), SumOn(g, A))}
  <1>1. {} \in P
    <2>1. 0 \in Scalar /\ Plus(0, 0) = 0  BY PlusZero, GroupAssumption DEF Scalar
    <2>2. QED  BY <2>1, SumSteps
  <1>2. ASSUME NEW A \in SUBSET D, NEW y \in D, A \in P, y \notin A PROVE A \cup {y} \in P
    <2>1. y \in D \ A  BY <1>2
    <2> DEFINE a == f[y] b == SumOn(f, A) u == g[y] v == SumOn(g, A)
    <2>2. /\ SumOn(f, A \cup {y}) = Plus(a, b)
          /\ SumOn(g, A \cup {y}) = Plus(u, v)
          /\ SumOn(h, A \cup {y}) = Plus(h[y], SumOn(h, A))
      BY <2>1, SumSteps
    <2>3. h[y] = Plus(a, u) /\ SumOn(h, A) = Plus(b, v)  BY <1>2
    <2>4. a \in Int /\ b \in Int /\ u \in Int /\ v \in Int
      BY SumSteps, ScalarMod
    <2> HIDE DEF a, b, u, v
    <2>5. Plus(Plus(a, u), Plus(b, v)) = Plus(Plus(a, b), Plus(u, v))
      <3>1. Plus(Plus(a, u), Plus(b, v)) = Plus(a, Plus(u, Plus(b, v)))
        BY <2>4, PlusAssoc, PlusTimesType
      <3>2. Plus(u, Plus(b, v)) = Plus(b, Plus(u, v))
        BY <2>4, PlusAssoc, PlusTimesType
      <3>3. Plus(Plus(a, b), Plus(u, v)) = Plus(a, Plus(b, Plus(u, v)))
        BY <2>4, PlusAssoc, PlusTimesType
      <3>4. QED  BY <3>1, <3>2, <3>3
    <2>6. QED  BY <2>2, <2>3, <2>5
  <1> HIDE DEF P
  <1>3. D \in P  BY <1>1, <1>2, SetInduct
  <1>4. QED  BY <1>3, SumSteps DEF P

-----------------------------------------------------------------------------
(***************************************************************************)
(* Lagrange coefficients.                                                  *)
(***************************************************************************)
\* The indices of participants: none is 0.
Index == 1..(Q - 1)

\* The arguments of an operation may be reduced.
LEMMA ModArguments ==
  ASSUME NEW x \in Int, NEW y \in Int
  PROVE  /\ Times(x % Q, y) = Times(x, y) /\ Times(x, y % Q) = Times(x, y)
         /\ Plus(x % Q, y) = Plus(x, y) /\ Plus(x, y % Q) = Plus(x, y)
  <1>1. x % Q \in Int /\ y % Q \in Int  BY ModRange
  <1>2. Times(x % Q, y) = Times(x, y) /\ Plus(x % Q, y) = Plus(x, y)
    BY ModTimes, ModPlus DEF Times, Plus
  <1>3. Times(y % Q, x) = Times(y, x) /\ Plus(y % Q, x) = Plus(y, x)
    BY ModTimes, ModPlus DEF Times, Plus
  <1>4. QED  BY <1>1, <1>2, <1>3, PlusTimesType

\* Minus subtracts.
LEMMA MinusIs ==
  ASSUME NEW x \in Int, NEW y \in Int
  PROVE  Minus(x, y) = (x - y) % Q /\ Minus(x, y) \in Scalar
  <1> DEFINE q == y \div Q
             r == y % Q
  <1>1. q \in Int /\ r \in Int /\ y = Q * q + r  BY ModRange
  <1> HIDE DEF q, r
  <1>2. x + Q - r = (x - y) + Q * (q + 1) /\ x + Q - r \in Int /\ x - y \in Int /\ q + 1 \in Int
    BY <1>1, GroupAssumption
  <1>3. (x + Q - r) % Q = (x - y) % Q  BY <1>2, ModSame
  <1>4. QED  BY <1>2, <1>3, ModRange DEF Minus, r

\* A scalar but 0 has an inverse.
LEMMA InverseIs ==
  ASSUME NEW x \in Scalar, x # 0
  PROVE  inverse(x) \in Scalar /\ inverse(x) # 0 /\ Times(x, inverse(x)) = 1
  <1>1. \E y \in Scalar : Times(x, y) = 1  BY FieldAssumption
  <1>2. inverse(x) \in Scalar /\ Times(x, inverse(x)) = 1  BY <1>1 DEF inverse
  <1>3. Times(x, 0) = 0  BY PlusZero, ScalarMod
  <1>4. QED  BY <1>2, <1>3

\* A factor that is not 0 may be left out of an equation.
LEMMA Cancels ==
  ASSUME NEW x \in Scalar, x # 0, NEW y \in Scalar, NEW z \in Scalar,
         Times(x, y) = Times(x, z)
  PROVE  y = z
  <1> DEFINE i == inverse(x)
  <1>1. i \in Int /\ x \in Int /\ y \in Int /\ z \in Int /\ Times(x, i) = 1
    BY InverseIs, ScalarMod
  <1> HIDE DEF i
  <1>2. Times(i, Times(x, y)) = y
    <2>1. Times(i, Times(x, y)) = Times(Times(i, x), y)  BY <1>1, TimesAssoc
    <2>2. Times(Times(i, x), y) = Times(1, y)  BY <1>1, PlusTimesType
    <2>3. Times(1, y) = y  BY <1>1, PlusZero, PlusTimesType
    <2>4. QED  BY <2>1, <2>2, <2>3
  <1>3. Times(i, Times(x, z)) = z
    <2>1. Times(i, Times(x, z)) = Times(Times(i, x), z)  BY <1>1, TimesAssoc
    <2>2. Times(Times(i, x), z) = Times(1, z)  BY <1>1, PlusTimesType
    <2>3. Times(1, z) = z  BY <1>1, PlusZero, PlusTimesType
    <2>4. QED  BY <2>1, <2>2, <2>3
  <1>4. QED  BY <1>2, <1>3

\* A product of scalars but 0 is not 0.
LEMMA NonZero ==
  ASSUME NEW x \in Scalar, x # 0, NEW y \in Scalar, y # 0
  PROVE  Times(x, y) # 0 /\ Times(x, y) \in Scalar
  <1>1. Times(x, 0) = 0 /\ 0 \in Scalar  BY PlusZero, ScalarMod, GroupAssumption DEF Scalar
  <1>2. Times(x, y) \in Scalar  BY ScalarMod, PlusTimesType
  <1>3. QED  BY <1>1, <1>2, Cancels

\* The inverse of a product.
LEMMA InverseOfProduct ==
  ASSUME NEW x \in Scalar, x # 0, NEW y \in Scalar, y # 0
  PROVE  inverse(Times(x, y)) = Times(inverse(x), inverse(y))
  <1> DEFINE i == inverse(x)
             k == inverse(y)
             p == Times(x, y)
  <1>1. /\ i \in Scalar /\ k \in Scalar /\ Times(x, i) = 1 /\ Times(y, k) = 1
        /\ p \in Scalar /\ p # 0
    BY InverseIs, NonZero
  <1>2. inverse(p) \in Scalar /\ Times(p, inverse(p)) = 1  BY <1>1, InverseIs
  <1>3. i \in Int /\ k \in Int /\ x \in Int /\ y \in Int /\ Times(i, k) \in Scalar
    BY <1>1, ScalarMod, PlusTimesType
  <1> HIDE DEF i, k
  <1>4. Times(p, Times(i, k)) = 1
    <2>1. Times(p, Times(i, k)) = Times(x, Times(y, Times(i, k)))
      BY <1>3, TimesAssoc, PlusTimesType
    <2>2. Times(y, Times(i, k)) = Times(i, Times(y, k))
      BY <1>3, TimesAssoc, PlusTimesType
    <2>3. Times(i, 1) = i  BY <1>1, <1>3, PlusZero
    <2>4. QED  BY <1>1, <2>1, <2>2, <2>3
  <1> DEFINE u == inverse(p)
             v == Times(i, k)
  <1> HIDE DEF p
  <1>5. /\ p \in Scalar /\ p # 0 /\ u \in Scalar /\ v \in Scalar
        /\ Times(p, u) = Times(p, v)
    BY <1>1, <1>2, <1>3, <1>4
  <1> HIDE DEF u, v
  <1>6. u = v  BY <1>5, Cancels
  <1>7. QED  BY <1>6 DEF u, v, i, k, p

\* The difference of two indices is not 0.
LEMMA IndexDifference ==
  ASSUME NEW i \in Index, NEW j \in Index, i # j
  PROVE  Minus(j, i) \in Scalar /\ Minus(j, i) # 0
  <1> DEFINE q == (j - i) \div Q
             r == (j - i) % Q
  <1>1. q \in Int /\ r \in Int /\ j - i = Q * q + r /\ r \in Scalar  BY ModRange DEF Index
  <1>2. Minus(j, i) = r  BY MinusIs DEF Index
  <1> HIDE DEF q, r
  <1>3. ASSUME r = 0 PROVE FALSE
    <2>1. j - i = Q * q /\ -Q < j - i /\ j - i < Q /\ j - i # 0
      BY <1>1, <1>3, GroupAssumption DEF Index
    <2>2. q >= 1 => Q * q >= Q  BY <1>1, GroupAssumption
    <2>3. q <= -1 => Q * q <= -Q  BY <1>1, GroupAssumption
    <2>4. q = 0 => Q * q = 0  BY GroupAssumption
    <2>5. QED  BY <1>1, <2>1, <2>2, <2>3, <2>4, GroupAssumption
  <1>4. QED  BY <1>1, <1>2, <1>3

\* A product of any number of scalars but 0 is not 0.
LEMMA ProductNonZero ==
  ASSUME NEW D, IsFiniteSet(D), NEW f \in [D -> Scalar], \A d \in D : f[d] # 0
  PROVE  ProductOver(f) # 0 /\ ProductOver(f) \in Scalar
  <1> DEFINE P == {A \in SUBSET D : ProductOn(f, A) # 0}
  <1>1. {} \in P  BY ProductSteps
  <1>2. ASSUME NEW A \in SUBSET D, NEW y \in D, A \in P, y \notin A PROVE A \cup {y} \in P
    <2>1. y \in D \ A  BY <1>2
    <2>2. ProductOn(f, A \cup {y}) = Times(f[y], ProductOn(f, A))  BY <2>1, ProductSteps
    <2>3. ProductOn(f, A) \in Scalar /\ ProductOn(f, A) # 0 /\ f[y] \in Scalar /\ f[y] # 0
      BY <1>2, ProductSteps
    <2>4. QED  BY <2>2, <2>3, NonZero
  <1> HIDE DEF P
  <1>3. D \in P  BY <1>1, <1>2, SetInduct
  <1>4. QED  BY <1>3, ProductSteps DEF P

\* The factors of a Lagrange coefficient.
Numerators(i, A) == [j \in A |-> j % Q]
Denominators(i, A) == [j \in A |-> Minus(j, i)]

\* Sets of indices are finite sets of scalars but 0.
LEMMA IndexIs ==
  ASSUME NEW D \in SUBSET Index
  PROVE  IsFiniteSet(D) /\ \A i \in D : i \in Int /\ i % Q = i /\ i \in Scalar /\ i # 0
  <1>1. IsFiniteSet(Index)
    BY FS_Interval, GroupAssumption DEF Index
  <1>2. \A i \in Index : i \in Scalar /\ i \in Int /\ i # 0
    BY GroupAssumption DEF Index, Scalar
  <1>3. QED  BY <1>1, <1>2, FS_Subset, ScalarMod

\* The factors are scalars but 0.
LEMMA FactorsType ==
  ASSUME NEW D \in SUBSET Index, NEW i \in Index, i \notin D
  PROVE  /\ IsFiniteSet(D)
         /\ Numerators(i, D) \in [D -> Scalar] /\ Denominators(i, D) \in [D -> Scalar]
         /\ \A j \in D : Numerators(i, D)[j] = j /\ Denominators(i, D)[j] = Minus(j, i)
         /\ \A j \in D : j # 0 /\ Minus(j, i) # 0
  <1>1. \A j \in D : j % Q = j /\ j \in Scalar /\ j # 0 /\ j \in Index /\ j # i  BY IndexIs
  <1>2. \A j \in D : Minus(j, i) \in Scalar /\ Minus(j, i) # 0  BY <1>1, IndexDifference
  <1>3. QED  BY <1>1, <1>2, IndexIs DEF Numerators, Denominators

\* A Lagrange coefficient is a scalar.
LEMMA CoefficientIs ==
  ASSUME NEW D \in SUBSET Index, NEW i \in D
  PROVE  LET A == D \ {i}
             num == ProductOver(Numerators(i, A))
             den == ProductOver(Denominators(i, A))
         IN /\ num \in Scalar /\ den \in Scalar /\ num # 0 /\ den # 0
            /\ calculate_lagrange_coefficients(i, D) = Times(num, inverse(den))
            /\ calculate_lagrange_coefficients(i, D) \in Scalar
            /\ calculate_lagrange_coefficients(i, D) \in Int
  <1> DEFINE A == D \ {i}
             num == ProductOver(Numerators(i, A))
             den == ProductOver(Denominators(i, A))
  <1>1. A \in SUBSET Index /\ i \in Index /\ i \notin A  OBVIOUS
  <1>2. calculate_lagrange_coefficients(i, D) = Times(num, inverse(den))
    BY DEF calculate_lagrange_coefficients, Numerators, Denominators
  <1> HIDE DEF A
  <1>3. /\ IsFiniteSet(A)
        /\ Numerators(i, A) \in [A -> Scalar] /\ Denominators(i, A) \in [A -> Scalar]
        /\ \A j \in A : Numerators(i, A)[j] # 0 /\ Denominators(i, A)[j] # 0
    BY <1>1, FactorsType
  <1>4. num \in Scalar /\ den \in Scalar /\ num # 0 /\ den # 0
    BY <1>3, ProductNonZero
  <1> HIDE DEF num, den
  <1>5. inverse(den) \in Int /\ num \in Int  BY <1>4, InverseIs, ScalarMod
  <1>6. Times(num, inverse(den)) \in Scalar  BY <1>5, PlusTimesType
  <1>7. QED  BY <1>2, <1>4, <1>6, ScalarMod DEF num, den, A

\* With one more index, both products have one more factor.
LEMMA ProductsAdd ==
  ASSUME NEW A \in SUBSET Index, NEW i \in Index, i \notin A,
         NEW e \in Index, e \notin A, e # i
  PROVE  /\ ProductOver(Numerators(i, A \cup {e})) = Times(e, ProductOver(Numerators(i, A)))
         /\ ProductOver(Denominators(i, A \cup {e})) =
              Times(Minus(e, i), ProductOver(Denominators(i, A)))
  <1> DEFINE B == A \cup {e}
             f == Numerators(i, B)
             g == Denominators(i, B)
  <1>1. B \in SUBSET Index /\ i \notin B /\ A \in SUBSET B /\ e \in B \ A /\ A \cup {e} = B
    OBVIOUS
  <1>2. [d \in A |-> f[d]] = Numerators(i, A)  BY DEF Numerators
  <1>3. [d \in A |-> g[d]] = Denominators(i, A)  BY DEF Denominators
  <1>4. f[e] = e /\ g[e] = Minus(e, i)
    <2>1. f[e] = e % Q /\ g[e] = Minus(e, i)  BY DEF Numerators, Denominators
    <2>2. e \in {e} /\ {e} \in SUBSET Index  OBVIOUS
    <2>3. QED  BY <2>1, <2>2, IndexIs
  <1> HIDE DEF B, f, g
  <1>5. IsFiniteSet(B) /\ f \in [B -> Scalar] /\ g \in [B -> Scalar]
    BY <1>1, FactorsType DEF f, g
  <1>6. /\ ProductOver(f) = ProductOn(f, B)
        /\ ProductOn(f, A \cup {e}) = Times(f[e], ProductOn(f, A))
    BY <1>1, <1>5, ProductSteps
  <1>7. /\ ProductOver(g) = ProductOn(g, B)
        /\ ProductOn(g, A \cup {e}) = Times(g[e], ProductOn(g, A))
    BY <1>1, <1>5, ProductSteps
  <1>8. /\ ProductOn(f, A) = ProductOver(Numerators(i, A))
        /\ ProductOn(g, A) = ProductOver(Denominators(i, A))
    BY <1>2, <1>3 DEF ProductOn
  <1>9. ProductOver(f) = Times(e, ProductOver(Numerators(i, A)))
        /\ ProductOver(g) = Times(Minus(e, i), ProductOver(Denominators(i, A)))
    BY <1>1, <1>4, <1>6, <1>7, <1>8
  <1>10. QED  BY <1>9 DEF f, g, B

\* Multiplied by the difference to another index, a coefficient is that without the index,
\* but for a factor that is the same for all.
LEMMA CoefficientWithout ==
  ASSUME NEW D \in SUBSET Index, NEW i \in D, NEW e \in D, e # i
  PROVE  Times(i - e, calculate_lagrange_coefficients(i, D))
           = Times(-e, calculate_lagrange_coefficients(i, D \ {e}))
  <1> DEFINE A == D \ {e, i}
             num == ProductOver(Numerators(i, A))
             den == ProductOver(Denominators(i, A))
             m == Minus(e, i)
             k == inverse(den)
             l == inverse(m)
  <1>1. A \in SUBSET Index /\ i \in Index /\ i \notin A /\ e \in Index /\ e \notin A
        /\ D \ {i} = A \cup {e} /\ (D \ {e}) \ {i} = A
        /\ i \in D \ {e} /\ D \ {e} \in SUBSET Index
    OBVIOUS
  <1>2. calculate_lagrange_coefficients(i, D \ {e}) = Times(num, k)
        /\ num \in Scalar /\ den \in Scalar /\ num # 0 /\ den # 0
    BY <1>1, CoefficientIs
  <1>3. m \in Scalar /\ m # 0 /\ m = (e - i) % Q
    <2>1. e \in Int /\ i \in Int  BY <1>1 DEF Index
    <2>2. QED  BY <1>1, <2>1, IndexDifference, MinusIs
  <1> HIDE DEF A, num, den, m
  <1>4. ProductOver(Numerators(i, D \ {i})) = Times(e, num)
        /\ ProductOver(Denominators(i, D \ {i})) = Times(m, den)
    BY <1>1, ProductsAdd DEF num, den, m
  <1>5. calculate_lagrange_coefficients(i, D) = Times(Times(e, num), inverse(Times(m, den)))
    BY <1>4, CoefficientIs
  <1>6. inverse(Times(m, den)) = Times(l, k)  BY <1>2, <1>3, InverseOfProduct
  <1>7. /\ e \in Int /\ i \in Int /\ num \in Int /\ l \in Int /\ k \in Int /\ m \in Int
        /\ Times(m, l) = 1
    <2>1. l \in Scalar /\ k \in Scalar /\ Times(m, l) = 1  BY <1>2, <1>3, InverseIs
    <2>2. e \in Int /\ i \in Int  BY <1>1 DEF Index
    <2>3. \A x \in Scalar : x \in Int  BY ScalarMod
    <2> HIDE DEF k, l
    <2>4. num \in Int /\ m \in Int /\ l \in Int /\ k \in Int  BY <1>2, <1>3, <2>1, <2>3
    <2>5. QED  BY <2>1, <2>2, <2>4
  <1> HIDE DEF k, l
  <1> DEFINE u == Times(num, k)
  <1>8. u \in Int  BY <1>7, PlusTimesType
  <1>9. Times(Times(e, num), Times(l, k)) = Times(l, Times(e, u))
    <2>1. Times(Times(e, num), Times(l, k)) = Times(e, Times(num, Times(l, k)))
      <3> DEFINE v == Times(l, k)
      <3>1. v \in Int  BY <1>7, PlusTimesType
      <3> HIDE DEF v
      <3>2. Times(Times(e, num), v) = Times(e, Times(num, v))  BY <1>7, <3>1, TimesAssoc
      <3>3. QED  BY <3>2 DEF v
    <2>2. Times(num, Times(l, k)) = Times(l, u)  BY <1>7, TimesSwap
    <2> HIDE DEF u
    <2>3. Times(e, Times(l, u)) = Times(l, Times(e, u))
      BY <1>7, <1>8, TimesAssoc, PlusTimesType
    <2>4. QED  BY <2>1, <2>2, <2>3
  <1> HIDE DEF u
  <1>10. Times(i - e, l) = (-1) % Q
    <2>1. Times(m, l) = Times(e - i, l)  BY <1>3, <1>7, ModArguments
    <2>2. Times(e - i, l) = 1  BY <1>7, <2>1
    <2>3. Times(i - e, l) = Times(-1, Times(e - i, l))
      <3>1. Times(-1, Times(e - i, l)) = Times(Times(-1, e - i), l)
        BY <1>7, TimesAssoc
      <3>2. Times(-1, e - i) = (i - e) % Q  BY <1>7 DEF Times
      <3>3. Times((i - e) % Q, l) = Times(i - e, l)  BY <1>7, ModArguments
      <3>4. QED  BY <3>1, <3>2, <3>3
    <2>4. QED  BY <2>2, <2>3, PlusZero
  <1>11. Times(i - e, Times(l, Times(e, u))) = Times(-e, u)
    <2> DEFINE v == Times(e, u)
    <2>1. v \in Int /\ i - e \in Int /\ -1 \in Int  BY <1>7, <1>8, PlusTimesType
    <2>2. Times(i - e, Times(l, v)) = Times((-1) % Q, v)
      <3> HIDE DEF v
      <3>1. QED  BY <1>7, <1>10, <2>1, TimesAssoc
    <2>3. Times((-1) % Q, v) = Times(-1, v)
      <3> HIDE DEF v
      <3>1. QED  BY <2>1, ModArguments
    <2>4. Times(-1, v) = Times(Times(-1, e), u)  BY <1>7, <1>8, <2>1, TimesAssoc
    <2>5. Times(-1, e) = (-e) % Q  BY <1>7 DEF Times
    <2>6. Times((-e) % Q, u) = Times(-e, u)  BY <1>7, <1>8, ModArguments
    <2>7. QED  BY <2>2, <2>3, <2>4, <2>5, <2>6
  <1>12. QED  BY <1>2, <1>5, <1>6, <1>9, <1>11 DEF u

-----------------------------------------------------------------------------
(***************************************************************************)
(* Interpolation at 0, by induction on the coefficients: what follows the  *)
(* first one is multiplied by the index, and counts nothing at 0.          *)
(***************************************************************************)
\* What is interpolated at 0 from the values of f at D.
Weighted(f, D) == [d \in D |-> Times(f[d], calculate_lagrange_coefficients(d, D))]
Interpolated(f, D) == SumOver(Weighted(f, D))

\* What is interpolated is a scalar.
LEMMA WeightedType ==
  ASSUME NEW D \in SUBSET Index, NEW f, \A d \in D : f[d] \in Scalar
  PROVE  /\ IsFiniteSet(D) /\ Weighted(f, D) \in [D -> Scalar]
         /\ Interpolated(f, D) \in Scalar /\ Interpolated(f, D) \in Int
         /\ \A d \in D : /\ Weighted(f, D)[d] = Times(f[d], calculate_lagrange_coefficients(d, D))
                         /\ calculate_lagrange_coefficients(d, D) \in Int
                         /\ f[d] \in Int
  <1>1. \A d \in D : calculate_lagrange_coefficients(d, D) \in Int  BY CoefficientIs
  <1>2. \A d \in D : f[d] \in Int  BY ScalarMod
  <1>3. \A d \in D : Times(f[d], calculate_lagrange_coefficients(d, D)) \in Scalar
    BY <1>1, <1>2, PlusTimesType
  <1>4. IsFiniteSet(D)  BY IndexIs
  <1>5. Weighted(f, D) \in [D -> Scalar]  BY <1>3 DEF Weighted
  <1>6. SumOver(Weighted(f, D)) \in Scalar
    <2> DEFINE w == Weighted(f, D)
    <2> HIDE DEF w
    <2>1. SumOver(w) = SumOn(w, D) /\ SumOn(w, D) \in Scalar
      BY <1>4, <1>5, SumSteps DEF w
    <2>2. QED  BY <2>1 DEF w
  <1>7. Interpolated(f, D) \in Scalar  BY <1>6 DEF Interpolated
  <1>8. QED  BY <1>1, <1>2, <1>4, <1>5, <1>7, ScalarMod DEF Weighted

\* The interpolation of a sum is the sum of the interpolations.
LEMMA InterpolatedPlus ==
  ASSUME NEW D \in SUBSET Index, NEW f, NEW g, NEW h,
         \A d \in D : f[d] \in Scalar /\ g[d] \in Scalar /\ h[d] = Plus(f[d], g[d])
  PROVE  Interpolated(h, D) = Plus(Interpolated(f, D), Interpolated(g, D))
  <1> DEFINE u == Weighted(f, D)
             v == Weighted(g, D)
             w == Weighted(h, D)
  <1>1. \A d \in D : h[d] \in Scalar
    <2> TAKE d \in D
    <2>1. f[d] \in Int /\ g[d] \in Int  BY ScalarMod
    <2>2. QED  BY <2>1, PlusTimesType
  <1>2. IsFiniteSet(D) /\ u \in [D -> Scalar] /\ v \in [D -> Scalar] /\ w \in [D -> Scalar]
    BY <1>1, WeightedType
  <1>3. ASSUME NEW d \in D PROVE w[d] = Plus(u[d], v[d])
    <2> DEFINE l == calculate_lagrange_coefficients(d, D)
    <2>1. /\ u[d] = Times(f[d], l) /\ v[d] = Times(g[d], l) /\ w[d] = Times(h[d], l)
          /\ l \in Int /\ f[d] \in Int /\ g[d] \in Int /\ h[d] = Plus(f[d], g[d])
      BY <1>1, WeightedType
    <2> HIDE DEF l, u, v, w
    <2>2. Times(Plus(f[d], g[d]), l) = Plus(Times(f[d], l), Times(g[d], l))
      BY <2>1, TimesSwap
    <2>3. QED  BY <2>1, <2>2
  <1> HIDE DEF u, v, w
  <1>4. SumOver(w) = Plus(SumOver(u), SumOver(v))  BY <1>2, <1>3, SumPlus
  <1>5. QED  BY <1>4 DEF Interpolated, u, v, w

\* A factor of all values is one of the interpolation.
LEMMA InterpolatedTimes ==
  ASSUME NEW D \in SUBSET Index, NEW f, NEW h, NEW c \in Int,
         \A d \in D : f[d] \in Scalar /\ h[d] = Times(c, f[d])
  PROVE  Interpolated(h, D) = Times(c, Interpolated(f, D))
  <1> DEFINE u == Weighted(f, D)
             w == Weighted(h, D)
  <1>1. \A d \in D : h[d] \in Scalar
    <2> TAKE d \in D
    <2>1. f[d] \in Int  BY ScalarMod
    <2>2. QED  BY <2>1, PlusTimesType
  <1>2. IsFiniteSet(D) /\ u \in [D -> Scalar] /\ w \in [D -> Scalar]
    BY <1>1, WeightedType
  <1>3. ASSUME NEW d \in D PROVE w[d] = Times(c, u[d])
    <2> DEFINE l == calculate_lagrange_coefficients(d, D)
    <2>1. /\ u[d] = Times(f[d], l) /\ w[d] = Times(h[d], l)
          /\ l \in Int /\ f[d] \in Int /\ h[d] = Times(c, f[d])
      BY <1>1, WeightedType
    <2> HIDE DEF l, u, w
    <2>2. Times(Times(c, f[d]), l) = Times(c, Times(f[d], l))
      BY <2>1, TimesAssoc
    <2>3. QED  BY <2>1, <2>2
  <1> HIDE DEF u, w
  <1>4. SumOver(w) = Times(c, SumOver(u))  BY <1>2, <1>3, SumScale
  <1>5. QED  BY <1>4 DEF Interpolated, u, w

\* One index less, for a function that is zero there.
LEMMA InterpolatedWithout ==
  ASSUME NEW D \in SUBSET Index, NEW e \in D, NEW f, NEW h,
         \A d \in D : f[d] \in Scalar /\ h[d] = Times(d - e, f[d])
  PROVE  Interpolated(h, D) = Times(-e, Interpolated(f, D \ {e}))
  <1> DEFINE A == D \ {e}
             w == Weighted(h, D)
             u == Weighted(f, A)
             v == [d \in A |-> w[d]]
  <1>1. A \in SUBSET Index /\ A \in SUBSET D /\ e \in D \ A /\ A \cup {e} = D  OBVIOUS
  <1>2. \A d \in D : d \in Int /\ e \in Int  BY DEF Index
  <1>3. \A d \in D : h[d] \in Scalar
    <2> TAKE d \in D
    <2>1. d - e \in Int /\ f[d] \in Int  BY <1>2, ScalarMod
    <2>2. QED  BY <2>1, PlusTimesType
  <1>4. IsFiniteSet(D) /\ w \in [D -> Scalar] /\ IsFiniteSet(A) /\ u \in [A -> Scalar]
    BY <1>1, <1>3, WeightedType
  <1>5. w[e] = 0
    <2>1. /\ w[e] = Times(h[e], calculate_lagrange_coefficients(e, D))
          /\ calculate_lagrange_coefficients(e, D) \in Int
      BY <1>3, WeightedType
    <2>2. h[e] = Times(0, f[e]) /\ f[e] \in Int
      <3>1. e - e = 0  BY <1>2
      <3>2. QED  BY <3>1, ScalarMod
    <2>3. h[e] = 0
      <3>1. Times(0, f[e]) = 0  BY <2>2, PlusZero
      <3>2. QED  BY <2>2, <3>1
    <2> HIDE DEF w
    <2>4. QED  BY <2>1, <2>3, PlusZero, PlusTimesType
  <1>6. ASSUME NEW d \in A PROVE w[d] = Times(-e, u[d])
    <2> DEFINE l == calculate_lagrange_coefficients(d, D)
               k == calculate_lagrange_coefficients(d, A)
    <2>1. d \in D /\ d # e  BY <1>1
    <2>2. /\ w[d] = Times(h[d], l) /\ h[d] = Times(d - e, f[d]) /\ l \in Int /\ f[d] \in Int
      BY <1>3, <2>1, WeightedType
    <2>3. u[d] = Times(f[d], k) /\ k \in Int
      BY <1>1, WeightedType
    <2>4. Times(d - e, l) = Times(-e, k)  BY <2>1, CoefficientWithout
    <2>5. d - e \in Int /\ -e \in Int  BY <1>2, <2>1
    <2> HIDE DEF l, k, w, u
    <2> DEFINE x == d - e
               y == -e
               z == f[d]
    <2>6. x \in Int /\ y \in Int /\ z \in Int  BY <2>2, <2>5
    <2> HIDE DEF x, y, z
    <2>7. Times(Times(x, z), l) = Times(z, Times(x, l))
      BY <2>2, <2>6, TimesSwap
    <2>8. Times(z, Times(y, k)) = Times(y, Times(z, k))
      BY <2>3, <2>6, TimesSwap
    <2> USE DEF x, y, z
    <2>9. QED  BY <2>2, <2>3, <2>4, <2>7, <2>8
  <1>7. v \in [A -> Scalar] /\ \A d \in A : v[d] = Times(-e, u[d])
    BY <1>1, <1>4, <1>6
  <1>8. SumOver(w) = SumOver(v)
    <2> HIDE DEF w, A
    <2>1. SumOver(w) = SumOn(w, D) /\ SumOn(w, A) \in Scalar
          /\ SumOn(w, A \cup {e}) = Plus(w[e], SumOn(w, A))
      BY <1>1, <1>4, SumSteps
    <2>2. Plus(0, SumOn(w, A)) = SumOn(w, A)
      <3>1. SumOn(w, A) \in Int  BY <2>1, ScalarMod
      <3>2. QED  BY <2>1, <3>1, PlusZero, PlusTimesType
    <2>3. QED  BY <1>1, <1>5, <2>1, <2>2 DEF SumOn
  <1> HIDE DEF A, u, v, w
  <1>9. -e \in Int  BY <1>2
  <1>10. SumOver(v) = Times(-e, SumOver(u))
    BY <1>4, <1>7, <1>9, SumScale
  <1>11. QED  BY <1>8, <1>10 DEF Interpolated, u, w, A

\* The interpolation of the values multiplied by their indices.
LEMMA InterpolatedIndex ==
  ASSUME NEW D \in SUBSET Index, NEW e \in D, NEW f, NEW h,
         \A d \in D : f[d] \in Scalar /\ h[d] = Times(d, f[d])
  PROVE  Interpolated(h, D)
           = Plus(Times(-e, Interpolated(f, D \ {e})), Times(e, Interpolated(f, D)))
  <1> DEFINE a == [d \in D |-> Times(d - e, f[d])]
             b == [d \in D |-> Times(e, f[d])]
  <1>1. \A d \in D : d \in Int /\ e \in Int /\ d - e \in Int /\ f[d] \in Int
    BY ScalarMod DEF Index
  <1>2. \A d \in D : a[d] \in Scalar /\ b[d] \in Scalar  BY <1>1, PlusTimesType
  <1>3. ASSUME NEW d \in D PROVE h[d] = Plus(a[d], b[d])
    <2>1. Times(f[d], Plus(d - e, e)) = Plus(Times(f[d], d - e), Times(f[d], e))
      BY <1>1, Distributes
    <2>2. Plus(d - e, e) = d % Q
      <3>1. (d - e) + e = d  BY <1>1
      <3>2. QED  BY <3>1 DEF Plus
    <2>3. Times(f[d], d % Q) = Times(f[d], d)  BY <1>1, ModArguments
    <2>4. /\ Times(f[d], d) = Times(d, f[d])
          /\ Times(f[d], d - e) = Times(d - e, f[d]) /\ Times(f[d], e) = Times(e, f[d])
      BY <1>1, PlusTimesType
    <2>5. QED  BY <2>1, <2>2, <2>3, <2>4
  <1>4. \A d \in D : a[d] = Times(d - e, f[d]) /\ b[d] = Times(e, f[d])  OBVIOUS
  <1> HIDE DEF a, b
  <1>5. Interpolated(h, D) = Plus(Interpolated(a, D), Interpolated(b, D))
    BY <1>2, <1>3, InterpolatedPlus
  <1>6. Interpolated(a, D) = Times(-e, Interpolated(f, D \ {e}))
    BY <1>4, InterpolatedWithout
  <1>7. Interpolated(b, D) = Times(e, Interpolated(f, D))
    BY <1>1, <1>4, InterpolatedTimes
  <1>8. QED  BY <1>5, <1>6, <1>7

\* Opposites cancel.
LEMMA PlusCancels ==
  ASSUME NEW x \in Scalar, NEW e \in Int
  PROVE  Plus(Times(-e, x), Times(e, x)) = 0
  <1>1. x \in Int /\ -e \in Int  BY ScalarMod
  <1>2. Plus(Times(-e, x), Times(e, x)) = Times(Plus(-e, e), x)  BY <1>1, TimesSwap
  <1>3. Plus(-e, e) = 0 % Q
    <2>1. -e + e = 0  OBVIOUS
    <2>2. QED  BY <2>1 DEF Plus
  <1>4. Times(0 % Q, x) = Times(0, x)  BY <1>1, ModArguments
  <1>5. QED  BY <1>1, <1>2, <1>3, <1>4, PlusZero

\* A constant is interpolated from one value.
LEMMA InterpolatedSingle ==
  ASSUME NEW y \in Index, NEW f, f[y] \in Scalar
  PROVE  Interpolated(f, {y}) = f[y]
  <1> DEFINE E == {y}
             num == Numerators(y, E \ {y})
             den == Denominators(y, E \ {y})
             w == Weighted(f, E)
  <1>1. E \in SUBSET Index /\ y \in E /\ {} \in SUBSET E /\ y \in E \ {} /\ {} \cup {y} = E
        /\ \A d \in E : d = y
    OBVIOUS
  <1>2. num \in [{} -> Scalar] /\ den \in [{} -> Scalar]
    <2>1. E \ {y} = {}  OBVIOUS
    <2>2. QED  BY <2>1 DEF Numerators, Denominators
  <1>3. calculate_lagrange_coefficients(y, E) = Times(ProductOver(num), inverse(ProductOver(den)))
    BY DEF calculate_lagrange_coefficients, Numerators, Denominators
  <1> HIDE DEF num, den, E
  <1>4. ProductOver(num) = 1 /\ ProductOver(den) = 1
    <2>1. Total("product", num) = Base("product") /\ Total("product", den) = Base("product")
      BY <1>2, TotalEmpty
    <2>2. QED  BY <2>1 DEF Total, Base
  <1>5. 1 \in Scalar /\ inverse(1) \in Scalar /\ Times(1, inverse(1)) = 1
    <2>1. 1 \in Scalar  BY GroupAssumption DEF Scalar
    <2>2. QED  BY <2>1, InverseIs
  <1>6. calculate_lagrange_coefficients(y, E) = 1  BY <1>3, <1>4, <1>5
  <1>7. \A d \in E : f[d] \in Scalar  BY <1>1
  <1>8. w \in [E -> Scalar] /\ w[y] = Times(f[y], 1) /\ IsFiniteSet(E)
    BY <1>1, <1>6, <1>7, WeightedType
  <1>9. f[y] \in Int /\ Times(f[y], 1) = f[y]  BY PlusZero, ScalarMod
  <1> HIDE DEF w
  <1>10. SumOver(w) = SumOn(w, E) /\ SumOn(w, {}) = 0
         /\ SumOn(w, {} \cup {y}) = Plus(w[y], SumOn(w, {}))
    BY <1>1, <1>8, SumSteps
  <1>11. SumOver(w) = Plus(f[y], 0)  BY <1>1, <1>8, <1>9, <1>10
  <1>12. SumOver(w) = f[y]  BY <1>9, <1>11, PlusZero
  <1>13. QED  BY <1>12 DEF w, E, Interpolated

\* A constant is interpolated from the values at D if it is without x and without y.
LEMMA InterpolatedBoth ==
  ASSUME NEW D \in SUBSET Index, NEW x \in D, NEW y \in D, x # y,
         NEW one, \A d \in D : one[d] = 1,
         Interpolated(one, D \ {x}) = 1, Interpolated(one, D \ {y}) = 1
  PROVE  Interpolated(one, D) = 1
  <1> DEFINE s == Interpolated(one, D)
             id == [d \in D |-> Times(d, one[d])]
             m == Minus(x, y)
  <1>1. 1 \in Scalar /\ x \in Int /\ y \in Int /\ -x \in Int /\ -y \in Int
    BY GroupAssumption DEF Scalar, Index
  <1>2. \A d \in D : one[d] \in Scalar /\ id[d] = Times(d, one[d])  BY <1>1
  <1>3. s \in Scalar /\ s \in Int  BY <1>2, WeightedType
  <1> HIDE DEF id
  <1>4. Interpolated(id, D) = Plus(Times(-x, 1), Times(x, s))
    BY <1>2, InterpolatedIndex
  <1>5. Interpolated(id, D) = Plus(Times(-y, 1), Times(y, s))
    BY <1>2, InterpolatedIndex
  <1> HIDE DEF s
  <1>6. Times(x - y, s) = Times(x - y, 1)
    <2>1. Plus(Times(-x, 1), Times(x, s)) = (x * s - x) % Q
      <3>1. Times(-x, 1) = (-x) % Q  BY <1>1, PlusZero
      <3>2. x * s \in Int  BY <1>1, <1>3
      <3>3. Plus((-x) % Q, (x * s) % Q) = Plus(-x, x * s)
        BY <1>1, <3>2, ModArguments, ModRange
      <3>4. -x + x * s = x * s - x  BY <1>1, <3>2
      <3>5. QED  BY <3>1, <3>3, <3>4 DEF Times, Plus
    <2>2. Plus(Times(-y, 1), Times(y, s)) = (y * s - y) % Q
      <3>1. Times(-y, 1) = (-y) % Q  BY <1>1, PlusZero
      <3>2. y * s \in Int  BY <1>1, <1>3
      <3>3. Plus((-y) % Q, (y * s) % Q) = Plus(-y, y * s)
        BY <1>1, <3>2, ModArguments, ModRange
      <3>4. -y + y * s = y * s - y  BY <1>1, <3>2
      <3>5. QED  BY <3>1, <3>3, <3>4 DEF Times, Plus
    <2> DEFINE a == x * s - x
               b == y * s - y
               p == x - y
    <2>3. a \in Int /\ b \in Int /\ a % Q = b % Q  BY <1>1, <1>3, <1>4, <1>5, <2>1, <2>2
    <2>4. p * s = p + (a - b) /\ p \in Int  BY <1>1, <1>3
    <2> HIDE DEF a, b, p
    <2>5. PICK k \in Int : a - b = Q * k
      <3> DEFINE k == (a \div Q) - (b \div Q)
      <3>1. /\ a \div Q \in Int /\ a = Q * (a \div Q) + (a % Q)
            /\ b \div Q \in Int /\ b = Q * (b \div Q) + (b % Q)
        BY <2>3, ModRange
      <3>2. k \in Int /\ a - b = Q * k
        <4> DEFINE u == a \div Q
                   v == b \div Q
                   r == a % Q
        <4>1. u \in Int /\ v \in Int /\ r \in Int /\ a = Q * u + r /\ b = Q * v + r
          BY <2>3, <3>1, ModRange
        <4> HIDE DEF u, v, r
        <4>2. a - b = Q * (u - v)  BY <4>1, GroupAssumption
        <4>3. QED  BY <4>1, <4>2 DEF u, v
      <3>3. QED  BY <3>2
    <2>6. p * s = p * 1 + Q * k /\ p * s \in Int /\ p * 1 \in Int
      BY <1>3, <2>3, <2>4, <2>5
    <2>7. (p * s) % Q = (p * 1) % Q  BY <2>6, ModSame
    <2>8. QED  BY <2>7 DEF Times, p
  <1>7. m \in Scalar /\ m # 0 /\ m = (x - y) % Q
    <2>1. x \in Index /\ y \in Index  OBVIOUS
    <2>2. QED  BY <1>1, <2>1, IndexDifference, MinusIs
  <1>8. Times(m, s) = Times(m, 1)
    <2>1. x - y \in Int  BY <1>1
    <2>2. QED  BY <1>3, <1>6, <1>7, <2>1, ModArguments
  <1> HIDE DEF m
  <1>9. s = 1  BY <1>1, <1>3, <1>7, <1>8, Cancels
  <1>10. QED  BY <1>9 DEF s

\* A constant is interpolated from any number of values.
LEMMA InterpolatedOne ==
  ASSUME NEW D \in SUBSET Index, D # {}, NEW one, \A d \in Index : one[d] = 1
  PROVE  Interpolated(one, D) = 1
  <1> DEFINE P == {n \in Nat : \A A \in SUBSET Index :
                               Cardinality(A) = n + 1 => Interpolated(one, A) = 1}
  <1>1. 0 \in P
    <2>1. ASSUME NEW A \in SUBSET Index, Cardinality(A) = 1 PROVE Interpolated(one, A) = 1
      <3>1. PICK y : A = {y}  BY <2>1, IndexIs, FS_Singleton
      <3>2. y \in Index /\ one[y] = 1 /\ 1 \in Scalar
        BY <3>1, GroupAssumption DEF Scalar
      <3>3. QED  BY <3>1, <3>2, InterpolatedSingle
    <2>2. QED  BY <2>1
  <1>2. ASSUME NEW n \in P PROVE n + 1 \in P
    <2>1. ASSUME NEW A \in SUBSET Index, Cardinality(A) = (n + 1) + 1
          PROVE  Interpolated(one, A) = 1
      <3>1. n \in Nat /\ \A B \in SUBSET Index : Cardinality(B) = n + 1 =>
              Interpolated(one, B) = 1
        OBVIOUS
      <3> HIDE DEF P
      <3>2. IsFiniteSet(A)  BY IndexIs
      <3>3. A # {}
        <4>1. Cardinality({}) = 0  BY FS_EmptySet
        <4>2. (n + 1) + 1 # 0  BY <3>1
        <4>3. QED  BY <2>1, <4>1, <4>2
      <3>4. PICK x \in A : TRUE  BY <3>3
      <3>5. Cardinality(A \ {x}) = n + 1
        <4>1. Cardinality(A \ {x}) = Cardinality(A) - 1  BY <3>2, FS_RemoveElement
        <4>2. QED  BY <2>1, <3>1, <4>1
      <3>6. A \ {x} # {}
        <4>1. Cardinality({}) = 0  BY FS_EmptySet
        <4>2. n + 1 # 0  BY <3>1
        <4>3. QED  BY <3>5, <4>1, <4>2
      <3>7. PICK y \in A : y # x  BY <3>6
      <3>8. Cardinality(A \ {y}) = n + 1
        <4>1. Cardinality(A \ {y}) = Cardinality(A) - 1  BY <3>2, FS_RemoveElement
        <4>2. QED  BY <2>1, <3>1, <4>1
      <3>9. A \ {x} \in SUBSET Index /\ A \ {y} \in SUBSET Index  OBVIOUS
      <3>10. Interpolated(one, A \ {x}) = 1 /\ Interpolated(one, A \ {y}) = 1
        BY <3>1, <3>5, <3>8, <3>9
      <3>11. QED  BY <3>7, <3>10, InterpolatedBoth
    <2>2. QED  BY <2>1
  <1>3. P = Nat
    <2>1. P \subseteq Nat  OBVIOUS
    <2> HIDE DEF P
    <2>2. QED  BY <1>1, <1>2, <2>1, NatInduct
  <1>4. Cardinality(D) \in Nat /\ Cardinality(D) # 0  BY IndexIs, FS_CardinalityType, FS_EmptySet
  <1>5. Cardinality(D) - 1 \in P /\ (Cardinality(D) - 1) + 1 = Cardinality(D)
    <2>1. Cardinality(D) - 1 \in Nat /\ (Cardinality(D) - 1) + 1 = Cardinality(D)  BY <1>4
    <2>2. QED  BY <1>3, <2>1
  <1>6. QED  BY <1>5

\* The value at 0 is the first coefficient, the secret.
LEMMA HornerAtZero ==
  ASSUME NEW c \in Seq(Scalar), c # <<>>
  PROVE  Horner(c, 0) = c[1]
  <1>1. /\ Horner(c, 0) = Plus(c[1], Times(0, Horner(Tail(c), 0))) /\ c[1] \in Scalar
        /\ Horner(Tail(c), 0) \in Scalar
    BY HornerRest
  <1> DEFINE h == Horner(Tail(c), 0)
  <1>2. h \in Int /\ c[1] \in Int  BY <1>1, ScalarMod
  <1> HIDE DEF h
  <1>3. Times(0, h) = 0 /\ Plus(c[1], 0) = c[1]  BY <1>1, <1>2, PlusZero
  <1>4. QED  BY <1>1, <1>3 DEF h

\* The values of a polynomial.
Polynomial(c) == [d \in Index |-> Horner(c, d)]

\* The value at 0 of a polynomial is interpolated from its values at any set of indices that is
\* no smaller than the number of its coefficients: calculate_lagrange_coefficients recovers
\* a secret from enough shares.
THEOREM PolynomialInterpolated ==
  ASSUME NEW c \in Seq(Scalar), NEW D \in SUBSET Index, D # {}, Len(c) <= Cardinality(D)
  PROVE  Interpolated(Polynomial(c), D) = Horner(c, 0)
  <1> DEFINE Enough(b) == {E \in SUBSET Index : E # {} /\ Len(b) <= Cardinality(E)}
             P == {b \in Seq(Scalar) :
                     \A E \in Enough(b) : Interpolated(Polynomial(b), E) = Horner(b, 0)}
  <1>1. /\ \A x \in Index : x \in Int
        /\ \A b \in Seq(Scalar) : \A d \in Index :
             Polynomial(b)[d] = Horner(b, d) /\ Horner(b, d) \in Scalar
    <2>1. \A x \in Index : x \in Int  BY DEF Index
    <2>2. \A b \in Seq(Scalar) : \A d \in Index : Horner(b, d) \in Scalar  BY <2>1, HornerType
    <2>3. QED  BY <2>1, <2>2 DEF Polynomial
  <1>2. <<>> \in P
    <2>1. ASSUME NEW E \in SUBSET Index PROVE Interpolated(Polynomial(<<>>), E) = 0
      <3> DEFINE f == Polynomial(<<>>)
      <3>1. \A d \in E : f[d] = 0 /\ 0 \in Scalar
        BY HornerEmpty, GroupAssumption DEF Polynomial, Scalar
      <3>2. Times(0, 0) = 0 /\ 0 \in Int  BY PlusZero
      <3> HIDE DEF f
      <3>3. \A d \in E : f[d] \in Scalar /\ f[d] = Times(0, f[d])  BY <3>1, <3>2
      <3>4. Interpolated(f, E) = Times(0, Interpolated(f, E))  BY <3>2, <3>3, InterpolatedTimes
      <3>5. Interpolated(f, E) \in Int  BY <3>3, WeightedType
      <3>6. QED  BY <3>4, <3>5, PlusZero DEF f
    <2>2. QED  BY <2>1, HornerEmpty
  <1>3. ASSUME NEW b \in Seq(Scalar), b # <<>>, Tail(b) \in P PROVE b \in P
    <2>1. SUFFICES ASSUME NEW E \in SUBSET Index, E # {}, Len(b) <= Cardinality(E)
                   PROVE  Interpolated(Polynomial(b), E) = Horner(b, 0)
      OBVIOUS
    <2> DEFINE t == Tail(b)
               f == Polynomial(b)
               g == Polynomial(t)
               one == [d \in Index |-> 1]
               u == [d \in Index |-> Times(b[1], one[d])]
               v == [d \in Index |-> Times(d, g[d])]
    <2>2. t \in Seq(Scalar) /\ Len(t) = Len(b) - 1 /\ b[1] \in Scalar /\ b[1] \in Int
          /\ Horner(b, 0) = b[1]
      BY <1>3, HornerRest, HornerAtZero, ScalarMod
    <2>3. ASSUME NEW d \in E
          PROVE  /\ one[d] = 1 /\ one[d] \in Scalar
                 /\ u[d] = Times(b[1], one[d]) /\ u[d] \in Scalar
                 /\ g[d] \in Scalar /\ v[d] = Times(d, g[d]) /\ v[d] \in Scalar
                 /\ f[d] = Plus(u[d], v[d])
      <3>1. d \in Index /\ d \in Int /\ 1 \in Int /\ 1 \in Scalar
        BY <1>1, GroupAssumption DEF Scalar
      <3>2. g[d] \in Scalar /\ g[d] = Horner(t, d) /\ f[d] = Horner(b, d)  BY <1>1, <2>2, <3>1
      <3>3. g[d] \in Int  BY <3>2, ScalarMod
      <3>4. f[d] = Plus(b[1], Times(d, g[d]))  BY <1>3, <3>1, <3>2, HornerRest
      <3>5. one[d] = 1 /\ u[d] = Times(b[1], one[d]) /\ v[d] = Times(d, g[d])  BY <3>1
      <3> HIDE DEF one, u, v, f, g
      <3>6. u[d] = b[1]  BY <2>2, <3>5, PlusZero
      <3>7. v[d] \in Scalar
        <4>1. Times(d, g[d]) \in Scalar  BY <3>1, <3>3, PlusTimesType
        <4>2. QED  BY <3>5, <4>1
      <3>8. QED  BY <2>2, <3>1, <3>2, <3>4, <3>5, <3>6, <3>7
    <2>4. \A d \in Index : one[d] = 1  OBVIOUS
    <2> HIDE DEF f, g, u, v, one
    <2>5. Interpolated(f, E) = Plus(Interpolated(u, E), Interpolated(v, E))
      BY <2>3, InterpolatedPlus
    <2>6. Interpolated(u, E) = b[1]
      <3>1. Interpolated(u, E) = Times(b[1], Interpolated(one, E))
        BY <2>2, <2>3, InterpolatedTimes
      <3>2. Interpolated(one, E) = 1  BY <2>1, <2>4, InterpolatedOne
      <3>3. QED  BY <2>2, <3>1, <3>2, PlusZero
    <2>7. Interpolated(v, E) = 0
      <3>1. IsFiniteSet(E) /\ Cardinality(E) \in Nat  BY IndexIs, FS_CardinalityType
      <3>2. PICK e \in E : TRUE  BY <2>1
      <3>3. e \in Int /\ Len(b) \in Nat  BY <1>1, <2>1
      <3>4. CASE Len(b) = 1
        <4>1. t = <<>>  BY <2>2, <3>4, SeqIs
        <4>2. \A d \in E : v[d] = 0 /\ 0 \in Scalar
          <5> TAKE d \in E
          <5>1. g[d] = 0  BY <1>1, <2>2, <4>1, HornerEmpty, <2>1 DEF g
          <5>2. v[d] = Times(d, 0) /\ d \in Int  BY <1>1, <2>1, <2>3, <5>1
          <5>3. v[d] = 0  BY <5>2, PlusZero
          <5>4. QED  BY <2>3, <5>3
        <4>3. Times(0, 0) = 0 /\ 0 \in Int  BY PlusZero
        <4>4. \A d \in E : v[d] \in Scalar /\ v[d] = Times(0, v[d])  BY <4>2, <4>3
        <4>5. Interpolated(v, E) = Times(0, Interpolated(v, E))  BY <4>3, <4>4, InterpolatedTimes
        <4>6. Interpolated(v, E) \in Int  BY <4>4, WeightedType
        <4>7. QED  BY <4>5, <4>6, PlusZero
      <3>5. CASE Len(b) # 1
        <4> DEFINE A == E \ {e}
                   h == Horner(t, 0)
        <4>1. Cardinality(A) = Cardinality(E) - 1 /\ A \in SUBSET Index
          BY <3>1, FS_RemoveElement
        <4>2. Len(b) >= 2
          <5>1. Len(b) # 0  BY <1>3, SeqIs
          <5>2. \A n \in Nat : n # 0 /\ n # 1 => n >= 2  OBVIOUS
          <5>3. QED  BY <3>3, <3>5, <5>1, <5>2
        <4>3. Len(t) <= Cardinality(A) /\ Len(t) <= Cardinality(E) /\ Cardinality(A) >= 1
          BY <2>1, <2>2, <3>1, <3>3, <4>1, <4>2
        <4>4. A # {}
          <5>1. Cardinality({}) = 0  BY FS_EmptySet
          <5>2. A = {} => Cardinality(A) = 0  BY <5>1
          <5> HIDE DEF A
          <5>3. QED  BY <4>3, <5>2
        <4>5. A \in Enough(t) /\ E \in Enough(t)  BY <2>1, <4>1, <4>3, <4>4
        <4>6. Interpolated(g, A) = h /\ Interpolated(g, E) = h  BY <1>3, <4>5 DEF g
        <4>7. h \in Scalar
          <5>1. 0 \in Int  OBVIOUS
          <5> HIDE DEF t
          <5>2. QED  BY <2>2, <5>1, HornerType
        <4> HIDE DEF h
        <4>8. Interpolated(v, E) =
                Plus(Times(-e, Interpolated(g, A)), Times(e, Interpolated(g, E)))
          BY <2>3, InterpolatedIndex
        <4>9. Interpolated(v, E) = Plus(Times(-e, h), Times(e, h))  BY <4>6, <4>8
        <4>10. QED  BY <3>3, <4>7, <4>9, PlusCancels
      <3>6. QED  BY <3>4, <3>5
    <2>8. QED  BY <2>2, <2>5, <2>6, <2>7, PlusZero DEF f
  <1>4. Seq(Scalar) \subseteq P
    <2> HIDE DEF P
    <2>1. QED  BY <1>2, <1>3, SeqInduct
  <1>5. QED  BY <1>4

-----------------------------------------------------------------------------
(***************************************************************************)
(* Shares, proofs, keys and signatures.                                    *)
(***************************************************************************)
\* The generator is not 0.
LEMMA GIs == G \in Scalar /\ G # 0 /\ G \in Int
  BY GroupAssumption DEF Scalar

\* An element of the group has one exponent.
LEMMA SameExponent ==
  ASSUME NEW x \in Scalar, NEW y \in Scalar, Times(G, x) = Times(G, y)
  PROVE  x = y
  BY GIs, Cancels

\* A share passes the check against the commitments if and only if it is the value of the
\* polynomial (SecretShare::verify).
THEOREM ShareVerified ==
  ASSUME NEW c \in Seq(Scalar), NEW j \in Nat, NEW share \in Scalar
  PROVE  /\ evaluate_polynomial(j, c) \in Scalar
         /\ verify_share(share, j, Commitments(c)) <=> share = evaluate_polynomial(j, c)
  <1> DEFINE v == Horner(c, j % Q)
  <1>1. j \in Int /\ j % Q \in Int  BY ModRange
  <1>2. v \in Scalar /\ Horner(Commitments(c), j % Q) = Times(G, v)
    BY <1>1, HornerType, CommitmentsEvaluate
  <1>3. evaluate_polynomial(j, c) = v  BY DEF evaluate_polynomial
  <1> HIDE DEF v
  <1>4. verify_share(share, j, Commitments(c)) <=> Times(G, share) = Times(G, v)
    BY <1>2 DEF verify_share, evaluate_hiding
  <1>5. QED  BY <1>2, <1>3, <1>4, SameExponent

\* Subtracting what was added.
LEMMA PlusMinus ==
  ASSUME NEW a \in Scalar, NEW b \in Scalar
  PROVE  Minus(Plus(a, b), b) = a
  <1>1. a \in Int /\ b \in Int /\ Plus(a, b) \in Int  BY ScalarMod, PlusTimesType
  <1>2. Minus(Plus(a, b), b) = (Plus(a, b) - b) % Q  BY <1>1, MinusIs
  <1>3. (Plus(a, b) - b) % Q = (((a + b) % Q) + (-b)) % Q
    <2>1. Plus(a, b) - b = Plus(a, b) + (-b)  BY <1>1
    <2>2. QED  BY <2>1 DEF Plus
  <1>4. (((a + b) % Q) + (-b)) % Q = ((a + b) + (-b)) % Q  BY <1>1, ModPlus
  <1>5. (a + b) + (-b) = a  BY <1>1
  <1>6. QED  BY <1>2, <1>3, <1>4, <1>5, ScalarMod

\* A proof that `prove' makes with the secret of a public key is valid.
THEOREM ProofVerified ==
  ASSUME NEW index, NEW secret \in Scalar, NEW k \in Scalar, NEW h \in Scalar
  PROVE  verify_proof(prove(index, secret, Times(G, secret), k, h), index, Times(G, secret))
  <1> DEFINE key == Times(G, secret)
             r == Plus(k, Times(secret, h))
             a == Times(G, k)
             b == Times(key, h)
  <1>1. secret \in Int /\ k \in Int /\ h \in Int /\ G \in Int  BY ScalarMod, GIs
  <1>2. key \in Int /\ Times(secret, h) \in Int /\ r \in Int  BY <1>1, PlusTimesType
  <1>3. a \in Scalar /\ b \in Scalar  BY <1>1, <1>2, PlusTimesType
  <1>4. Times(G, r) = Plus(a, b)
    <2>1. Times(G, r) = Plus(Times(G, k), Times(G, Times(secret, h)))
      BY <1>1, <1>2, Distributes
    <2>2. Times(G, Times(secret, h)) = b  BY <1>1, TimesAssoc
    <2>3. QED  BY <2>1, <2>2
  <1> HIDE DEF key, r, a, b
  <1>5. Minus(Plus(a, b), b) = a  BY <1>3, PlusMinus
  <1>6. QED  BY <1>4, <1>5 DEF verify_proof, prove, retrieved_m, key, r, a, b

\* A signing key made of shares each of which passes the check is the secret of the public key
\* that everybody computes for it from the commitments (IndividualVerifyingKey::verify).
THEOREM VerifiedKey ==
  ASSUME NEW D \in SUBSET Index, NEW shares \in [D -> Scalar], NEW j,
         NEW points, DOMAIN points = D,
         \A d \in D : verify_share(shares[d], j, points[d])
  PROVE  verify_individual(to_public(calculate_signing_key(shares)), j, points)
  <1> DEFINE h == [d \in D |-> evaluate_hiding(points[d], j)]
  <1>1. \A d \in D : h[d] = Times(G, shares[d])  BY DEF verify_share
  <1>2. calculate_signing_key(shares) = Interpolated(shares, D)
    BY DEF calculate_signing_key, Interpolated, Weighted
  <1>3. generate_from_commitments(j, points) = Interpolated(h, D)
    <2>1. Weighted(h, D) = [d \in D |->
            Times(evaluate_hiding(points[d], j), calculate_lagrange_coefficients(d, D))]
      BY DEF Weighted
    <2> HIDE DEF h
    <2>2. QED  BY <2>1 DEF generate_from_commitments, Interpolated
  <1> HIDE DEF h
  <1>4. Interpolated(h, D) = Times(G, Interpolated(shares, D))
    BY <1>1, GIs, InterpolatedTimes
  <1>5. QED  BY <1>2, <1>3, <1>4 DEF verify_individual, to_public

\* Two functions with the same values are interpolated alike.
LEMMA InterpolatedSame ==
  ASSUME NEW D, NEW f, NEW g, \A d \in D : f[d] = g[d]
  PROVE  Interpolated(f, D) = Interpolated(g, D)
  <1>1. Weighted(f, D) = Weighted(g, D)  BY DEF Weighted
  <1>2. QED  BY <1>1 DEF Interpolated

\* The group key of dealers that dealt the values of a polynomial with no more coefficients
\* than there are dealers is that of its value at 0.
THEOREM SameGroupKey ==
  ASSUME NEW c \in Seq(Scalar), NEW D \in SUBSET Index, D # {}, Len(c) <= Cardinality(D),
         NEW points, DOMAIN points = D,
         \A d \in D : public_key(points[d]) = Times(G, evaluate_polynomial(d, c))
  PROVE  calculate_group_key(points) = Times(G, evaluate_polynomial(0, c))
  <1> DEFINE f == Polynomial(c)
             h == [d \in D |-> public_key(points[d])]
  <1>1. \A d \in D : d \in Index /\ d % Q = d /\ d \in Int  BY IndexIs
  <1>2. \A d \in D : f[d] = Horner(c, d)  BY <1>1 DEF Polynomial
  <1>3. \A d \in D : h[d] = Times(G, f[d]) /\ f[d] \in Scalar
    BY <1>1, <1>2, HornerType DEF evaluate_polynomial
  <1>4. calculate_group_key(points) = Interpolated(h, D)
    <2>1. Weighted(h, D) = [d \in D |->
            Times(public_key(points[d]), calculate_lagrange_coefficients(d, D))]
      BY DEF Weighted
    <2> HIDE DEF h
    <2>2. QED  BY <2>1 DEF calculate_group_key, Interpolated
  <1>5. Interpolated(f, D) = Horner(c, 0)  BY PolynomialInterpolated
  <1> HIDE DEF f, h
  <1>6. Interpolated(h, D) = Times(G, Interpolated(f, D))
    BY <1>3, GIs, InterpolatedTimes
  <1>7. 0 % Q = 0  BY GroupAssumption
  <1>8. QED  BY <1>4, <1>5, <1>6, <1>7 DEF evaluate_polynomial

\* The partial signatures of any signers add up to one that verifies under the key that is
\* interpolated from theirs, whatever the nonces, binding factors and challenge.
THEOREM SignatureVerifies ==
  ASSUME NEW S \in SUBSET Index, NEW hiding \in [S -> Scalar], NEW binding \in [S -> Scalar],
         NEW factors \in [S -> Scalar], NEW keys \in [S -> Scalar], NEW challenge \in Scalar
  PROVE  LET partial == [i \in S |-> partial_signature(i, keys[i], hiding[i], binding[i],
                                                       factors, challenge, S)]
         IN verify_signature(compute_group_commitment(hiding, binding, factors),
                             aggregate_z(partial), Times(G, Interpolated(keys, S)), challenge)
  <1> DEFINE partial == [i \in S |-> partial_signature(i, keys[i], hiding[i], binding[i],
                                                       factors, challenge, S)]
             n == [i \in S |-> Plus(hiding[i], Times(binding[i], factors[i]))]
             m == [i \in S |-> Plus(Times(G, hiding[i]), Times(Times(G, binding[i]), factors[i]))]
             w == Weighted(keys, S)
             v == [i \in S |-> Times(challenge, w[i])]
             key == Interpolated(keys, S)
  <1>1. challenge \in Int /\ G \in Int /\ IsFiniteSet(S)  BY ScalarMod, GIs, IndexIs
  <1>2. /\ w \in [S -> Scalar] /\ key \in Int /\ key = SumOver(w)
        /\ \A i \in S : /\ w[i] = Times(keys[i], calculate_lagrange_coefficients(i, S))
                        /\ calculate_lagrange_coefficients(i, S) \in Int /\ keys[i] \in Int
    <2>1. \A i \in S : keys[i] \in Scalar  OBVIOUS
    <2>2. QED  BY <2>1, WeightedType DEF Interpolated
  <1>3. \A i \in S : hiding[i] \in Int /\ binding[i] \in Int /\ factors[i] \in Int
    <2> TAKE i \in S
    <2>1. hiding[i] \in Scalar /\ binding[i] \in Scalar /\ factors[i] \in Scalar  OBVIOUS
    <2>2. QED  BY <2>1, ScalarMod
  <1> HIDE DEF w, key
  <1>4. n \in [S -> Scalar]
    <2>1. \A i \in S : Plus(hiding[i], Times(binding[i], factors[i])) \in Scalar
      BY <1>3, PlusTimesType
    <2>2. QED  BY <2>1
  <1>5. v \in [S -> Scalar]
    <2>1. \A i \in S : w[i] \in Scalar  BY <1>2
    <2>2. \A i \in S : w[i] \in Int  BY <2>1, ScalarMod
    <2>3. \A i \in S : Times(challenge, w[i]) \in Scalar  BY <1>1, <2>2, PlusTimesType
    <2>4. QED  BY <2>3
  <1>6. \A i \in S : m[i] = Times(G, n[i])
    <2> TAKE i \in S
    <2> DEFINE h == hiding[i] b == binding[i] f == factors[i]
    <2>1. h \in Int /\ b \in Int /\ f \in Int /\ Times(b, f) \in Int  BY <1>3, PlusTimesType
    <2>2. m[i] = Plus(Times(G, h), Times(Times(G, b), f)) /\ n[i] = Plus(h, Times(b, f))
      OBVIOUS
    <2> HIDE DEF m, n, h, b, f
    <2>3. Times(G, Plus(h, Times(b, f))) = Plus(Times(G, h), Times(G, Times(b, f)))
      BY <1>1, <2>1, Distributes
    <2>4. Times(Times(G, b), f) = Times(G, Times(b, f))  BY <1>1, <2>1, TimesAssoc
    <2>5. QED  BY <2>2, <2>3, <2>4
  <1>7. \A i \in S : partial[i] = Plus(n[i], v[i])
    <2> TAKE i \in S
    <2> DEFINE l == calculate_lagrange_coefficients(i, S) k == keys[i]
    <2>1. l \in Int /\ k \in Int /\ w[i] = Times(k, l) /\ Times(k, l) \in Int
      BY <1>2, PlusTimesType
    <2>2. partial[i] = Plus(n[i], Times(Times(l, k), challenge)) /\ v[i] = Times(challenge, w[i])
      BY DEF partial_signature
    <2> HIDE DEF l, k, partial, n, v
    <2>3. Times(l, k) = Times(k, l)  BY <2>1, PlusTimesType
    <2>4. Times(Times(k, l), challenge) = Times(challenge, Times(k, l))
      BY <1>1, <2>1, PlusTimesType
    <2>5. QED  BY <2>1, <2>2, <2>3, <2>4
  <1>8. partial \in [S -> Scalar] /\ m \in [S -> Scalar]
    <2> HIDE DEF n, v
    <2>1. \A i \in S : n[i] \in Scalar /\ v[i] \in Scalar  BY <1>4, <1>5
    <2>2. \A i \in S : n[i] \in Int /\ v[i] \in Int  BY <2>1, ScalarMod
    <2>3. \A i \in S : Plus(n[i], v[i]) \in Scalar /\ Times(G, n[i]) \in Scalar
      BY <1>1, <2>2, PlusTimesType
    <2>4. QED  BY <1>6, <1>7, <2>3
  <1>9. /\ compute_group_commitment(hiding, binding, factors) = SumOver(m)
        /\ aggregate_z(partial) = SumOver(partial)
    BY DEF compute_group_commitment, aggregate_z
  <1>10. \A i \in S : v[i] = Times(challenge, w[i])  OBVIOUS
  <1> HIDE DEF partial, n, m, v
  <1>11. SumOver(m) = Times(G, SumOver(n))  BY <1>1, <1>4, <1>6, <1>8, SumScale
  <1>12. SumOver(v) = Times(challenge, key)  BY <1>1, <1>2, <1>5, <1>10, SumScale
  <1>13. SumOver(partial) = Plus(SumOver(n), SumOver(v))
    BY <1>1, <1>4, <1>5, <1>7, <1>8, SumPlus
  <1>14. SumOver(n) \in Int
    <2>1. SumOver(n) = SumOn(n, S) /\ SumOn(n, S) \in Scalar  BY <1>1, <1>4, SumSteps
    <2>2. QED  BY <2>1, ScalarMod
  <1> DEFINE a == SumOver(n)
  <1>15. a \in Int  BY <1>14
  <1> HIDE DEF a
  <1>16. Times(G, Plus(a, Times(challenge, key)))
           = Plus(Times(G, a), Times(Times(G, key), challenge))
    <2>1. Times(challenge, key) \in Int /\ Times(key, challenge) = Times(challenge, key)
      BY <1>1, <1>2, PlusTimesType
    <2>2. Times(G, Plus(a, Times(challenge, key)))
            = Plus(Times(G, a), Times(G, Times(challenge, key)))
      BY <1>1, <1>15, <2>1, Distributes
    <2>3. Times(Times(G, key), challenge) = Times(G, Times(key, challenge))
      BY <1>1, <1>2, TimesAssoc
    <2>4. QED  BY <2>1, <2>2, <2>3
  <1> DEFINE x == Times(G, a)
             y == Times(Times(G, key), challenge)
  <1>17. x \in Scalar /\ y \in Scalar  BY <1>1, <1>2, <1>15, PlusTimesType
  <1> HIDE DEF x, y
  <1>18. Minus(Plus(x, y), y) = x  BY <1>17, PlusMinus
  <1>19. verify_signature(SumOver(m), SumOver(partial), Times(G, key), challenge)
    BY <1>11, <1>12, <1>13, <1>16, <1>18 DEF a, x, y, verify_signature
  <1>20. QED  BY <1>9, <1>19 DEF partial, key

\* One more term of a sum.
LEMMA SumAdd ==
  ASSUME NEW D, IsFiniteSet(D), NEW f \in [D -> Scalar], NEW A \in SUBSET D,
         NEW y \in D, y \notin A
  PROVE  SumOn(f, A \cup {y}) = Plus(f[y], SumOn(f, A)) /\ SumOn(f, A) \in Scalar
  <1>1. y \in D \ A  OBVIOUS
  <1>2. QED  BY <1>1, SumSteps

\* Nothing is interpolated from nothing.
LEMMA InterpolatedZero ==
  ASSUME NEW S \in SUBSET Index, NEW f, \A j \in S : f[j] = 0
  PROVE  Interpolated(f, S) = 0
  <1>1. 0 \in Scalar /\ Times(0, 0) = 0  BY PlusZero, GroupAssumption DEF Scalar
  <1>2. \A j \in S : f[j] \in Scalar /\ f[j] = Times(0, f[j])  BY <1>1
  <1>3. Interpolated(f, S) = Times(0, Interpolated(f, S))  BY <1>2, InterpolatedTimes
  <1>4. Interpolated(f, S) \in Int  BY <1>2, WeightedType
  <1>5. QED  BY <1>3, <1>4, PlusZero

\* The values of dealers' polynomials at j.
Dealings(coefficients, j) ==
  [d \in DOMAIN coefficients |-> evaluate_polynomial(j, coefficients[d])]
Secrets(coefficients) == [d \in DOMAIN coefficients |-> coefficients[d][1]]

\* The keys of as many signers as the dealers' polynomials have coefficients interpolate to
\* what the dealers' secrets do.
THEOREM KeysInterpolated ==
  ASSUME NEW S \in SUBSET Index, S # {}, NEW D \in SUBSET Index,
         NEW coefficients \in [D -> Seq(Scalar)],
         \A d \in D : coefficients[d] # <<>> /\ Len(coefficients[d]) <= Cardinality(S),
         NEW keys, \A j \in S : keys[j] = Interpolated(Dealings(coefficients, j), D)
  PROVE  Interpolated(keys, S) = Interpolated(Secrets(coefficients), D)
  <1> DEFINE p(j) == Dealings(coefficients, j)
             g(j) == Weighted(p(j), D)
             c == Secrets(coefficients)
             w == Weighted(c, D)
             K(A) == [j \in S |-> SumOn(g(j), A)]
             P == {A \in SUBSET D : Interpolated(K(A), S) = SumOn(w, A)}
  <1>1. \A j \in S : j \in Int /\ j % Q = j /\ j \in Index  BY IndexIs
  <1>2. \A d \in D : coefficients[d] \in Seq(Scalar)  OBVIOUS
  <1>3. \A j \in S : \A d \in D : p(j)[d] = Horner(coefficients[d], j) /\ p(j)[d] \in Scalar
    BY <1>1, <1>2, HornerType DEF Dealings, evaluate_polynomial
  <1>4. \A d \in D : c[d] = Horner(coefficients[d], 0) /\ c[d] \in Scalar
    BY <1>2, HornerAtZero, HornerRest DEF Secrets
  <1> HIDE DEF p, c
  <1>5. /\ IsFiniteSet(D) /\ w \in [D -> Scalar]
        /\ \A d \in D : /\ w[d] = Times(c[d], calculate_lagrange_coefficients(d, D))
                        /\ calculate_lagrange_coefficients(d, D) \in Int /\ c[d] \in Int
    BY <1>4, WeightedType
  <1>6. \A j \in S : /\ g(j) \in [D -> Scalar]
                     /\ \A d \in D :
                          /\ g(j)[d] = Times(p(j)[d], calculate_lagrange_coefficients(d, D))
                          /\ p(j)[d] \in Int
    BY <1>3, WeightedType
  <1> HIDE DEF w, g
  <1>7. {} \in P
    <2>1. SumOn(w, {}) = 0  BY <1>5, SumSteps
    <2>2. \A j \in S : SumOn(g(j), {}) = 0  BY <1>5, <1>6, SumSteps
    <2>3. \A j \in S : K({})[j] = 0  BY <2>2
    <2> HIDE DEF K
    <2>4. QED  BY <2>1, <2>3, InterpolatedZero
  <1>8. ASSUME NEW A \in SUBSET D, NEW y \in D, A \in P, y \notin A PROVE A \cup {y} \in P
    <2> DEFINE l == calculate_lagrange_coefficients(y, D)
               q == [j \in S |-> p(j)[y]]
               u == [j \in S |-> Times(l, q[j])]
    <2>1. IsFiniteSet(D) /\ w \in [D -> Scalar]  BY <1>5
    <2>2. SumOn(w, A \cup {y}) = Plus(w[y], SumOn(w, A))
      <3> DEFINE t == w
      <3>1. t \in [D -> Scalar] /\ IsFiniteSet(D)  BY <2>1
      <3> HIDE DEF t, l, q, u, K, P
      <3>2. /\ SumOn(t, A \cup {y}) = Plus(t[y], SumOn(t, A))
            /\ SumOn(t, A) \in Scalar
        BY <1>8, <3>1, SumAdd
      <3>3. QED  BY <3>2 DEF t
    <2>3. \A j \in S : /\ SumOn(g(j), A \cup {y}) = Plus(g(j)[y], SumOn(g(j), A))
                       /\ SumOn(g(j), A) \in Scalar
      <3> TAKE j \in S
      <3> DEFINE t == g(j)
      <3>1. t \in [D -> Scalar] /\ IsFiniteSet(D)  BY <1>6, <2>1
      <3> HIDE DEF t, l, q, u, K, P
      <3>2. /\ SumOn(t, A \cup {y}) = Plus(t[y], SumOn(t, A))
            /\ SumOn(t, A) \in Scalar
        BY <1>8, <3>1, SumAdd
      <3>3. QED  BY <3>2 DEF t
    <2>4. l \in Int /\ w[y] = Times(c[y], l) /\ c[y] \in Int  BY <1>5
    <2>5. \A j \in S : q[j] \in Scalar /\ q[j] \in Int /\ g(j)[y] = Times(q[j], l)
                       /\ q[j] = Horner(coefficients[y], j)
      BY <1>3, <1>6
    <2>6. \A j \in S : u[j] = Times(l, q[j])  OBVIOUS
    <2> HIDE DEF l, q, u
    <2>7. \A j \in S : u[j] \in Scalar /\ u[j] = g(j)[y]
      <3> TAKE j \in S
      <3>1. Times(l, q[j]) = Times(q[j], l) /\ Times(l, q[j]) \in Scalar
        BY <2>4, <2>5, PlusTimesType
      <3>2. QED  BY <2>5, <2>6, <3>1
    <2>8. \A j \in S : /\ K(A)[j] \in Scalar
                       /\ K(A \cup {y})[j] = Plus(u[j], K(A)[j])
      BY <2>3, <2>7
    <2>9. Interpolated(K(A), S) = SumOn(w, A)  BY <1>8
    <2>10. Interpolated(K(A \cup {y}), S) = Plus(Interpolated(u, S), Interpolated(K(A), S))
      <3> DEFINE a == K(A)
                 b == K(A \cup {y})
      <3>1. \A j \in S : u[j] \in Scalar /\ a[j] \in Scalar /\ b[j] = Plus(u[j], a[j])
        BY <2>7, <2>8
      <3> HIDE DEF a, b
      <3>2. Interpolated(b, S) = Plus(Interpolated(u, S), Interpolated(a, S))
        BY <3>1, InterpolatedPlus
      <3>3. QED  BY <3>2 DEF a, b
    <2> HIDE DEF K
    <2>11. Interpolated(u, S) = Times(l, Interpolated(q, S))
      BY <2>4, <2>5, <2>6, InterpolatedTimes
    <2>12. Interpolated(q, S) = c[y]
      <3>1. \A j \in S : q[j] = Polynomial(coefficients[y])[j]  BY <1>1, <2>5 DEF Polynomial
      <3>2. Interpolated(q, S) = Interpolated(Polynomial(coefficients[y]), S)
        BY <3>1, InterpolatedSame
      <3>3. Interpolated(Polynomial(coefficients[y]), S) = Horner(coefficients[y], 0)
        BY <1>2, PolynomialInterpolated
      <3>4. QED  BY <1>4, <3>2, <3>3
    <2>13. Times(l, c[y]) = Times(c[y], l)  BY <2>4, PlusTimesType
    <2>14. QED  BY <2>2, <2>4, <2>9, <2>10, <2>11, <2>12, <2>13
  <1>9. D \in P
    <2> HIDE DEF P
    <2>1. QED  BY <1>5, <1>7, <1>8, SetInduct
  <1>10. Interpolated(K(D), S) = SumOn(w, D)  BY <1>9
  <1>11. \A j \in S : K(D)[j] = keys[j]
    <2>1. \A j \in S : SumOn(g(j), D) = SumOver(g(j))  BY <1>5, <1>6, SumSteps
    <2>2. QED  BY <2>1 DEF g, p, Interpolated
  <1>12. SumOver(w) = SumOn(w, D)  BY <1>5, SumSteps
  <1> HIDE DEF K, P
  <1>13. Interpolated(keys, S) = Interpolated(K(D), S)  BY <1>11, InterpolatedSame
  <1>14. QED  BY <1>10, <1>12, <1>13 DEF Interpolated, w, c
====
