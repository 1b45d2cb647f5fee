---------------------------- MODULE NumberLemmas ----------------------------
(***************************************************************************)
(* Facts about natural numbers the proofs of this project need: induction, *)
(* stated of a set, and quotients and remainders.                          *)
(***************************************************************************)
EXTENDS Integers, WellFoundedInduction, TLAPS

\* Induction, for a set of numbers.
LEMMA NatSet ==
    ASSUME NEW T, 0 \in T, \A n \in Nat : n \in T => n + 1 \in T
    PROVE  Nat \subseteq T
<1> DEFINE R == OpToRel(<, Nat)
           U == Nat \ T
<1>1. SUFFICES ASSUME U # {} PROVE FALSE
  OBVIOUS
<1>2. PICK x \in U : \A y \in U : ~ (<<y, x>> \in R)
  <2> HIDE DEF R
  <2> QED BY <1>1, NatLessThanWellFounded, WFMin DEF R
<1>3. \A y \in U : ~ (y < x)
  BY <1>2 DEF OpToRel
<1>4. x \in Nat /\ x # 0 /\ x - 1 \in Nat /\ x - 1 < x
  OBVIOUS
<1>5. (x - 1) + 1 \in T
  BY <1>3, <1>4
<1> QED BY <1>4, <1>5

\* Quotient and remainder, and that nothing else is.
LEMMA Divide ==
    ASSUME NEW b \in Nat \ {0}, NEW a \in Nat
    PROVE  a = (a \div b) * b + (a % b) /\ a \div b \in Nat /\ a % b \in 0..(b - 1)
  OBVIOUS

LEMMA Divided ==
    ASSUME NEW b \in Nat \ {0}, NEW q \in Nat, NEW r \in 0..(b - 1)
    PROVE  (q * b + r) \div b = q /\ (q * b + r) % b = r
  OBVIOUS

LEMMA Product == ASSUME NEW a \in Nat \ {0}, NEW b \in Nat \ {0} PROVE a * b \in Nat \ {0}
  OBVIOUS

LEMMA ProductNat == ASSUME NEW a \in Nat, NEW b \in Nat PROVE a * b \in Nat
  OBVIOUS

LEMMA ProductLess ==
    ASSUME NEW d \in Nat, NEW e \in Nat, NEW b \in Nat \ {0}, d * b < e * b PROVE d < e
  OBVIOUS

LEMMA ProductMore ==
    ASSUME NEW d \in Nat, NEW e \in Nat, NEW b \in Nat, d <= e PROVE d * b <= e * b
  OBVIOUS

LEMMA Distribute ==
    ASSUME NEW d \in Int, NEW e \in Int, NEW b \in Int PROVE (d + e) * b = d * b + e * b /\ b * (d + e) = b * d + b * e
  OBVIOUS

LEMMA Associate ==
    ASSUME NEW d \in Int, NEW e \in Int, NEW b \in Int PROVE (d * e) * b = d * (e * b) /\ d * e \in Int /\ d * e = e * d
  OBVIOUS

\* A sum of a multiple and a remainder, further on.
LEMMA Onwards ==
    ASSUME NEW B \in Nat \ {0}, NEW w \in Nat, NEW d \in Nat, NEW in \in Nat, NEW k \in Nat, NEW r \in 0..(B - 1),
           in + k = d * B + r
    PROVE  (w * B + in + k) \div B = w + d /\ (w * B + in + k) % B = r
<1>1. (w + d) * B = w * B + d * B /\ w * B \in Nat /\ d * B \in Nat
  BY Distribute, ProductNat
<1>2. w * B + in + k = (w + d) * B + r
  BY <1>1
<1>3. ((w + d) * B + r) \div B = w + d /\ ((w + d) * B + r) % B = r
  <2>1. w + d \in Nat
    OBVIOUS
  <2> QED BY <2>1, Divided
<1> QED BY <1>2, <1>3

\* A block number of the wide counter is a high and a low word.
LEMMA HighLow ==
    ASSUME NEW L \in Nat \ {0}, NEW H \in Nat \ {0}, NEW high \in 0..(H - 1), NEW low \in 0..(L - 1)
    PROVE  /\ high * L + low \in 0..(L * H - 1)
           /\ (high * L + low) \div L = high /\ (high * L + low) % L = low
<1>1. high * L + low \in 0..(L * H - 1)
  <2>1. high + 1 \in Nat /\ high + 1 <= H /\ high \in Nat /\ low \in Nat
    OBVIOUS
  <2>2. (high + 1) * L <= H * L
    BY <2>1, ProductMore
  <2>3. (high + 1) * L = high * L + 1 * L /\ H * L = L * H
    BY <2>1, Distribute, Associate
  <2>4. high * L \in Nat /\ L * H \in Nat
    BY <2>1, ProductNat
  <2> QED BY <2>1, <2>2, <2>3, <2>4
<1> QED BY <1>1, Divided

LEMMA OfBlock ==
    ASSUME NEW L \in Nat \ {0}, NEW H \in Nat \ {0}, NEW block \in 0..(L * H - 1)
    PROVE  \E high \in 0..(H - 1), low \in 0..(L - 1) :
             block = high * L + low /\ high = block \div L /\ low = block % L
<1>1. L * H \in Nat /\ H * L = L * H
  BY ProductNat, Associate
<1>2. block \in Nat
  BY <1>1
<1>3. PICK q \in Nat, r \in 0..(L - 1) : block = q * L + r /\ q = block \div L /\ r = block % L
  BY <1>2, Divide
<1>4. q * L < H * L
  <2>1. q * L \in Nat
    BY <1>3, ProductNat
  <2> QED BY <1>1, <1>3, <2>1
<1>5. q < H
  BY <1>3, <1>4, ProductLess
<1>6. q \in 0..(H - 1)
  BY <1>3, <1>5
<1> QED BY <1>3, <1>6

\* Byte b lies in blocks of B bytes under a counter of H high and L low words:
\* after so many turns of that counter, at these words of it.
At(B, L, H, b, turns, high, low, in) ==
    /\ turns \in Nat /\ high \in 0..(H - 1) /\ low \in 0..(L - 1) /\ in \in 0..(B - 1)
    /\ b = (turns * (L * H) + (high * L + low)) * B + in

\* Byte k from byte b on has the same high word, and its low word and place are
\* those of a cipher that starts at this low word.
InCipher(B, L, H, b, k, high, low, in) ==
    /\ (((b + k) \div B) % (L * H)) \div L = high
    /\ (((b + k) \div B) % (L * H)) % L = ((low * B + in + k) \div B) % L
    /\ (low * B + in + k) % B = (b + k) % B

\* Of the wide counter's block of byte b, as long as the low word does not
\* wrap, byte k from there on lies where a cipher with the same high word
\* counts it.
LEMMA Counted ==
    ASSUME NEW B \in Nat \ {0}, NEW L \in Nat \ {0}, NEW H \in Nat \ {0}, NEW b \in Nat, NEW k \in Nat,
           NEW turns, NEW high, NEW low, NEW in, At(B, L, H, b, turns, high, low, in),
           in + k < (L - low) * B
    PROVE  InCipher(B, L, H, b, k, high, low, in)
<1>0. /\ turns \in Nat /\ high \in 0..(H - 1) /\ low \in 0..(L - 1) /\ in \in 0..(B - 1)
      /\ b = (turns * (L * H) + (high * L + low)) * B + in
  BY DEF At
<1>1. PICK block \in Nat : block = high * L + low
  <2>1. high \in Nat
    BY <1>0
  <2>2. high * L \in Nat
    BY <2>1, ProductNat
  <2> QED BY <1>0, <2>2
<1>2. PICK d \in Nat, r \in 0..(B - 1) : in + k = d * B + r
  <2>1. PICK a \in Nat : a = in + k
    BY <1>0
  <2>2. a = (a \div B) * B + (a % B) /\ a \div B \in Nat /\ a % B \in 0..(B - 1)
    BY Divide
  <2> QED BY <2>1, <2>2
<1>3. in \in Nat /\ high \in Nat /\ low \in Nat /\ L * H \in Nat \ {0}
  <2>1. L * H \in Nat \ {0}
    BY Product
  <2> QED BY <2>1, <1>0
<1>4. low + d \in 0..(L - 1)
  <2>1. L - low \in Nat
    BY <1>0
  <2>2. d * B \in Nat
    BY ProductNat
  <2>3. d * B < (L - low) * B
    <3>1. (L - low) * B \in Nat
      BY <2>1, ProductNat
    <3> QED BY <3>1, <2>2, <1>2
  <2>4. d < L - low
    BY <2>1, <2>3, ProductLess
  <2> QED BY <1>0, <2>1, <2>4
<1>5. high * L + (low + d) \in 0..(L * H - 1)
      /\ (high * L + (low + d)) \div L = high /\ (high * L + (low + d)) % L = low + d
  BY <1>0, <1>4, HighLow, ZenonT(40)
<1>6. block + d = high * L + (low + d)
  <2>1. high * L \in Nat
    BY <1>3, ProductNat
  <2> QED BY <2>1, <1>1, <1>3
<1>7. PICK w \in Nat : w = turns * (L * H) + block
  <2>1. turns * (L * H) \in Nat
    BY <1>0, <1>3, ProductNat
  <2> QED BY <2>1, <1>3
<1>8. (b + k) \div B = w + d /\ (b + k) % B = r
  <2>1. (w * B + in + k) \div B = w + d /\ (w * B + in + k) % B = r
    BY <1>2, <1>3, Onwards, SMTT(30)
  <2>2. b = w * B + in
    BY <1>0, <1>1, <1>7
  <2> QED BY <2>1, <2>2
<1>9. (w + d) % (L * H) = block + d
  <2>1. block + d \in 0..(L * H - 1)
    BY <1>5, <1>6
  <2>2. (turns * (L * H) + (block + d)) % (L * H) = block + d
    BY <1>0, <1>3, <2>1, Divided, ZenonT(40)
  <2>3. turns * (L * H) + (block + d) = w + d
    <3>1. turns * (L * H) \in Nat
      BY <1>0, <1>3, ProductNat
    <3> QED BY <3>1, <1>3, <1>7
  <2> QED BY <2>2, <2>3
<1>10. (low * B + in + k) \div B = low + d /\ (low * B + in + k) % B = r
  BY <1>2, <1>3, Onwards, SMTT(30)
<1>11. (low + d) % L = low + d
  BY <1>4
<1>12. (((b + k) \div B) % (L * H)) \div L = high
  BY <1>5, <1>6, <1>8, <1>9
<1>13. (((b + k) \div B) % (L * H)) % L = low + d
  BY <1>5, <1>6, <1>8, <1>9
<1>14. ((low * B + in + k) \div B) % L = low + d
  BY <1>10, <1>11
<1> QED BY <1>8, <1>10, <1>12, <1>13, <1>14 DEF InCipher


\* Where byte b lies: how often the wide counter wrapped, its high and its low
\* word, and the byte in the block.
LEMMA Located ==
    ASSUME NEW B \in Nat \ {0}, NEW L \in Nat \ {0}, NEW H \in Nat \ {0}, NEW b \in Nat
    PROVE  \E turns : At(B, L, H, b, turns, ((b \div B) % (L * H)) \div L, ((b \div B) % (L * H)) % L, b % B)
<1>1. PICK w \in Nat, in \in 0..(B - 1) : b = w * B + in /\ w = b \div B /\ in = b % B
  BY Divide
<1>2. L * H \in Nat \ {0}
  BY Product
<1>3. PICK all \in Nat \ {0} : all = L * H
  BY <1>2
<1>4. PICK turns \in Nat, block \in 0..(all - 1) : w = turns * all + block /\ block = w % all
  BY Divide
<1>5. PICK high \in 0..(H - 1), low \in 0..(L - 1) :
        block = high * L + low /\ high = block \div L /\ low = block % L
  <2>1. block \in 0..(L * H - 1)
    BY <1>3
  <2> QED BY <2>1, OfBlock
<1>6. b = (turns * (L * H) + (high * L + low)) * B + in
  BY <1>1, <1>3, <1>4, <1>5, Zenon
<1>7. high = ((b \div B) % (L * H)) \div L /\ low = ((b \div B) % (L * H)) % L
  <2>1. block = (b \div B) % (L * H)
    <3> HIDE <1>5
    <3> QED BY <1>1, <1>3, <1>4, Zenon
  <2> QED BY <2>1, <1>5, Zenon
<1>8. At(B, L, H, b, turns, high, low, in)
  BY <1>6 DEF At
<1> QED BY <1>1, <1>7, <1>8, Zenon

\* How many multiples of w lie below n.
LEMMA Ceiling ==
    ASSUME NEW w \in Nat \ {0}, NEW n \in Nat
    PROVE  /\ (n + w - 1) \div w \in 0..n
           /\ \A k \in Nat : k * w < n <=> k < (n + w - 1) \div w
<1>1. PICK a \in Nat : a = n + w - 1
  OBVIOUS
<1>2. PICK q \in Nat, r \in 0..(w - 1) : a = q * w + r /\ q = a \div w
  BY Divide
<1>3. ASSUME NEW k \in Nat PROVE k * w < n <=> k < q
  <2>1. k * w \in Nat /\ q * w \in Nat
    BY ProductNat
  <2>2. CASE k < q
    <3>1. PICK l \in Nat : l = k + 1 /\ l <= q
      BY <2>2
    <3>2. l * w <= q * w
      BY <3>1, ProductMore
    <3>3. l * w = k * w + 1 * w
      BY <3>1, Distribute
    <3> QED BY <1>1, <1>2, <2>1, <2>2, <3>2, <3>3
  <2>3. CASE q <= k
    <3>1. q * w <= k * w
      BY <2>3, ProductMore
    <3> QED BY <1>1, <1>2, <2>1, <2>3, <3>1
  <2> QED BY <2>2, <2>3
<1>4. q <= n
  <2>1. n * w \in Nat /\ n <= n * w
    <3>1. PICK v \in Nat : w = v + 1
      <4>1. w - 1 \in Nat /\ w = (w - 1) + 1
        OBVIOUS
      <4> QED BY <4>1
    <3>2. n * (v + 1) = n * v + n * 1 /\ n * v \in Nat
      BY Distribute, ProductNat
    <3> QED BY <3>1, <3>2
  <2>2. ~ (n * w < n)
    BY <2>1
  <2>3. ~ (n < q)
    BY <1>3, <2>2
  <2> QED BY <2>3
<1>5. q \in 0..n
  BY <1>4
<1>6. q = (n + w - 1) \div w
  BY <1>1, <1>2, Zenon
<1> QED BY <1>3, <1>5, <1>6, Zenon

\* What is missing from length l and C more to a multiple of B.
Missing(B, C, l) == (B - C - (l % B) + B) % B

\* k - 1 zeros after a 1 pad it, and no other number below B does.
OnlyPadding(B, C, l, k) ==
    /\ k - 1 \in 0..(B - 1)
    /\ \E t \in Nat \ {0} : l + 1 + (k - 1) + C = t * B
    /\ \A z \in 0..(B - 1) : (l + 1 + z + C) % B = 0 <=> z = k - 1

\* The padding of a length l: k is the only number of bits, at most a block,
\* that make it, with C others, a whole number of blocks.
LEMMA Padding ==
    ASSUME NEW B \in Nat \ {0}, NEW C \in 1..(B - 1), NEW l \in Nat, NEW k \in Nat \ {0},
           k = Missing(B, C, l)
    PROVE  OnlyPadding(B, C, l, k)
<1>1. PICK q \in Nat, r \in 0..(B - 1) : l = q * B + r /\ r = l % B
  BY Divide
<1>2. PICK x \in Nat : x = B - C - r + B
  <2>1. B - C - r + B \in Nat
    OBVIOUS
  <2> QED BY <2>1
<1>3. k = x % B
  BY <1>1, <1>2, Zenon DEF Missing
<1>4. PICK e \in Nat : x = e * B + k /\ k \in 0..(B - 1)
  BY <1>3, Divide
<1>5. e < 2
  <2>1. x < 2 * B /\ e * B \in Nat
    BY <1>2, ProductNat
  <2>2. e * B < 2 * B
    BY <1>4, <2>1
  <2> QED BY <2>2, ProductLess
<1>6. PICK t \in Nat \ {0} : t = q + 2 - e
  <2>1. q + 2 - e \in Nat \ {0}
    BY <1>5
  <2> QED BY <2>1
<1>7. l + C + k = t * B
  <2>1. (t + e) * B = t * B + e * B /\ (q + 2) * B = q * B + 2 * B
    BY Distribute
  <2>2. t + e = q + 2
    BY <1>6
  <2>3. q * B \in Nat /\ e * B \in Nat /\ t * B \in Nat
    BY ProductNat
  <2>4. t * B + e * B = q * B + 2 * B
    BY <2>1, <2>2
  <2>5. PICK tB \in Nat, eB \in Nat, qB \in Nat : tB = t * B /\ eB = e * B /\ qB = q * B
    BY <2>3
  <2>6. tB + eB = qB + 2 * B
    BY <2>4, <2>5
  <2>7. l = qB + r /\ x = eB + k
    BY <1>1, <1>4, <2>5, Zenon
  <2>8. l + C + k = tB
    BY <1>2, <2>6, <2>7
  <2> QED BY <2>5, <2>8, Zenon
<1>8. ASSUME NEW z \in 0..(B - 1) PROVE (l + 1 + z + C) % B = 0 <=> z = k - 1
  <2>1. PICK y \in Nat : y = l + 1 + z + C
    OBVIOUS
  <2>2. PICK s \in Nat, v \in 0..(B - 1) : y = s * B + v /\ v = y % B
    BY Divide
  <2>3. CASE z = k - 1
    <3>1. y = t * B + 0
      <4>1. t * B \in Nat
        BY ProductNat
      <4> QED BY <1>7, <2>1, <2>3, <4>1
    <3>2. (t * B + 0) % B = 0
      <4>1. 0 \in 0..(B - 1) /\ t \in Nat
        OBVIOUS
      <4> QED BY <4>1, Divided, Zenon
    <3> QED BY <2>1, <2>3, <3>1, <3>2
  <2>4. ASSUME v = 0 PROVE z = k - 1
    <3>1. s * B + k = t * B + 1 + z /\ s * B \in Nat /\ t * B \in Nat
      <4>1. PICK sB \in Nat, tB \in Nat : sB = s * B /\ tB = t * B
        BY ProductNat
      <4>2. y = sB + v /\ l + C + k = tB
        BY <1>7, <2>2, <4>1, Zenon
      <4>3. sB + k = tB + 1 + z
        BY <2>1, <2>4, <4>2
      <4> QED BY <4>1, <4>3, Zenon
    <3>2. (s + 1) * B = s * B + 1 * B /\ (t + 1) * B = t * B + 1 * B
      BY Distribute
    <3>3. s * B < (t + 1) * B /\ t * B < (s + 1) * B
      BY <1>4, <3>1, <3>2
    <3>4. s < t + 1 /\ t < s + 1
      <4>1. PICK s1 \in Nat, t1 \in Nat : s1 = s + 1 /\ t1 = t + 1
        OBVIOUS
      <4>2. s * B < t1 * B /\ t * B < s1 * B
        BY <3>3, <4>1
      <4> QED BY <4>1, <4>2, ProductLess
    <3>5. s = t
      BY <3>4
    <3> QED BY <3>1, <3>5
  <2> QED BY <2>1, <2>2, <2>3, <2>4
<1>9. k - 1 \in 0..(B - 1) /\ l + 1 + (k - 1) + C = t * B
  <2>1. t * B \in Nat
    BY ProductNat
  <2> QED BY <1>4, <1>7, <2>1
<1> QED BY <1>8, <1>9 DEF OnlyPadding

\* A multiple of 8, in bytes.
LEMMA Eighths ==
    ASSUME NEW B \in Nat, B % 8 = 0, NEW i \in Nat
    PROVE  (i * B) \div 8 = i * (B \div 8)
<1>1. PICK w \in Nat : B = w * 8 /\ w = B \div 8
  OBVIOUS
<1>2. i * B = (i * w) * 8 + 0 /\ i * w \in Nat
  <2>1. (i * w) * 8 = i * (w * 8) /\ i * w \in Nat
    BY Associate, ProductNat
  <2> QED BY <1>1, <2>1
<1>3. ((i * w) * 8 + 0) \div 8 = i * w
  BY <1>2, Divided
<1> QED BY <1>1, <1>2, <1>3

\* Of so many blocks, as many.
LEMMA WholeBlocks ==
    ASSUME NEW B \in Nat \ {0}, NEW t \in Nat \ {0}
    PROVE  (t * B) \div B = t /\ (t * B + B - 1) \div B = t
<1>1. t * B + 0 = t * B /\ t * B + (B - 1) = t * B + B - 1
  BY ProductNat
<1>2. (t * B + 0) \div B = t /\ (t * B + (B - 1)) \div B = t
  BY Divided
<1> QED BY <1>1, <1>2

\* Induction up to a number.
LEMMA Climb ==
    ASSUME NEW n \in Nat, NEW T, 0 \in T, \A i \in 0..(n - 1) : i \in T => i + 1 \in T
    PROVE  \A i \in 0..n : i \in T
<1> DEFINE U == {k \in Nat : k <= n => k \in T}
<1>1. 0 \in U
  OBVIOUS
<1>2. ASSUME NEW k \in Nat, k \in U PROVE k + 1 \in U
  <2>1. CASE k + 1 <= n
    <3>1. k \in 0..(n - 1) /\ k \in T
      BY <1>2, <2>1
    <3> QED BY <3>1
  <2>2. CASE ~ (k + 1 <= n)
    BY <2>2
  <2> QED BY <2>1, <2>2
<1>3. Nat \subseteq U
  <2> HIDE DEF U
  <2> QED BY <1>1, <1>2, NatSet
<1> QED BY <1>3

\* A function computed step by step exists.
Recurs(f, a, s, n, V) == f \in [0..n -> V] /\ f[0] = a /\ \A i \in 1..n : f[i] = s[<<i, f[i - 1]>>]

LEMMA Recursion ==
    ASSUME NEW V, NEW a \in V, NEW n \in Nat, NEW s \in [(1..n) \X V -> V]
    PROVE  \E f : Recurs(f, a, s, n, V)
<1> DEFINE T == {k \in Nat : k <= n => \E f : Recurs(f, a, s, k, V)}
<1>1. 0 \in T
  <2> DEFINE f == [i \in 0..0 |-> a]
  <2>1. f \in [0..0 -> V] /\ f[0] = a /\ \A i \in 1..0 : f[i] = s[<<i, f[i - 1]>>]
    OBVIOUS
  <2>2. Recurs(f, a, s, 0, V)
    BY <2>1 DEF Recurs
  <2> HIDE DEF f
  <2> QED BY <2>2
<1>2. ASSUME NEW k \in Nat, k \in T PROVE k + 1 \in T
  <2>1. SUFFICES ASSUME k + 1 <= n PROVE \E f : Recurs(f, a, s, k + 1, V)
    OBVIOUS
  <2>2. PICK f : Recurs(f, a, s, k, V)
    BY <1>2, <2>1
  <2> DEFINE v == s[<<k + 1, f[k]>>]
             g == [i \in 0..(k + 1) |-> IF i = k + 1 THEN v ELSE f[i]]
  <2>3. f[k] \in V /\ k + 1 \in 1..n /\ <<k + 1, f[k]>> \in (1..n) \X V
    BY <2>1, <2>2 DEF Recurs
  <2>4. v \in V
    BY <2>3
  <2>5. g \in [0..(k + 1) -> V]
    BY <2>2, <2>4 DEF Recurs
  <2>6. g[0] = a
    BY <2>2 DEF Recurs
  <2>7. ASSUME NEW i \in 1..(k + 1) PROVE g[i] = s[<<i, g[i - 1]>>]
    <3>1. CASE i = k + 1
      <4>1. i - 1 = k /\ k \in 0..(k + 1) /\ k # k + 1 /\ i \in 0..(k + 1)
        BY <3>1
      <4>2. g[k] = f[k] /\ g[i] = v
        BY <4>1, <3>1
      <4> HIDE DEF g
      <4> QED BY <3>1, <4>1, <4>2
    <3>2. CASE i # k + 1
      <4>1. i \in 1..k /\ i - 1 \in 0..(k + 1) /\ i - 1 # k + 1 /\ i \in 0..(k + 1)
        BY <3>2
      <4>2. g[i - 1] = f[i - 1] /\ g[i] = f[i]
        BY <4>1, <3>2
      <4>3. f[i] = s[<<i, f[i - 1]>>]
        BY <4>1, <2>2 DEF Recurs
      <4> HIDE DEF g
      <4> QED BY <4>2, <4>3
    <3> QED BY <3>1, <3>2
  <2> HIDE DEF g
  <2>8. Recurs(g, a, s, k + 1, V)
    BY <2>5, <2>6, <2>7 DEF Recurs
  <2> QED BY <2>8
<1>3. n \in T
  <2> HIDE DEF T
  <2> QED BY <1>1, <1>2, NatSet
<1> QED BY <1>3

\* Dividing by twice as much.
LEMMA HalfDigit ==
    ASSUME NEW v \in Nat, NEW m \in Nat \ {0}
    PROVE  v % (2 * m) = (v % m) + ((v \div m) % 2) * m
<1>1. PICK q \in Nat, r \in 0..(m - 1) : v = q * m + r /\ q = v \div m /\ r = v % m
  BY Divide
<1>2. PICK h \in Nat, b \in {0, 1} : q = h * 2 + b /\ b = q % 2
  OBVIOUS
<1>3. PICK d \in Nat : d = 2 * m /\ d # 0
  OBVIOUS
<1>4. q * m = h * d + b * m
  <2>1. (h * 2 + b) * m = (h * 2) * m + b * m
    BY Distribute
  <2>2. (h * 2) * m = h * (2 * m)
    BY Associate
  <2> QED BY <1>2, <1>3, <2>1, <2>2
<1>5. PICK s \in 0..(d - 1) : s = b * m + r
  BY <1>2, <1>3
<1>6. v = h * d + s
  <2>1. PICK hd \in Nat : hd = h * d
    BY ProductNat
  <2>2. PICK bm \in Nat : bm = b * m
    BY <1>2
  <2> QED BY <1>1, <1>4, <1>5, <2>1, <2>2
<1>7. v % d = s
  BY <1>3, <1>6, Divided
<1>8. b * m + r = r + b * m
  BY <1>2
<1> QED BY <1>1, <1>2, <1>3, <1>5, <1>7, <1>8

\* The remainder of a sum.
LEMMA Remainder ==
    ASSUME NEW p \in Nat \ {0}, NEW s \in Nat
    PROVE  /\ s % p \in 0..(p - 1)
           /\ s < p => s % p = s
           /\ s >= p => (s - p) % p = s % p /\ s - p \in Nat
<1>1. PICK q \in Nat, r \in 0..(p - 1) : s = q * p + r /\ r = s % p
  BY Divide
<1>2. ASSUME s >= p PROVE (s - p) % p = s % p
  <2>1. q # 0
    <3>1. 0 * p = 0
      OBVIOUS
    <3> QED BY <1>1, <1>2, <3>1
  <2>2. PICK k \in Nat : q = k + 1
    <3>1. q - 1 \in Nat /\ q = (q - 1) + 1
      BY <2>1
    <3> QED BY <3>1
  <2>3. (k + 1) * p = k * p + 1 * p
    BY Distribute
  <2>4. k * p \in Nat
    BY ProductNat
  <2>5. s - p = k * p + r
    BY <1>1, <2>2, <2>3, <2>4
  <2> QED BY <1>1, <2>5, Divided, ZenonT(40)
<1>3. ASSUME s < p PROVE s % p = s
  BY <1>3
<1> QED BY <1>1, <1>2, <1>3

Congruent(a, b, p) == a % p = b % p

LEMMA SumRemainder ==
    ASSUME NEW p \in Nat \ {0}, NEW a \in Nat, NEW b \in Nat, NEW y \in Nat, Congruent(a, b, p)
    PROVE  Congruent(a + y, b + y, p)
<1> USE DEF Congruent
<1>1. PICK r \in 0..(p - 1) : r = a % p /\ r = b % p
  BY Divide
<1>2. ASSUME NEW c \in Nat, c % p = r PROVE (c + y) % p = (r + y) % p
  <2>1. PICK q \in Nat : c = q * p + r
    BY <1>2, Divide
  <2>2. PICK k \in Nat, s \in 0..(p - 1) : r + y = k * p + s /\ s = (r + y) % p
    <3>1. r + y \in Nat
      OBVIOUS
    <3> QED BY <3>1, Divide
  <2>3. PICK a1 \in Nat, b1 \in Nat : a1 = q * p /\ b1 = k * p
    BY ProductNat
  <2>4. PICK l \in Nat : l = q + k /\ l * p = a1 + b1
    BY <2>3, Distribute
  <2>5. c + y = l * p + s
    <3>1. c = a1 + r
      BY <2>1, <2>3
    <3>2. r + y = b1 + s
      BY <2>2, <2>3
    <3>3. l * p = a1 + b1
      BY <2>4
    <3> QED BY <3>1, <3>2, <3>3
  <2>6. (l * p + s) % p = s
    BY <2>2, <2>4, Divided
  <2> QED BY <2>2, <2>5, <2>6
<1> QED BY <1>1, <1>2

=============================================================================
