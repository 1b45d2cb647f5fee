------------------------- MODULE SecretSharingProofs -------------------------
(***************************************************************************)
(* Proofs about SecretSharing, for every prime order and three points: what*)
(* the arithmetic modulo the order computes, which shares pass the check of*)
(* a reconstruction, how Shamir shares become replicated ones, and what the*)
(* gadget makes of the labels of bits.                                     *)
(***************************************************************************)
EXTENDS SecretSharing, NumberLemmas, SequenceTheorems, FiniteSetTheorems, TLAPS

-----------------------------------------------------------------------------
(* Equality modulo the order.                                              *)

\* x and y are the same number of the field.
Same(x, y) == \E k \in Int : x = y + k * Order

\* The order, and what it makes of the field.
LEMMA OrderIs ==
    /\ Order \in Nat \ {0} /\ Order > 3 /\ 0 \in Field /\ 1 \in Field /\ Field \subseteq Nat
    /\ \A x \in Field : x \in Nat /\ x \in Int
  BY FieldAssumption DEF Field

\* Sameness is an equivalence.
LEMMA SameSelf == ASSUME NEW x \in Int PROVE Same(x, x)
<1>1. x = x + 0 * Order
  BY OrderIs
<1> QED BY <1>1 DEF Same

LEMMA SameBack == ASSUME NEW x \in Int, NEW y \in Int, Same(x, y) PROVE Same(y, x)
<1>1. PICK k \in Int : x = y + k * Order
  BY DEF Same
<1>2. (0 - k) * Order = 0 - k * Order /\ k * Order \in Int
  BY OrderIs, Distribute
<1>3. y = x + (0 - k) * Order
  BY <1>1, <1>2
<1> QED BY <1>3 DEF Same

LEMMA SameChain ==
    ASSUME NEW x \in Int, NEW y \in Int, NEW z \in Int, Same(x, y), Same(y, z) PROVE Same(x, z)
<1>1. PICK k \in Int : x = y + k * Order
  BY DEF Same
<1>2. PICK l \in Int : y = z + l * Order
  BY DEF Same
<1>3. (l + k) * Order = l * Order + k * Order /\ k * Order \in Int /\ l * Order \in Int
  BY OrderIs, Distribute
<1>4. x = z + (l + k) * Order
  BY <1>1, <1>2, <1>3
<1> QED BY <1>4 DEF Same

\* Sums, differences and products of same numbers are the same.
LEMMA SameSum ==
    ASSUME NEW x \in Int, NEW y \in Int, NEW u \in Int, NEW v \in Int, Same(x, y), Same(u, v)
    PROVE  Same(x + u, y + v) /\ Same(x - u, y - v)
<1>1. PICK k \in Int : x = y + k * Order
  BY DEF Same
<1>2. PICK l \in Int : u = v + l * Order
  BY DEF Same
<1>3. /\ (k + l) * Order = k * Order + l * Order /\ (k - l) * Order = k * Order - l * Order
      /\ k * Order \in Int /\ l * Order \in Int
  BY OrderIs, Distribute
<1>4. x + u = (y + v) + (k + l) * Order /\ x - u = (y - v) + (k - l) * Order
  BY <1>1, <1>2, <1>3
<1> QED BY <1>4 DEF Same

LEMMA SameAdded ==
    ASSUME NEW x \in Int, NEW y \in Int, NEW z \in Int, Same(x, y), Same(0, z) PROVE Same(x, y + z)
<1>1. 0 \in Int /\ x + 0 = x
  OBVIOUS
<1>2. Same(x + 0, y + z)
  BY <1>1, SameSum
<1> QED BY <1>1, <1>2

LEMMA SameProduct ==
    ASSUME NEW x \in Int, NEW y \in Int, NEW u \in Int, NEW v \in Int, Same(x, y), Same(u, v)
    PROVE  Same(x * u, y * v)
<1>1. PICK k \in Int : x = y + k * Order
  BY DEF Same
<1>2. PICK l \in Int : u = v + l * Order
  BY DEF Same
<1>3. x * u = y * v + (k * v + y * l + k * l * Order) * Order
  BY <1>1, <1>2, OrderIs
<1>4. k * v + y * l + k * l * Order \in Int
  BY OrderIs
<1> QED BY <1>3, <1>4 DEF Same

LEMMA SameTimes ==
    ASSUME NEW x \in Int, NEW y \in Int, NEW c \in Int, Same(x, y)
    PROVE  /\ Same(c * x, c * y) /\ Same(x * c, y * c)
           /\ c * x \in Int /\ c * y \in Int /\ x * c \in Int /\ y * c \in Int
<1>1. Same(c, c)
  BY SameSelf
<1>2. Same(c * x, c * y)
  BY <1>1, SameProduct
<1>3. Same(x * c, y * c)
  BY <1>1, SameProduct
<1> QED BY <1>2, <1>3

\* A remainder is the one number of the field that is the same.
LEMMA SameReduced ==
    ASSUME NEW x \in Int PROVE x % Order \in Field /\ Same(x % Order, x) /\ Same(x, x % Order)
<1>1. PICK q \in Int, r \in 0..(Order - 1) : x = q * Order + r /\ r = x % Order
  <2>1. x = (x \div Order) * Order + (x % Order) /\ x \div Order \in Int /\ x % Order \in 0..(Order - 1)
    BY OrderIs
  <2> QED BY <2>1
<1>2. x = r + q * Order
  BY <1>1, OrderIs
<1>3. Same(x, x % Order)
  BY <1>1, <1>2 DEF Same
<1> QED BY <1>1, <1>3, SameBack, OrderIs DEF Field

LEMMA SameInField ==
    ASSUME NEW x \in Field, NEW y \in Field, Same(x, y) PROVE x = y
<1>1. PICK k \in Int : x = y + k * Order
  BY DEF Same
<1>2. x \in 0..(Order - 1) /\ y \in 0..(Order - 1)
  BY DEF Field
<1>3. CASE k >= 1
  BY <1>1, <1>2, <1>3, OrderIs
<1>4. CASE k <= -1
  BY <1>1, <1>2, <1>4, OrderIs
<1>5. CASE k = 0
  BY <1>1, <1>2, <1>5, OrderIs
<1> QED BY <1>3, <1>4, <1>5

\* What Minus and Invert of the source compute.
LEMMA SameMinus ==
    ASSUME NEW x \in Field, NEW y \in Field
    PROVE  Minus(x, y) \in Field /\ Same(Minus(x, y), x - y)
<1>1. x \in Int /\ y \in Int /\ x - y \in Int /\ x - y + Order \in Int
  BY OrderIs
<1>2. Same(x - y + Order, x - y)
  <2>1. x - y + Order = (x - y) + 1 * Order
    BY <1>1, OrderIs
  <2> QED BY <2>1 DEF Same
<1>3. Minus(x, y) \in Field /\ Same(Minus(x, y), x - y + Order) /\ Minus(x, y) \in Int
  BY <1>1, SameReduced, OrderIs DEF Minus
<1> QED BY <1>1, <1>2, <1>3, SameChain

LEMMA SameInvert ==
    ASSUME NEW x \in Field \ {0} PROVE Invert(x) \in Field /\ Same(x * Invert(x), 1)
<1>1. \E y \in Field : (x * y) % Order = 1
  BY FieldAssumption
<1>2. Invert(x) \in Field /\ (x * Invert(x)) % Order = 1
  BY <1>1 DEF Invert
<1>3. x \in Int /\ Invert(x) \in Int
  BY <1>2, OrderIs
<1>4. x * Invert(x) \in Int
  BY <1>3
<1> QED BY <1>2, <1>4, SameReduced

\* A factor with an inverse can be cancelled.
LEMMA SameCancel ==
    ASSUME NEW d \in Int, NEW u \in Int, NEW y \in Int, NEW z \in Int, Same(d * u, 1), Same(d * y, d * z)
    PROVE  Same(y, z)
<1>1. /\ d * u \in Int /\ d * y \in Int /\ d * z \in Int /\ 1 \in Int
      /\ (d * u) * y \in Int /\ (d * u) * z \in Int
      /\ (d * y) * u = (d * u) * y /\ (d * z) * u = (d * u) * z /\ 1 * y = y /\ 1 * z = z
  OBVIOUS
<1>2. Same((d * y) * u, (d * z) * u)
  BY <1>1, SameProduct, SameSelf
<1>3. Same((d * u) * y, 1 * y) /\ Same((d * u) * z, 1 * z)
  BY <1>1, SameProduct, SameSelf
<1>4. Same((d * u) * y, (d * u) * z)
  BY <1>1, <1>2
<1>5. Same(y, (d * u) * y) /\ Same((d * u) * z, z)
  BY <1>1, <1>3, SameBack
<1>6. Same(y, (d * u) * z)
  BY <1>1, <1>4, <1>5, SameChain
<1> QED BY <1>1, <1>5, <1>6, SameChain

\* Different numbers of the field have a difference that can be inverted.
LEMMA Differ ==
    ASSUME NEW x \in Field, NEW y \in Field, x # y
    PROVE  /\ Minus(x, y) \in Field \ {0} /\ Invert(Minus(x, y)) \in Field
           /\ Same((x - y) * Invert(Minus(x, y)), 1)
<1>0. Minus(x, y) \in Field /\ Same(Minus(x, y), x - y)
  BY SameMinus
<1>1. x \in Int /\ y \in Int /\ x - y \in Int /\ Minus(x, y) \in Field /\ Minus(x, y) \in Int /\ Same(Minus(x, y), x - y)
  <2>1. x \in Int /\ y \in Int /\ Minus(x, y) \in Int
    BY <1>0, OrderIs
  <2> QED BY <1>0, <2>1
<1>2. ASSUME Minus(x, y) = 0 PROVE FALSE
  <2>1. Same(x - y, 0) /\ 0 \in Int
    BY <1>1, <1>2, SameBack
  <2>2. Same((x - y) + y, 0 + y)
    BY <1>1, <2>1, SameSum, SameSelf
  <2>3. (x - y) + y = x /\ 0 + y = y
    BY <1>1
  <2> QED BY <2>2, <2>3, SameInField
<1>3. Invert(Minus(x, y)) \in Field /\ Invert(Minus(x, y)) \in Int /\ Same(Minus(x, y) * Invert(Minus(x, y)), 1)
  BY <1>1, <1>2, SameInvert, OrderIs
<1>4. PICK u \in Int : u = Invert(Minus(x, y))
  BY <1>3
<1>5. Same((x - y) * u, Minus(x, y) * u)
  <2>1. Same(x - y, Minus(x, y))
    BY <1>1, SameBack
  <2> QED BY <1>1, <1>4, <2>1, SameTimes
<1>6. (x - y) * u \in Int /\ Minus(x, y) * u \in Int /\ 1 \in Int
  BY <1>1, <1>4
<1>7. Same((x - y) * u, 1)
  BY <1>3, <1>4, <1>5, <1>6, SameChain
<1> QED BY <1>1, <1>2, <1>3, <1>4, <1>7

LEMMA ThreeProducts ==
    ASSUME NEW x \in Int, NEW y \in Int, NEW z \in Int PROVE x * y * z \in Int /\ x * y * z = (x * y) * z
  OBVIOUS

\* Two points of a line give the others.
LEMMA Interpolates ==
    ASSUME NEW x \in Field, NEW y \in Field, NEW t \in Field, NEW fx \in Field, NEW fy \in Field, x # y,
           NEW s \in Int, NEW a \in Int, Same(fx, s + a * x), Same(fy, s + a * y)
    PROVE  InterpolateAt(x, fx, y, fy, t) \in Field /\ Same(InterpolateAt(x, fx, y, fy, t), s + a * t)
<1>1. PICK p \in Int : p = Invert(Minus(y, x)) /\ Same((y - x) * p, 1)
  <2>1. Invert(Minus(y, x)) \in Int /\ Same((y - x) * Invert(Minus(y, x)), 1)
    BY Differ, OrderIs
  <2> QED BY <2>1
<1>2. PICK q \in Int : q = Invert(Minus(x, y)) /\ Same((x - y) * q, 1)
  <2>1. Invert(Minus(x, y)) \in Int /\ Same((x - y) * Invert(Minus(x, y)), 1)
    BY Differ, OrderIs
  <2> QED BY <2>1
<1>3. x \in Int /\ y \in Int /\ t \in Int /\ fx \in Int /\ fy \in Int
  BY OrderIs
<1>6. PICK gx \in Int, gy \in Int : gx = s + a * x /\ gy = s + a * y /\ Same(fx, gx) /\ Same(fy, gy)
  BY <1>3
<1>7. PICK yt \in Int, xt \in Int, d \in Int : yt = y - t /\ xt = x - t /\ d = y - x
  BY <1>3
<1>4. PICK v \in Int : v = Minus(y, t) /\ Same(v, yt)
  <2>1. Minus(y, t) \in Int /\ Same(Minus(y, t), y - t)
    BY SameMinus, OrderIs
  <2> QED BY <1>7, <2>1
<1>5. PICK w \in Int : w = Minus(x, t) /\ Same(w, xt)
  <2>1. Minus(x, t) \in Int /\ Same(Minus(x, t), x - t)
    BY SameMinus, OrderIs
  <2> QED BY <1>7, <2>1
<1>f. Same(fx, gx) /\ Same(fy, gy)
  BY <1>6
<1>8. PICK r \in Int, g \in Int : r = (fx * v) * p /\ g = gx * yt /\ Same(r, g * p)
  <2>0. fx \in Int /\ Same(fx, gx) /\ Same(v, yt)
    BY <1>3, <1>4, <1>f
  <2>1. Same(fx * v, gx * yt) /\ fx * v \in Int /\ gx * yt \in Int
    <3>1. Same(fx * v, gx * yt)
      BY <2>0, SameProduct
    <3> QED BY <2>0, <3>1
  <2>2. Same((fx * v) * p, (gx * yt) * p) /\ (fx * v) * p \in Int
    BY <1>1, <2>1, SameTimes
  <2> QED BY <2>1, <2>2
<1>9. PICK u \in Int, h \in Int : u = (fy * w) * q /\ h = gy * xt /\ Same(u, h * q)
  <2>0. fy \in Int /\ Same(fy, gy) /\ Same(w, xt)
    BY <1>3, <1>5, <1>f
  <2>1. Same(fy * w, gy * xt) /\ fy * w \in Int /\ gy * xt \in Int
    <3>1. Same(fy * w, gy * xt)
      BY <2>0, SameProduct
    <3> QED BY <2>0, <3>1
  <2>2. Same((fy * w) * q, (gy * xt) * q) /\ (fy * w) * q \in Int
    BY <1>2, <2>1, SameTimes
  <2> QED BY <2>1, <2>2
<1>10. Same(d * r, g)
  <2>1. PICK e \in Int, gp \in Int : e = d * p /\ Same(e, 1) /\ gp = g * p
    BY <1>1, <1>7, <1>8
  <2>2. Same(d * r, d * gp) /\ d * r \in Int /\ d * gp \in Int
    BY <1>7, <1>8, <2>1, SameTimes
  <2>3. d * gp = g * e /\ 1 \in Int /\ g * 1 = g
    BY <1>1, <1>7, <1>8, <2>1
  <2>4. Same(g * e, g * 1)
    BY <1>8, <2>1, <2>3, SameTimes
  <2> QED BY <1>8, <2>1, <2>2, <2>3, <2>4, SameChain
<1>11. Same(d * u, 0 - h)
  <2>1. PICK e \in Int, hq \in Int, k \in Int : e = (x - y) * q /\ Same(e, 1) /\ hq = h * q /\ k = 0 - h
    BY <1>2, <1>3, <1>9
  <2>2. Same(d * u, d * hq) /\ d * u \in Int /\ d * hq \in Int
    BY <1>7, <1>9, <2>1, SameTimes
  <2>3. d * hq = k * e /\ 1 \in Int /\ k * 1 = k
    BY <1>2, <1>3, <1>7, <1>9, <2>1
  <2>4. Same(k * e, k * 1)
    BY <2>1, <2>3, SameTimes
  <2> QED BY <2>1, <2>2, <2>3, <2>4, SameChain
<1>12. g + (0 - h) = d * (s + a * t)
  BY <1>3, <1>6, <1>7, <1>8, <1>9
<1>13. Same(d * (r + u), d * (s + a * t))
  <2>1. 0 - h \in Int /\ d * r \in Int /\ d * u \in Int
    BY <1>7, <1>8, <1>9
  <2>2. Same(d * r + d * u, g + (0 - h))
    BY <1>8, <1>10, <1>11, <2>1, SameSum
  <2>3. d * (r + u) = d * r + d * u
    BY <1>7, <1>8, <1>9, Distribute
  <2> QED BY <1>12, <2>2, <2>3
<1>14. Same(r + u, s + a * t)
  <2>1. r + u \in Int /\ s + a * t \in Int /\ Same(d * p, 1)
    BY <1>1, <1>3, <1>7, <1>8, <1>9
  <2> QED BY <1>1, <1>7, <1>13, <2>1, SameCancel
<1>15. InterpolateAt(x, fx, y, fy, t) = (r + u) % Order
  BY <1>1, <1>2, <1>4, <1>5, <1>8, <1>9 DEF InterpolateAt
<1>16. r + u \in Int /\ s + a * t \in Int
  BY <1>3, <1>8, <1>9
<1>17. (r + u) % Order \in Field /\ (r + u) % Order \in Int /\ Same((r + u) % Order, r + u)
  BY <1>16, SameReduced, OrderIs
<1> QED BY <1>14, <1>15, <1>16, <1>17, SameChain

-----------------------------------------------------------------------------
(* Shares on a line.                                                       *)

\* The three shares x are the values, at the points of the parties, of the line
\* with value s at 0 and slope a.
IsLine(x, s, a) == \A j \in 0..2 : Same(x[j], s + a * Points[j])

LEMMA ThePoints ==
    /\ \A j \in 0..2 : Points[j] \in Field \ {0} /\ Points[j] \in Int
    /\ \A j, k \in 0..2 : j # k => Points[j] # Points[k]
  BY FieldAssumption, OrderIs

LEMMA ThreeParties ==
    ASSUME NEW i \in 0..2
    PROVE  /\ (i + 1) % 3 \in 0..2 /\ (i + 2) % 3 \in 0..2
           /\ i # (i + 1) % 3 /\ i # (i + 2) % 3 /\ (i + 1) % 3 # (i + 2) % 3
           /\ \A j \in 0..2 : j = i \/ j = (i + 1) % 3 \/ j = (i + 2) % 3
  OBVIOUS

\* A line's shares pass the check at every party, and give each its value at 0.
LEMMA LinePasses ==
    ASSUME NEW x \in [0..2 -> Field], NEW s \in Field, NEW a \in Int, IsLine(x, s, a), NEW i \in 0..2
    PROVE  /\ OnLine(x[i], x[(i + 1) % 3], x[(i + 2) % 3], i)
           /\ Reconstructed(x[i], x[(i + 2) % 3], i) = s
<1>1. PICK j \in 0..2, k \in 0..2 : j = (i + 1) % 3 /\ k = (i + 2) % 3 /\ i # k
  BY ThreeParties
<1>2. PICK p \in Field, q \in Field, t \in Field : p = Points[i] /\ q = Points[k] /\ t = Points[j] /\ p # q
  BY <1>1, ThePoints
<1>3. PICK u \in Field, v \in Field, w \in Field : u = x[i] /\ v = x[k] /\ w = x[j]
  OBVIOUS
<1>4. Same(u, s + a * p) /\ Same(v, s + a * q) /\ Same(w, s + a * t)
  BY <1>1, <1>2, <1>3 DEF IsLine
<1>5. s \in Int /\ p \in Int /\ q \in Int /\ t \in Int /\ w \in Int /\ 0 \in Field
  BY OrderIs
<1>6. InterpolateAt(p, u, q, v, t) \in Field /\ Same(InterpolateAt(p, u, q, v, t), s + a * t)
  BY <1>2, <1>4, <1>5, Interpolates
<1>7. InterpolateAt(p, u, q, v, 0) \in Field /\ Same(InterpolateAt(p, u, q, v, 0), s + a * 0)
  BY <1>2, <1>4, <1>5, Interpolates
<1>8. InterpolateAt(p, u, q, v, 0) = s
  <2>1. s + a * 0 = s
    BY <1>5
  <2> QED BY <1>7, <2>1, SameInField
<1>9. InterpolateAt(p, u, q, v, t) = w
  <2>1. PICK z \in Int, e \in Int : z = InterpolateAt(p, u, q, v, t) /\ e = s + a * t /\ Same(z, e) /\ Same(w, e)
    <3>1. InterpolateAt(p, u, q, v, t) \in Int
      BY <1>6, OrderIs
    <3>2. s + a * t \in Int
      BY <1>5
    <3> QED BY <1>4, <1>6, <3>1, <3>2
  <2>2. Same(e, w)
    BY <1>5, <2>1, SameBack
  <2>3. Same(z, w)
    BY <1>5, <2>1, <2>2, SameChain
  <2> QED BY <1>6, <2>1, <2>3, SameInField
<1> QED BY <1>1, <1>2, <1>3, <1>8, <1>9 DEF OnLine, Reconstructed

\* Shares that pass it at one party are a line's.
LEMMA PassesLine ==
    ASSUME NEW x \in [0..2 -> Field], NEW i \in 0..2, OnLine(x[i], x[(i + 1) % 3], x[(i + 2) % 3], i)
    PROVE  \E s \in Field, a \in Field : IsLine(x, s, a)
<1>1. PICK j \in 0..2, k \in 0..2 : j = (i + 1) % 3 /\ k = (i + 2) % 3 /\ i # k
  BY ThreeParties
<1>2. PICK p \in Field, q \in Field, t \in Field : p = Points[i] /\ q = Points[k] /\ t = Points[j] /\ p # q
  BY <1>1, ThePoints
<1>3. PICK u \in Field, v \in Field, w \in Field : u = x[i] /\ v = x[k] /\ w = x[j]
  OBVIOUS
<1>4. w = InterpolateAt(p, u, q, v, t)
  BY <1>1, <1>2, <1>3 DEF OnLine
<1>5. p \in Int /\ q \in Int /\ t \in Int /\ u \in Int /\ v \in Int /\ w \in Int
  BY OrderIs
<1>6. PICK c \in Int : Same((p - q) * c, 1)
  BY <1>2, Differ, OrderIs
<1>7. PICK d \in Int, e \in Int : d = p - q /\ e = u - v /\ Same(d * c, 1)
  BY <1>5, <1>6
<1>8. PICK a \in Field : a \in Int /\ Same(a, e * c)
  <2>1. e * c \in Int
    BY <1>7
  <2> QED BY <2>1, SameReduced, OrderIs
<1>9. PICK s \in Field : s \in Int /\ Same(s, u - a * p)
  <2>1. u - a * p \in Int
    BY <1>5, <1>8
  <2> QED BY <2>1, SameReduced, OrderIs
<1>10. Same(u, s + a * p)
  <2>1. PICK m \in Int, g \in Int : m = a * p /\ g = u - m /\ Same(g, s)
    <3>1. Same(u - a * p, s) /\ u - a * p \in Int /\ a * p \in Int
      BY <1>5, <1>8, <1>9, SameBack
    <3> QED BY <3>1
  <2>2. Same(g + m, s + m)
    BY <1>9, <2>1, SameSum, SameSelf
  <2> QED BY <1>5, <2>1, <2>2
<1>11. Same(v, s + a * q)
  <2>1. Same(a * d, e)
    <3>1. PICK ec \in Int, cd \in Int : ec = e * c /\ cd = d * c /\ Same(a, ec) /\ Same(cd, 1)
      BY <1>7, <1>8
    <3>2. Same(a * d, ec * d) /\ a * d \in Int /\ ec * d \in Int
      BY <1>7, <1>8, <3>1, SameTimes
    <3>3. ec * d = e * cd /\ 1 \in Int /\ e * 1 = e
      BY <1>7, <3>1
    <3>4. Same(e * cd, e * 1)
      BY <1>7, <3>1, <3>3, SameTimes
    <3> QED BY <1>7, <3>2, <3>3, <3>4, SameChain
  <2>2. PICK ad \in Int, ap \in Int, aq \in Int : ad = a * d /\ ap = a * p /\ aq = a * q /\ Same(ad, e)
    BY <1>5, <1>7, <1>8, <2>1
  <2>3. s + ap \in Int /\ s + aq \in Int /\ (s + ap) - ad = s + aq /\ u - e = v
    BY <1>5, <1>7, <1>9, <2>2
  <2>4. Same(u, s + ap)
    BY <1>10, <2>2
  <2>5. Same(u - e, (s + ap) - ad)
    <3>1. Same(e, ad)
      BY <1>7, <2>2, SameBack
    <3> QED BY <1>5, <1>7, <2>2, <2>3, <2>4, <3>1, SameSum
  <2> QED BY <2>2, <2>3, <2>5
<1>12. Same(w, s + a * t)
  BY <1>2, <1>4, <1>8, <1>9, <1>10, <1>11, Interpolates
<1>13. \A n \in 0..2 : n = i \/ n = j \/ n = k
  BY <1>1, ThreeParties
<1>14. IsLine(x, s, a)
  BY <1>2, <1>3, <1>10, <1>11, <1>12, <1>13 DEF IsLine
<1> QED BY <1>14

-----------------------------------------------------------------------------
(* The random shares that hide a secret.                                   *)

\* The factors by which rss_pair_to_shamir multiplies its two parts.
LEMMA PairFactors ==
    ASSUME NEW m \in Field \ {0}
    PROVE  \E w \in Field : /\ Same(1 + m * w, 0)
                           /\ \A j \in Field : PairFactor(j, m) \in Field /\ Same(PairFactor(j, m), 1 + j * w)
<1>1. m \in Field /\ m \in Int /\ 0 \in Field /\ 0 # m /\ 0 \in Int
  BY OrderIs
<1>2. PICK w \in Field : w = Invert(Minus(0, m)) /\ Same((0 - m) * w, 1)
  BY <1>1, Differ
<1>3. w \in Int
  BY OrderIs
<1>4. Same(1 + m * w, 0)
  <2>1. PICK e \in Int : e = (0 - m) * w /\ Same(e, 1)
    BY <1>1, <1>2, <1>3
  <2>2. Same(1, e) /\ 1 \in Int
    BY <2>1, SameBack
  <2>3. Same(1 - e, e - e)
    BY <2>1, <2>2, SameSum, SameSelf
  <2>4. 1 - e = 1 + m * w /\ e - e = 0
    BY <1>1, <1>3, <2>1
  <2> QED BY <2>3, <2>4
<1>5. ASSUME NEW j \in Field PROVE PairFactor(j, m) \in Field /\ Same(PairFactor(j, m), 1 + j * w)
  <2>1. j \in Int
    BY OrderIs
  <2>2. PICK v \in Int, d \in Int : v = Minus(j, m) /\ d = j - m /\ Same(v, d)
    <3>1. Minus(j, m) \in Int /\ Same(Minus(j, m), j - m)
      BY <1>1, SameMinus, OrderIs
    <3> QED BY <1>1, <2>1, <3>1
  <2>3. PICK e \in Int, jw \in Int : e = (0 - m) * w /\ jw = j * w /\ Same(e, 1)
    BY <1>1, <1>2, <1>3, <2>1
  <2>4. Same(v * w, d * w) /\ v * w \in Int /\ d * w \in Int
    BY <1>3, <2>2, SameTimes
  <2>5. d * w = e + jw
    BY <1>1, <1>3, <2>1, <2>2, <2>3
  <2>6. Same(e + jw, 1 + jw) /\ e + jw \in Int /\ 1 + jw \in Int
    <3>1. Same(jw, jw) /\ Same(e, 1) /\ 1 \in Int
      BY <2>3, SameSelf
    <3>2. Same(e + jw, 1 + jw)
      BY <3>1, SameSum
    <3> QED BY <3>2
  <2>7. Same(v * w, 1 + jw)
    BY <2>4, <2>5, <2>6, SameChain
  <2>8. (v * w) % Order \in Field /\ (v * w) % Order \in Int /\ Same((v * w) % Order, v * w)
    BY <2>4, SameReduced, OrderIs
  <2>9. PairFactor(j, m) = (v * w) % Order
    BY <1>2, <2>2 DEF PairFactor
  <2> QED BY <2>3, <2>4, <2>6, <2>7, <2>8, <2>9, SameChain
<1> QED BY <1>4, <1>5

\* Two terms stand for three of which the last vanishes.
LEMMA TwoOfThree ==
    ASSUME NEW a \in Field, NEW b \in Field, NEW c \in Field, NEW f \in Field, NEW g \in Field,
           NEW u \in Int, NEW v \in Int, NEW z \in Int, Same(f, u), Same(g, v), Same(z, 0)
    PROVE  (a * f + b * g) % Order \in Field /\ Same((a * f + b * g) % Order, a * u + b * v + c * z)
<1>1. a \in Int /\ b \in Int /\ c \in Int /\ f \in Int /\ g \in Int
  BY OrderIs
<1>2. PICK af \in Int, au \in Int : af = a * f /\ au = a * u /\ Same(af, au)
  BY <1>1, SameTimes
<1>3. PICK bg \in Int, bv \in Int : bg = b * g /\ bv = b * v /\ Same(bg, bv)
  BY <1>1, SameTimes
<1>4. PICK cz \in Int : cz = c * z /\ Same(0, cz)
  <2>1. 0 \in Int /\ c * 0 = 0 /\ c * z \in Int
    BY <1>1
  <2>2. Same(c * z, c * 0)
    BY <1>1, <2>1, SameTimes
  <2>3. Same(0, c * z)
    BY <2>1, <2>2, SameBack
  <2> QED BY <2>1, <2>3
<1>5. PICK m \in Int, o \in Int : m = af + bg /\ o = au + bv /\ Same(m, o)
  <2>1. Same(af, au) /\ Same(bg, bv)
    BY <1>2, <1>3
  <2>2. Same(af + bg, au + bv)
    BY <2>1, SameSum
  <2> QED BY <2>2
<1>6. Same(m, o + cz)
  BY <1>4, <1>5, SameAdded
<1>7. m % Order \in Field /\ m % Order \in Int /\ Same(m % Order, m)
  BY SameReduced, OrderIs
<1>8. Same(m % Order, o + cz)
  BY <1>6, <1>7, SameChain
<1> QED BY <1>2, <1>3, <1>4, <1>5, <1>7, <1>8

\* Random parts, each known to two parties, give the three shares of their sum.
LEMMA MaskOnLine ==
    ASSUME NEW n \in [0..2 -> Field]
    PROVE  /\ \A i \in 0..2 : RssPairToShamir(n[(i + 2) % 3], n[i], i) \in Field
           /\ \E a \in Int : IsLine([i \in 0..2 |-> RssPairToShamir(n[(i + 2) % 3], n[i], i)], n[0] + n[1] + n[2], a)
<1> DEFINE R == [i \in 0..2 |-> RssPairToShamir(n[(i + 2) % 3], n[i], i)]
<1>1. 0 \in 0..2 /\ 1 \in 0..2 /\ 2 \in 0..2
  OBVIOUS
<1>2. PICK p \in Field, q \in Field, t \in Field :
        /\ p = Points[0] /\ q = Points[1] /\ t = Points[2] /\ p # 0 /\ q # 0 /\ t # 0
  BY <1>1, ThePoints
<1>3. PICK u \in Field : Same(1 + p * u, 0) /\ \A j \in Field : PairFactor(j, p) \in Field /\ Same(PairFactor(j, p), 1 + j * u)
  BY <1>2, PairFactors
<1>4. PICK v \in Field : Same(1 + q * v, 0) /\ \A j \in Field : PairFactor(j, q) \in Field /\ Same(PairFactor(j, q), 1 + j * v)
  BY <1>2, PairFactors
<1>5. PICK w \in Field : Same(1 + t * w, 0) /\ \A j \in Field : PairFactor(j, t) \in Field /\ Same(PairFactor(j, t), 1 + j * w)
  BY <1>2, PairFactors
<1>6. PICK a \in Field, b \in Field, c \in Field : a = n[0] /\ b = n[1] /\ c = n[2]
  BY <1>1
<1>7. /\ p \in Int /\ q \in Int /\ t \in Int /\ u \in Int /\ v \in Int /\ w \in Int
      /\ a \in Int /\ b \in Int /\ c \in Int
  BY OrderIs
<1>8. PICK s \in Int, d \in Int : s = a + b + c /\ d = a * w + b * u + c * v
  BY <1>7
<1>9. R[0] \in Field /\ Same(R[0], s + d * p)
  <2>1. PICK f \in Field, g \in Field : f = PairFactor(p, t) /\ g = PairFactor(p, q) /\ Same(f, 1 + p * w) /\ Same(g, 1 + p * v)
    BY <1>4, <1>5
  <2>2. PICK e \in Int, h \in Int, z \in Int : e = 1 + p * w /\ h = 1 + p * v /\ z = 1 + p * u /\ Same(f, e) /\ Same(g, h) /\ Same(z, 0)
    BY <1>3, <1>7, <2>1
  <2>3. R[0] = (a * f + c * g) % Order
    BY <1>1, <1>2, <1>6, <2>1 DEF RssPairToShamir
  <2>4. a * e + c * h + b * z = s + d * p
    BY <1>7, <1>8, <2>2
  <2>5. Same(f, e) /\ Same(g, h) /\ Same(z, 0)
    BY <2>2
  <2>6. /\ (a * f + c * g) % Order \in Field
        /\ Same((a * f + c * g) % Order, a * e + c * h + b * z)
    BY <2>5, TwoOfThree
  <2> QED BY <2>3, <2>4, <2>6
<1>10. R[1] \in Field /\ Same(R[1], s + d * q)
  <2>1. PICK f \in Field, g \in Field : f = PairFactor(q, t) /\ g = PairFactor(q, p) /\ Same(f, 1 + q * w) /\ Same(g, 1 + q * u)
    BY <1>3, <1>5
  <2>2. PICK e \in Int, h \in Int, z \in Int : e = 1 + q * w /\ h = 1 + q * u /\ z = 1 + q * v /\ Same(f, e) /\ Same(g, h) /\ Same(z, 0)
    BY <1>4, <1>7, <2>1
  <2>3. R[1] = (a * f + b * g) % Order
    BY <1>1, <1>2, <1>6, <2>1 DEF RssPairToShamir
  <2>4. a * e + b * h + c * z = s + d * q
    BY <1>7, <1>8, <2>2
  <2>5. Same(f, e) /\ Same(g, h) /\ Same(z, 0)
    BY <2>2
  <2>6. /\ (a * f + b * g) % Order \in Field
        /\ Same((a * f + b * g) % Order, a * e + b * h + c * z)
    BY <2>5, TwoOfThree
  <2> QED BY <2>3, <2>4, <2>6
<1>11. R[2] \in Field /\ Same(R[2], s + d * t)
  <2>1. PICK f \in Field, g \in Field : f = PairFactor(t, q) /\ g = PairFactor(t, p) /\ Same(f, 1 + t * v) /\ Same(g, 1 + t * u)
    BY <1>3, <1>4
  <2>2. PICK e \in Int, h \in Int, z \in Int : e = 1 + t * v /\ h = 1 + t * u /\ z = 1 + t * w /\ Same(f, e) /\ Same(g, h) /\ Same(z, 0)
    BY <1>5, <1>7, <2>1
  <2>3. R[2] = (c * f + b * g) % Order
    BY <1>1, <1>2, <1>6, <2>1 DEF RssPairToShamir
  <2>4. c * e + b * h + a * z = s + d * t
    BY <1>7, <1>8, <2>2
  <2>5. Same(f, e) /\ Same(g, h) /\ Same(z, 0)
    BY <2>2
  <2>6. /\ (c * f + b * g) % Order \in Field
        /\ Same((c * f + b * g) % Order, c * e + b * h + a * z)
    BY <2>5, TwoOfThree
  <2> QED BY <2>3, <2>4, <2>6
<1>12. \A i \in 0..2 : i = 0 \/ i = 1 \/ i = 2
  OBVIOUS
<1>13. \A i \in 0..2 : R[i] \in Field /\ Same(R[i], s + d * Points[i])
  BY <1>2, <1>9, <1>10, <1>11, <1>12
<1>14. IsLine(R, n[0] + n[1] + n[2], d)
  BY <1>6, <1>8, <1>13 DEF IsLine
<1>15. \A i \in 0..2 : RssPairToShamir(n[(i + 2) % 3], n[i], i) \in Field
  BY <1>13
<1> QED BY <1>14, <1>15

-----------------------------------------------------------------------------
(* From Shamir shares to replicated ones.                                  *)

\* What the parties send of their shares x when n[i] is the random part that
\* parties i and i + 1 have in common, and what they end with.
PaddedShares(x, n) == [i \in 0..2 |-> (x[i] + RssPairToShamir(n[(i + 2) % 3], n[i], i)) % Order]

ConvertedShares(p, n) ==
    [i \in 0..2 |-> FinalizeShamirToRss(Reconstructed(p[i], p[(i + 2) % 3], i), n[(i + 2) % 3], n[i], i)]

\* Padding adds to the three shares those of one other line.
LEMMA PaddedIs ==
    ASSUME NEW x \in [0..2 -> Field], NEW n \in [0..2 -> Field]
    PROVE  /\ PaddedShares(x, n) \in [0..2 -> Field]
           /\ \E s \in Int, a \in Int : /\ s = n[0] + n[1] + n[2]
                                      /\ \A i \in 0..2 : Same(PaddedShares(x, n)[i], x[i] + (s + a * Points[i]))
<1> DEFINE R == [i \in 0..2 |-> RssPairToShamir(n[(i + 2) % 3], n[i], i)]
<1>1. PICK a \in Int : IsLine(R, n[0] + n[1] + n[2], a)
  BY MaskOnLine
<1>2. PICK s \in Int : s = n[0] + n[1] + n[2]
  <2>1. n[0] \in Field /\ n[1] \in Field /\ n[2] \in Field
    OBVIOUS
  <2>2. n[0] \in Int /\ n[1] \in Int /\ n[2] \in Int
    BY <2>1, OrderIs
  <2> QED BY <2>2
<1>3. ASSUME NEW i \in 0..2
      PROVE  PaddedShares(x, n)[i] \in Field /\ Same(PaddedShares(x, n)[i], x[i] + (s + a * Points[i]))
  <2>1. PICK r \in Int : r = RssPairToShamir(n[(i + 2) % 3], n[i], i) /\ r = R[i]
    BY MaskOnLine, OrderIs
  <2>2. PICK u \in Int, p \in Int : u = x[i] /\ p = Points[i]
    BY ThePoints, OrderIs
  <2>3. PICK v \in Int : v = s + a * p /\ Same(r, v)
    <3>1. Same(r, s + a * p) /\ s + a * p \in Int
      BY <1>1, <1>2, <2>1, <2>2 DEF IsLine
    <3> QED BY <3>1
  <2>4. PICK m \in Int, o \in Int : m = u + r /\ o = u + v /\ Same(m, o)
    <3>1. Same(u, u)
      BY SameSelf
    <3>2. Same(u + r, u + v)
      BY <2>3, <3>1, SameSum
    <3> QED BY <3>2
  <2>5. m % Order \in Field /\ m % Order \in Int /\ Same(m % Order, m)
    BY SameReduced, OrderIs
  <2>6. Same(m % Order, o)
    BY <2>4, <2>5, SameChain
  <2>7. PaddedShares(x, n)[i] = m % Order
    BY <2>1, <2>2, <2>4 DEF PaddedShares
  <2> QED BY <2>2, <2>3, <2>4, <2>5, <2>6, <2>7
<1>4. PaddedShares(x, n) \in [0..2 -> Field]
  <2>1. PaddedShares(x, n) = [i \in 0..2 |-> PaddedShares(x, n)[i]]
    BY DEF PaddedShares
  <2> QED BY <1>3, <2>1
<1> QED BY <1>2, <1>3, <1>4

\* Shares of a line become replicated shares of its value at 0, at three
\* parties whose checks all pass, whatever the random parts.
LEMMA LineConverts ==
    ASSUME NEW x \in [0..2 -> Field], NEW n \in [0..2 -> Field], NEW s \in Field, NEW a \in Int, IsLine(x, s, a),
           NEW p, p = PaddedShares(x, n), NEW c, c = ConvertedShares(p, n)
    PROVE  /\ \A i \in 0..2 : /\ OnLine(p[i], p[(i + 1) % 3], p[(i + 2) % 3], i)
                              /\ c[i].next = c[(i + 1) % 3].prev
           /\ (c[0].prev + c[1].prev + c[2].prev) % Order = s
<1>1. PICK r \in Int, b \in Int : r = n[0] + n[1] + n[2] /\ p \in [0..2 -> Field]
                                /\ \A i \in 0..2 : Same(p[i], x[i] + (r + b * Points[i]))
  BY PaddedIs
<1>2. s \in Int
  BY OrderIs
<1>3. PICK z \in Field : z \in Int /\ Same(z, s + r) /\ Same(s + r, z)
  <2>1. s + r \in Int
    BY <1>2
  <2> QED BY <2>1, SameReduced, OrderIs
<1>4. IsLine(p, z, a + b)
  <2> SUFFICES ASSUME NEW i \in 0..2 PROVE Same(p[i], z + (a + b) * Points[i])
    BY DEF IsLine
  <2>1. PICK q \in Int, u \in Int, v \in Int : q = Points[i] /\ u = x[i] /\ v = p[i]
    BY <1>1, ThePoints, OrderIs
  <2>2. PICK aq \in Int, bq \in Int : aq = a * q /\ bq = b * q
    OBVIOUS
  <2>3. Same(v, u + (r + bq)) /\ Same(u, s + aq)
    BY <1>1, <2>1, <2>2 DEF IsLine
  <2>4. PICK k \in Int, l \in Int, m \in Int : k = r + bq /\ l = s + aq /\ m = s + r
    BY <1>2, <2>2
  <2>5. Same(u + k, l + k) /\ Same(v, u + k)
    <3>1. Same(k, k) /\ Same(u, l) /\ Same(v, u + k)
      BY <2>3, <2>4, SameSelf
    <3>2. Same(u + k, l + k)
      BY <3>1, SameSum
    <3> QED BY <3>1, <3>2
  <2>6. u + k \in Int /\ l + k \in Int
    OBVIOUS
  <2>7. Same(v, l + k)
    BY <2>5, <2>6, SameChain
  <2>8. PICK e \in Int : e = aq + bq
    BY <2>2
  <2>9. Same(m + e, z + e)
    <3>1. Same(m, z) /\ Same(e, e) /\ z \in Int
      BY <1>3, <2>4, SameSelf
    <3> QED BY <3>1, SameSum
  <2>10. l + k = m + e /\ z + e \in Int /\ e = (a + b) * q
    BY <1>2, <1>3, <2>2, <2>4, <2>8, Distribute
  <2>11. Same(v, z + e)
    <3>1. Same(v, m + e) /\ m + e \in Int
      BY <2>7, <2>10, <2>6
    <3> QED BY <2>9, <2>10, <3>1, SameChain
  <2> QED BY <2>1, <2>10, <2>11
<1>5. \A i \in 0..2 : /\ OnLine(p[i], p[(i + 1) % 3], p[(i + 2) % 3], i)
                     /\ Reconstructed(p[i], p[(i + 2) % 3], i) = z
  <2>1. a + b \in Int
    OBVIOUS
  <2> QED BY <1>1, <1>3, <1>4, <2>1, LinePasses
<1>6. \A i \in 0..2 : c[i] = FinalizeShamirToRss(z, n[(i + 2) % 3], n[i], i)
  BY <1>5 DEF ConvertedShares
<1>7. /\ c[0].prev = Minus(z, n[2]) /\ c[1].prev = Minus(0, n[0]) /\ c[2].prev = Minus(0, n[1])
      /\ c[0].next = Minus(0, n[0]) /\ c[1].next = Minus(0, n[1]) /\ c[2].next = Minus(z, n[2])
  BY <1>6 DEF FinalizeShamirToRss
<1>8. \A i \in 0..2 : c[i].next = c[(i + 1) % 3].prev
  <2>1. \A i \in 0..2 : (i = 0 /\ (i + 1) % 3 = 1) \/ (i = 1 /\ (i + 1) % 3 = 2) \/ (i = 2 /\ (i + 1) % 3 = 0)
    OBVIOUS
  <2> QED BY <1>7, <2>1
<1>9. PICK u \in Field, v \in Field, w \in Field : u = n[0] /\ v = n[1] /\ w = n[2]
  OBVIOUS
<1>10. u \in Int /\ v \in Int /\ w \in Int /\ 0 \in Field /\ 0 \in Int
  BY OrderIs
<1>11. PICK e \in Int, f \in Int, g \in Int :
         /\ e = c[0].prev /\ f = c[1].prev /\ g = c[2].prev
         /\ Same(e, z - w) /\ Same(f, 0 - u) /\ Same(g, 0 - v)
  <2>1. Minus(z, w) \in Int /\ Same(Minus(z, w), z - w)
    BY SameMinus, OrderIs
  <2>2. Minus(0, u) \in Int /\ Same(Minus(0, u), 0 - u)
    BY <1>10, SameMinus, OrderIs
  <2>3. Minus(0, v) \in Int /\ Same(Minus(0, v), 0 - v)
    BY <1>10, SameMinus, OrderIs
  <2> QED BY <1>7, <1>9, <2>1, <2>2, <2>3
<1>12. PICK k \in Int, l \in Int, m \in Int : k = z - w /\ l = 0 - u /\ m = 0 - v
  BY <1>3, <1>10
<1>13. Same(e + f, k + l)
  <2>1. Same(e, k) /\ Same(f, l)
    BY <1>11, <1>12
  <2> QED BY <2>1, SameSum
<1>14. PICK ef \in Int, kl \in Int : ef = e + f /\ kl = k + l /\ Same(ef, kl)
  BY <1>13
<1>15. Same(ef + g, kl + m)
  <2>1. Same(g, m)
    BY <1>11, <1>12
  <2> QED BY <1>14, <2>1, SameSum
<1>16. kl + m = z - r
  BY <1>1, <1>3, <1>9, <1>10, <1>12, <1>14
<1>17. Same(z - r, s)
  <2>1. PICK t \in Int : t = s + r /\ Same(z, t)
    BY <1>2, <1>3
  <2>2. Same(r, r)
    BY SameSelf
  <2>3. Same(z - r, t - r)
    BY <1>3, <2>1, <2>2, SameSum
  <2>4. t - r = s
    BY <1>2, <2>1
  <2> QED BY <2>3, <2>4
<1>18. PICK t \in Int : t = ef + g /\ t = c[0].prev + c[1].prev + c[2].prev
  BY <1>11, <1>14
<1>19. Same(t, s)
  <2>1. PICK zr \in Int : zr = z - r /\ Same(zr, s)
    BY <1>3, <1>17
  <2>2. Same(t, zr)
    BY <1>15, <1>16, <1>18, <2>1
  <2> QED BY <1>2, <2>1, <2>2, SameChain
<1>20. t % Order \in Field /\ t % Order \in Int /\ Same(t % Order, t)
  BY SameReduced, OrderIs
<1>21. Same(t % Order, s)
  BY <1>2, <1>19, <1>20, SameChain
<1>22. t % Order = s
  BY <1>20, <1>21, SameInField
<1> QED BY <1>5, <1>8, <1>18, <1>22

\* The check of any party passes only for shares of a line.
LEMMA OnlyLines ==
    ASSUME NEW x \in [0..2 -> Field], NEW n \in [0..2 -> Field], NEW p, p = PaddedShares(x, n),
           NEW i \in 0..2, OnLine(p[i], p[(i + 1) % 3], p[(i + 2) % 3], i)
    PROVE  \E s \in Field, a \in Int : IsLine(x, s, a)
<1>1. PICK r \in Int, b \in Int : p \in [0..2 -> Field]
                                /\ \A j \in 0..2 : Same(p[j], x[j] + (r + b * Points[j]))
  BY PaddedIs
<1>2. PICK z \in Field, d \in Field : IsLine(p, z, d)
  BY <1>1, PassesLine
<1>3. z \in Int /\ d \in Int
  BY OrderIs
<1>4. PICK s \in Field : s \in Int /\ Same(z - r, s)
  <2>1. z - r \in Int
    BY <1>3
  <2> QED BY <2>1, SameReduced, OrderIs
<1>5. IsLine(x, s, d - b)
  <2> SUFFICES ASSUME NEW j \in 0..2 PROVE Same(x[j], s + (d - b) * Points[j])
    BY DEF IsLine
  <2>1. PICK q \in Int, u \in Int, v \in Int : q = Points[j] /\ u = x[j] /\ v = p[j]
    BY <1>1, ThePoints, OrderIs
  <2>2. PICK bq \in Int, dq \in Int : bq = b * q /\ dq = d * q
    BY <1>3
  <2>3. Same(v, u + (r + bq)) /\ Same(v, z + dq)
    BY <1>1, <1>2, <2>1, <2>2 DEF IsLine
  <2>4. PICK k \in Int, l \in Int, m \in Int : k = r + bq /\ l = z + dq /\ m = u + k /\ Same(v, m) /\ Same(v, l)
    BY <1>3, <2>2, <2>3
  <2>5. Same(m, l)
    <3>1. Same(m, v)
      BY <2>4, SameBack
    <3> QED BY <2>4, <3>1, SameChain
  <2>6. Same(m - k, l - k)
    <3>1. Same(k, k)
      BY SameSelf
    <3> QED BY <2>5, <3>1, SameSum
  <2>7. PICK y \in Int, e \in Int : y = z - r /\ e = dq - bq /\ Same(y, s)
    BY <1>3, <1>4, <2>2
  <2>8. Same(y + e, s + e) /\ y + e \in Int /\ s + e \in Int
    <3>1. Same(e, e)
      BY SameSelf
    <3>2. Same(y + e, s + e)
      BY <1>4, <2>7, <3>1, SameSum
    <3> QED BY <1>4, <3>2
  <2>9. m - k = u /\ l - k = y + e /\ e = (d - b) * q
    BY <1>3, <2>2, <2>4, <2>7, Distribute
  <2>10. Same(u, y + e)
    BY <2>6, <2>9
  <2>11. Same(u, s + e)
    BY <2>8, <2>10, SameChain
  <2> QED BY <2>1, <2>9, <2>11
<1>6. d - b \in Int
  BY <1>3
<1> QED BY <1>5, <1>6

-----------------------------------------------------------------------------
(* Sums of a vector modulo the order.                                      *)

\* Partial sums.
Partial(p, f, n) == p \in [0..n -> Field] /\ p[0] = 0 /\ \A k \in 1..n : p[k] = (p[k - 1] + f[k]) % Order

\* The recursion of SumTo computes partial sums.
LEMMA SumToPartial ==
    ASSUME NEW n \in Nat, NEW f \in [1..n -> Field]
    PROVE  \E p : Partial(p, f, n) /\ SumTo(f, n) = p[n]
<1> DEFINE sum[k \in 0..n] == IF k = 0 THEN 0 ELSE (sum[k - 1] + f[k]) % Order
<1>1. SumTo(f, n) = sum[n]
  BY Zenon DEF SumTo
<1>2. PICK p : Partial(p, f, n)
  <2> DEFINE s == [q \in (1..n) \X Field |-> (q[2] + f[q[1]]) % Order]
  <2>1. s \in [(1..n) \X Field -> Field]
    <3> SUFFICES ASSUME NEW k \in 1..n, NEW v \in Field PROVE (v + f[k]) % Order \in Field
      OBVIOUS
    <3>1. PICK m \in Int : m = v + f[k]
      <4>1. v \in Int /\ f[k] \in Int
        BY OrderIs
      <4> QED BY <4>1
    <3> QED BY <3>1, SameReduced
  <2>2. PICK p : Recurs(p, 0, s, n, Field)
    <3> HIDE DEF s
    <3> QED BY <2>1, OrderIs, Recursion
  <2>3. p \in [0..n -> Field] /\ p[0] = 0
    BY <2>2 DEF Recurs
  <2>4. ASSUME NEW k \in 1..n PROVE p[k] = (p[k - 1] + f[k]) % Order
    <3>1. p[k] = s[<<k, p[k - 1]>>]
      BY <2>2 DEF Recurs
    <3>2. p[k - 1] \in Field
      BY <2>3
    <3>3. s[<<k, p[k - 1]>>] = (p[k - 1] + f[k]) % Order
      BY <3>2
    <3> QED BY <3>1, <3>3
  <2> QED BY <2>3, <2>4 DEF Partial
<1>3. p = [k \in 0..n |-> IF k = 0 THEN 0 ELSE (p[k - 1] + f[k]) % Order]
  <2>1. \A k \in 0..n : k # 0 => k \in 1..n
    OBVIOUS
  <2> QED BY <1>2, <2>1 DEF Partial
<1>4. sum = [k \in 0..n |-> IF k = 0 THEN 0 ELSE (sum[k - 1] + f[k]) % Order]
  BY <1>3
<1> HIDE DEF sum
<1>5. \A k \in 0..n : sum[k] = p[k]
  <2> DEFINE T == {k \in Nat : sum[k] = p[k]}
  <2>1. 0 \in T
    <3>1. 0 \in 0..n
      OBVIOUS
    <3> QED BY <1>2, <1>4, <3>1 DEF Partial
  <2>2. \A k \in 0..(n - 1) : k \in T => k + 1 \in T
    <3> SUFFICES ASSUME NEW k \in 0..(n - 1), k \in T PROVE k + 1 \in T
      OBVIOUS
    <3>0. sum[k] = p[k]
      OBVIOUS
    <3> HIDE DEF T
    <3>1. k + 1 \in 1..n /\ k + 1 \in 0..n /\ k + 1 # 0 /\ (k + 1) - 1 = k /\ k + 1 \in Nat
      OBVIOUS
    <3>2. sum[k + 1] = (sum[(k + 1) - 1] + f[k + 1]) % Order
      BY <1>4, <3>1, Zenon
    <3>3. p[k + 1] = (p[(k + 1) - 1] + f[k + 1]) % Order
      BY <1>2, <3>1 DEF Partial
    <3>4. sum[k + 1] = p[k + 1]
      BY <3>0, <3>1, <3>2, <3>3, Zenon
    <3> QED BY <3>1, <3>4 DEF T
  <2> QED
    <3> HIDE DEF T
    <3>1. \A k \in 0..n : k \in T
      BY <2>1, <2>2, Climb
    <3> QED BY <3>1 DEF T
<1>6. n \in 0..n
  OBVIOUS
<1> QED BY <1>1, <1>2, <1>5, <1>6

\* Sums of vectors, one of which is a multiple of another plus a third.
LEMMA SumsOf ==
    ASSUME NEW n \in Nat, NEW f \in [1..n -> Field], NEW g \in [1..n -> Field], NEW h \in [1..n -> Field],
           NEW a \in Int, \A k \in 1..n : Same(h[k], a * f[k] + g[k])
    PROVE  /\ SumTo(f, n) \in Field /\ SumTo(g, n) \in Field /\ SumTo(h, n) \in Field
           /\ Same(SumTo(h, n), a * SumTo(f, n) + SumTo(g, n))
<1>1. PICK p : Partial(p, f, n) /\ SumTo(f, n) = p[n]
  BY SumToPartial
<1>2. PICK q : Partial(q, g, n) /\ SumTo(g, n) = q[n]
  BY SumToPartial
<1>3. PICK r : Partial(r, h, n) /\ SumTo(h, n) = r[n]
  BY SumToPartial
<1>4. \A k \in 0..n : p[k] \in Field /\ q[k] \in Field /\ r[k] \in Field
  BY <1>1, <1>2, <1>3 DEF Partial
<1> DEFINE T == {k \in Nat : Same(r[k], a * p[k] + q[k])}
<1>5. 0 \in T
  <2>1. r[0] = 0 /\ p[0] = 0 /\ q[0] = 0 /\ a * 0 + 0 = 0 /\ 0 \in Int
    BY <1>1, <1>2, <1>3 DEF Partial
  <2>2. Same(0, 0)
    BY <2>1, SameSelf
  <2> QED BY <2>1, <2>2
<1>6. \A k \in 0..(n - 1) : k \in T => k + 1 \in T
  <2> SUFFICES ASSUME NEW k \in 0..(n - 1), k \in T PROVE Same(r[k + 1], a * p[k + 1] + q[k + 1])
    OBVIOUS
  <2>1. k + 1 \in 1..n /\ (k + 1) - 1 = k /\ k \in 0..n
    OBVIOUS
  <2>2. PICK x \in Field, y \in Field, z \in Field : x = p[k] /\ y = q[k] /\ z = r[k]
    BY <1>4, <2>1
  <2>3. PICK u \in Field, v \in Field, w \in Field : u = f[k + 1] /\ v = g[k + 1] /\ w = h[k + 1]
    BY <2>1
  <2>4. p[k + 1] = (x + u) % Order /\ q[k + 1] = (y + v) % Order /\ r[k + 1] = (z + w) % Order
    BY <1>1, <1>2, <1>3, <2>1, <2>2, <2>3 DEF Partial
  <2>5. x \in Int /\ y \in Int /\ z \in Int /\ u \in Int /\ v \in Int /\ w \in Int
    BY OrderIs
  <2>6. PICK ax \in Int, au \in Int : ax = a * x /\ au = a * u /\ Same(z, ax + y) /\ Same(w, au + v)
    <3>1. Same(r[k], a * p[k] + q[k]) /\ Same(h[k + 1], a * f[k + 1] + g[k + 1])
      BY <2>1
    <3>2. Same(z, a * x + y) /\ Same(w, a * u + v)
      BY <2>2, <2>3, <3>1, Zenon
    <3>3. PICK ax \in Int, au \in Int : ax = a * x /\ au = a * u
      BY <2>5
    <3>4. Same(z, ax + y) /\ Same(w, au + v)
      BY <3>2, <3>3, Zenon
    <3> QED BY <3>3, <3>4, Zenon
  <2>7. PICK m \in Field, l \in Field, o \in Field :
          /\ m = (x + u) % Order /\ l = (y + v) % Order /\ o = (z + w) % Order
          /\ Same(m, x + u) /\ Same(l, y + v) /\ Same(o, z + w)
    <3>1. x + u \in Int /\ y + v \in Int /\ z + w \in Int
      BY <2>5
    <3> QED BY <3>1, SameReduced
  <2>8. m \in Int /\ l \in Int /\ o \in Int
    BY OrderIs
  <2>9. PICK xu \in Int, yv \in Int, zw \in Int, am \in Int :
          /\ xu = x + u /\ yv = y + v /\ zw = z + w /\ am = a * m
          /\ Same(m, xu) /\ Same(l, yv) /\ Same(o, zw)
    BY <2>5, <2>7, <2>8, SMTT(30)
  <2>10. PICK e \in Int, d \in Int : e = ax + y /\ d = au + v /\ Same(z, e) /\ Same(w, d)
    BY <2>5, <2>6
  <2>11. Same(zw, e + d)
    BY <2>5, <2>9, <2>10, SameSum
  <2>12. PICK b \in Int : b = a * xu /\ Same(b, am)
    <3>1. Same(xu, m)
      BY <2>8, <2>9, SameBack
    <3>2. Same(a * xu, a * m)
      BY <2>8, <3>1, SameTimes
    <3> QED BY <2>9, <3>2
  <2>13. Same(yv, l)
    BY <2>8, <2>9, SameBack
  <2>14. Same(b + yv, am + l)
    BY <2>8, <2>12, <2>13, SameSum
  <2>15. e + d = b + yv
    <3>1. b = ax + au
      BY <2>5, <2>6, <2>9, <2>12, Distribute
    <3> QED BY <2>5, <2>9, <2>10, <3>1
  <2>16. Same(o, am + l)
    <3>1. e + d \in Int /\ am + l \in Int
      BY <2>8
    <3>2. Same(o, e + d)
      BY <2>8, <2>9, <2>11, <3>1, SameChain
    <3> QED BY <2>8, <2>14, <2>15, <3>1, <3>2, SameChain
  <2> QED BY <2>4, <2>7, <2>9, <2>16
<1>7. n \in 0..n
  OBVIOUS
<1>8. Same(r[n], a * p[n] + q[n])
  <2> HIDE DEF T
  <2>1. n \in T
    BY <1>5, <1>6, <1>7, Climb
  <2> QED BY <2>1 DEF T
<1> QED BY <1>1, <1>2, <1>3, <1>4, <1>7, <1>8

-----------------------------------------------------------------------------
(* The gadget.                                                             *)

\* A power of two is a number: the size of a set of subsets.
LEMMA PowerNat == ASSUME NEW n \in Nat PROVE 2^n \in Nat
<1>1. IsFiniteSet(1..n) /\ Cardinality(1..n) = n
  BY FS_Interval
<1>2. IsFiniteSet(SUBSET (1..n)) /\ Cardinality(SUBSET (1..n)) = 2^n
  BY <1>1, FS_SUBSET
<1> QED BY <1>2, FS_CardinalityType

\* What the evaluator adds for one bit: the offset, and the weight of a bit
\* that is set.
GadgetPart(c, label, k) == Minus(IF lsb(label) = 1 THEN c ELSE 0, Kdf(k, label))

\* The label of a bit and its lowest bit.
LEMMA LabelsOfBit ==
    ASSUME NEW b \in {0, 1}, NEW f, NEW delta, Lsb \in delta
    PROVE  /\ (f \oplus If(b, delta)) = IF b = 1 THEN f \oplus delta ELSE f
           /\ lsb((f \oplus If(b, delta))) = IF b = 1 THEN 1 - lsb(f) ELSE lsb(f)
           /\ lsb(f) \in {0, 1}
<1>1. CASE b = 0
  BY <1>1 DEF If, lsb, \oplus
<1>2. CASE b = 1
  BY <1>2 DEF If, lsb, \oplus
<1> QED BY <1>1, <1>2

\* A bit times its weight, on either side of the multiplier.
LEMMA WeightOfBit ==
    ASSUME NEW k \in Nat \ {0}, NEW a \in Field, NEW b \in {0, 1}
    PROVE  /\ Weight(a, k) \in Field
           /\ (b * 2^(k - 1)) % Order \in Field
           /\ Same(a * ((b * 2^(k - 1)) % Order), IF b = 1 THEN Weight(a, k) ELSE 0)
<1>1. PICK t \in Int : t = 2^(k - 1)
  <2>1. k - 1 \in Nat
    OBVIOUS
  <2> QED BY <2>1, PowerNat
<1>2. a \in Int /\ b \in Int
  BY OrderIs
<1>3. PICK w \in Int : w = a * t
  BY <1>2
<1>4. PICK m \in Int : m = b * t
  BY <1>2
<1>5. w % Order \in Field /\ Same(w, w % Order) /\ m % Order \in Field /\ Same(m % Order, m)
  BY SameReduced
<1>6. PICK wr \in Int, mr \in Int : wr = w % Order /\ mr = m % Order /\ Same(w, wr) /\ Same(mr, m)
  BY <1>5, OrderIs
<1>7. Weight(a, k) = wr
  BY <1>1, <1>3, <1>6 DEF Weight
<1>8. Same(a * mr, a * m) /\ a * mr \in Int /\ a * m \in Int
  BY <1>2, <1>6, SameTimes
<1>9. CASE b = 1
  <2>1. a * m = w
    BY <1>1, <1>2, <1>3, <1>4, <1>9
  <2>2. Same(a * mr, w)
    BY <1>8, <2>1
  <2>3. Same(a * mr, wr)
    BY <1>6, <1>8, <2>2, SameChain
  <2> QED BY <1>1, <1>4, <1>5, <1>6, <1>7, <1>9, <2>3, <1>3
<1>10. CASE b = 0
  <2>1. a * m = 0
    BY <1>1, <1>2, <1>4, <1>10
  <2>2. Same(a * mr, 0)
    BY <1>8, <2>1
  <2> QED BY <1>1, <1>4, <1>5, <1>6, <1>7, <1>10, <2>2, <1>3
<1> QED BY <1>9, <1>10

\* Whichever the colour of the label and the bit, the evaluator adds what the
\* garbler meant: the offset, and the weight of a bit that is set.
LEMMA GadgetTerm ==
    ASSUME NEW k \in Nat \ {0}, NEW f, NEW delta, Lsb \in delta, NEW a \in Field, NEW b \in {0, 1},
           Kdf(k, f) \in Field, Kdf(k, f \oplus delta) \in Field
    PROVE  /\ GadgetOffset(f, delta, a, k) \in Field
           /\ GadgetRow(f, delta, a, k) \in Field
           /\ GadgetPart(GadgetRow(f, delta, a, k), (f \oplus If(b, delta)), k) \in Field
           /\ Same(GadgetPart(GadgetRow(f, delta, a, k), (f \oplus If(b, delta)), k),
                   a * ((b * 2^(k - 1)) % Order) + GadgetOffset(f, delta, a, k))
<1>1. PICK h0 \in Field, h1 \in Field, w \in Field, z \in Field :
        h0 = Kdf(k, f) /\ h1 = Kdf(k, f \oplus delta) /\ w = Weight(a, k) /\ z = 0
  BY WeightOfBit, OrderIs
<1>2. h0 \in Int /\ h1 \in Int /\ w \in Int /\ z \in Int
  BY OrderIs
<1>3. PICK u \in Int : u = a * ((b * 2^(k - 1)) % Order) /\ Same(u, IF b = 1 THEN w ELSE 0)
  <2>1. a \in Int /\ (b * 2^(k - 1)) % Order \in Int
    BY WeightOfBit, OrderIs
  <2>2. a * ((b * 2^(k - 1)) % Order) \in Int
    BY <2>1
  <2> QED BY <1>1, <2>2, WeightOfBit
<1>4. PICK n0 \in Field, n1 \in Field, n2 \in Field :
        /\ n0 = Minus(0, h0) /\ Same(n0, 0 - h0) /\ n1 = Minus(0, h1) /\ Same(n1, 0 - h1)
        /\ n2 = Minus(n1, w) /\ Same(n2, n1 - w)
  BY SameMinus, OrderIs
<1>5. n0 \in Int /\ n1 \in Int /\ n2 \in Int
  BY OrderIs
<1>6. CASE lsb(f) = 1
  <2>1. GadgetOffset(f, delta, a, k) = n2
    BY <1>1, <1>4, <1>6 DEF GadgetOffset
  <2>2. PICK e \in Int, row \in Field : e = h0 + n2 /\ row = e % Order /\ Same(row, e)
    <3>1. h0 + n2 \in Int
      BY <1>2, <1>5
    <3> QED BY <3>1, SameReduced
  <2>3. GadgetRow(f, delta, a, k) = row
    BY <1>1, <1>6, <2>1, <2>2 DEF GadgetRow
  <2>4. row \in Int
    BY OrderIs
  <2>5. CASE b = 0
    <3>1. (f \oplus If(b, delta)) = f
      BY <2>5, LabelsOfBit
    <3>2. GadgetPart(row, f, k) = Minus(row, h0)
      BY <1>1, <1>6 DEF GadgetPart
    <3>3. PICK t \in Field : t = Minus(row, h0) /\ Same(t, row - h0)
      BY SameMinus
    <3>4. Same(row - h0, e - h0)
      BY <1>2, <2>2, <2>4, SameSum, SameSelf
    <3>5. PICK x \in Int, y \in Int : x = row - h0 /\ y = e - h0 /\ Same(t, x) /\ Same(x, y)
      BY <1>2, <2>2, <2>4, <3>3, <3>4
    <3>6. y = n2 /\ t \in Int
      BY <1>2, <1>5, <2>2, <3>5, OrderIs
    <3>7. Same(t, n2)
      BY <3>5, <3>6, SameChain
    <3>8. Same(u, 0) /\ 0 \in Int
      BY <1>3, <2>5
    <3>9. Same(0, u)
      BY <3>8, SameBack
    <3>10. Same(t, n2 + u) /\ n2 + u = u + n2
      BY <1>5, <3>6, <3>7, <3>9, SameAdded
    <3> QED BY <1>3, <2>1, <2>3, <3>1, <3>2, <3>3, <3>10
  <2>6. CASE b = 1
    <3>1. (f \oplus If(b, delta)) = f \oplus delta /\ lsb(f \oplus delta) = 0
      BY <1>6, <2>6, LabelsOfBit
    <3>2. GadgetPart(row, f \oplus delta, k) = n1
      BY <1>1, <1>4, <3>1 DEF GadgetPart
    <3>3. Same(u, w)
      BY <1>3, <2>6
    <3>4. PICK v \in Int : v = n1 - w /\ Same(n2, v)
      BY <1>2, <1>4, <1>5
    <3>5. Same(u + n2, w + v)
      BY <1>2, <1>5, <3>3, <3>4, SameSum
    <3>6. w + v = n1 /\ u + n2 \in Int
      BY <1>2, <1>5, <3>4
    <3>7. Same(n1, u + n2)
      BY <1>5, <3>5, <3>6, SameBack
    <3> QED BY <1>3, <2>1, <2>3, <3>1, <3>2, <3>7
  <2> QED BY <2>5, <2>6
<1>7. CASE lsb(f) = 0
  <2>1. GadgetOffset(f, delta, a, k) = n0
    BY <1>1, <1>4, <1>7 DEF GadgetOffset
  <2>2. PICK e \in Int, row \in Field : e = (h1 + w) + n0 /\ row = e % Order /\ Same(row, e)
    <3>1. (h1 + w) + n0 \in Int
      BY <1>2, <1>5
    <3> QED BY <3>1, SameReduced
  <2>3. GadgetRow(f, delta, a, k) = row
    BY <1>1, <1>7, <2>1, <2>2 DEF GadgetRow
  <2>4. row \in Int
    BY OrderIs
  <2>5. CASE b = 0
    <3>1. (f \oplus If(b, delta)) = f
      BY <2>5, LabelsOfBit
    <3>2. GadgetPart(row, f, k) = n0
      BY <1>1, <1>4, <1>7 DEF GadgetPart
    <3>3. Same(n0, n0)
      BY <1>5, SameSelf
    <3>4. Same(u, 0) /\ 0 \in Int
      BY <1>3, <2>5
    <3>5. Same(0, u)
      BY <3>4, SameBack
    <3>6. Same(n0, n0 + u) /\ n0 + u = u + n0
      BY <1>5, <3>3, <3>5, SameAdded
    <3> QED BY <1>3, <2>1, <2>3, <3>1, <3>2, <3>6
  <2>6. CASE b = 1
    <3>1. (f \oplus If(b, delta)) = f \oplus delta /\ lsb(f \oplus delta) = 1
      BY <1>7, <2>6, LabelsOfBit
    <3>2. GadgetPart(row, f \oplus delta, k) = Minus(row, h1)
      BY <1>1, <3>1 DEF GadgetPart
    <3>3. PICK t \in Field : t = Minus(row, h1) /\ Same(t, row - h1)
      BY SameMinus
    <3>4. Same(row - h1, e - h1)
      BY <1>2, <2>2, <2>4, SameSum, SameSelf
    <3>5. PICK x \in Int, y \in Int : x = row - h1 /\ y = e - h1 /\ Same(t, x) /\ Same(x, y)
      BY <1>2, <2>2, <2>4, <3>3, <3>4
    <3>6. y = w + n0 /\ t \in Int
      BY <1>2, <1>5, <2>2, <3>5, OrderIs
    <3>7. Same(t, y)
      BY <3>5, <3>6, SameChain
    <3>8. Same(w, u) /\ Same(n0, n0)
      BY <1>2, <1>3, <1>5, <2>6, SameBack, SameSelf
    <3>9. Same(w + n0, u + n0)
      BY <1>2, <1>5, <3>8, SameSum
    <3>10. Same(y, u + n0) /\ u + n0 \in Int
      BY <1>5, <3>6, <3>9
    <3>11. Same(t, u + n0)
      BY <3>5, <3>6, <3>7, <3>10, SameChain
    <3> QED BY <1>3, <2>1, <2>3, <3>1, <3>2, <3>3, <3>11
  <2> QED BY <2>5, <2>6
<1>8. lsb(f) \in {0, 1}
  BY DEF lsb
<1> QED BY <1>6, <1>7, <1>8

\* A gadget of multiplier a gives, for the labels, a times the number plus its
\* offset.
Carries(g, labels, a, number) ==
    /\ g.alpha = a /\ g.beta \in Field /\ number \in Field
    /\ EvaluateGadget(g.cvec, labels) = (a * number + g.beta) % Order

\* The number bits are, lowest first, and the labels that stand for them.
Number(bits, n) == SumTo([k \in 1..n |-> (bits[k] * 2^(k - 1)) % Order], n)
LabelsOf(bits, fs, delta, n) == [k \in 1..n |-> (fs[k] \oplus If(bits[k], delta))]

\* Outputs of the kdf are scalars.
KdfInField(n) == \A k \in 1..n, x \in Block : Kdf(k, x) \in Field

\* garble_gadget and evaluate_gadget (arith_gadget.rs) agree for every number
\* of bits, global offset and labels: whoever holds the labels of some bits and
\* no other, gets the bits' number times alpha plus beta.
THEOREM GadgetCarriesTheNumber ==
    ASSUME NEW n \in Nat, NEW fs \in [1..n -> Block], NEW bits \in [1..n -> {0, 1}], NEW delta \in Block, Lsb \in delta,
           NEW a \in Field, KdfInField(n)
    PROVE  Carries(GarbleGadget(fs, delta, a), LabelsOf(bits, fs, delta, n), a, Number(bits, n))
<1> DEFINE g == GarbleGadget(fs, delta, a)
           labels == [k \in 1..n |-> (fs[k] \oplus If(bits[k], delta))]
           weighed == [k \in 1..n |-> (bits[k] * 2^(k - 1)) % Order]
           offsets == [k \in 1..n |-> GadgetOffset(fs[k], delta, a, k)]
           row(k) == GadgetRow(fs[k], delta, a, k)
           parts == [k \in 1..n |-> GadgetPart(row(k), labels[k], k)]
<1>1. ASSUME NEW k \in 1..n
      PROVE  /\ offsets[k] \in Field /\ weighed[k] \in Field /\ parts[k] \in Field
             /\ Same(parts[k], a * weighed[k] + offsets[k])
  <2>1. /\ k \in Nat \ {0} /\ fs[k] \in Block /\ bits[k] \in {0, 1} /\ fs[k] \oplus delta \in Block
        /\ Kdf(k, fs[k]) \in Field /\ Kdf(k, fs[k] \oplus delta) \in Field
    BY DEF KdfInField, Block, \oplus
  <2>2. PICK f \in Block, b \in {0, 1} : f = fs[k] /\ b = bits[k]
    BY <2>1
  <2>3. Kdf(k, f) \in Field /\ Kdf(k, f \oplus delta) \in Field
    BY <2>1, <2>2
  <2>4. /\ GadgetOffset(f, delta, a, k) \in Field
        /\ GadgetPart(GadgetRow(f, delta, a, k), (f \oplus If(b, delta)), k) \in Field
        /\ Same(GadgetPart(GadgetRow(f, delta, a, k), (f \oplus If(b, delta)), k),
                a * ((b * 2^(k - 1)) % Order) + GadgetOffset(f, delta, a, k))
    BY <2>1, <2>3, GadgetTerm
  <2>5. (b * 2^(k - 1)) % Order \in Field
    BY <2>1, WeightOfBit
  <2>6. /\ offsets[k] = GadgetOffset(f, delta, a, k) /\ weighed[k] = (b * 2^(k - 1)) % Order
        /\ parts[k] = GadgetPart(GadgetRow(f, delta, a, k), (f \oplus If(b, delta)), k)
    BY <2>2, Zenon
  <2> QED BY <2>4, <2>5, <2>6, Zenon
<1>2. offsets \in [1..n -> Field] /\ weighed \in [1..n -> Field] /\ parts \in [1..n -> Field]
  BY <1>1
<1>3. /\ SumTo(weighed, n) \in Field /\ SumTo(offsets, n) \in Field /\ SumTo(parts, n) \in Field
      /\ Same(SumTo(parts, n), a * SumTo(weighed, n) + SumTo(offsets, n))
  <2> HIDE DEF offsets, weighed, parts
  <2>1. a \in Int
    BY OrderIs
  <2> QED BY <1>1, <1>2, <2>1, SumsOf
<1>4. DOMAIN fs = 1..n /\ Len(fs) = n /\ DOMAIN labels = 1..n /\ Len(labels) = n
  <2>1. fs \in Seq(Block) /\ Len(fs) = n
    BY SeqDef
  <2>2. labels \in [1..n -> Block]
    BY DEF Block, If, \oplus
  <2>3. labels \in Seq(Block) /\ Len(labels) = n
    <3> HIDE DEF labels
    <3> QED BY <2>2, SeqDef
  <2> QED BY <2>1, <2>3
<1>5. g.alpha = a /\ g.beta = SumTo(offsets, n) /\ g.cvec = [k \in 1..n |-> row(k)]
  BY <1>4, Zenon DEF GarbleGadget
<1>6. EvaluateGadget(g.cvec, labels) = SumTo(parts, n)
  <2> DEFINE terms == [k \in DOMAIN labels |->
                         Minus(IF lsb(labels[k]) = 1 THEN g.cvec[k] ELSE 0, Kdf(k, labels[k]))]
  <2>1. terms = parts
    <3>1. ASSUME NEW k \in 1..n PROVE g.cvec[k] = row(k)
      BY <1>5, Zenon
    <3>2. terms = [k \in 1..n |-> Minus(IF lsb(labels[k]) = 1 THEN g.cvec[k] ELSE 0, Kdf(k, labels[k]))]
      BY <1>4, Zenon
    <3> HIDE DEF labels, g, row
    <3> QED BY <3>1, <3>2 DEF GadgetPart
  <2>2. EvaluateGadget(g.cvec, labels) = SumTo(terms, Len(labels))
    BY Zenon DEF EvaluateGadget
  <2> HIDE DEF terms
  <2> QED BY <1>4, <2>1, <2>2, Zenon
<1>7. SumTo(parts, n) = (a * SumTo(weighed, n) + SumTo(offsets, n)) % Order
  <2> HIDE DEF offsets, weighed, parts
  <2>1. PICK x \in Field, y \in Field, z \in Field : x = SumTo(weighed, n) /\ y = SumTo(offsets, n) /\ z = SumTo(parts, n)
    BY <1>3
  <2>2. PICK w \in Int : w = a * x + y
    <3>1. a \in Int /\ x \in Int /\ y \in Int
      BY OrderIs
    <3> QED BY <3>1
  <2>3. Same(z, w)
    BY <1>3, <2>1, <2>2, Zenon
  <2>4. PICK v \in Field : v = w % Order /\ Same(w, v)
    BY SameReduced
  <2>5. Same(z, v)
    BY <2>3, <2>4, SameChain, OrderIs
  <2>6. z = v
    BY <2>5, SameInField
  <2> QED BY <2>1, <2>2, <2>4, <2>6, Zenon
<1> HIDE DEF parts, offsets, row
<1> QED BY <1>3, <1>5, <1>6, <1>7, Zenon DEF Carries, LabelsOf, Number

=============================================================================
