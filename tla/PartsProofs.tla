---------------------------- MODULE PartsProofs ----------------------------
(***************************************************************************)
(* Proofs about Parts: the label stream is the generator it is compatible  *)
(* with and repeats nothing, the hash circuits are the standards', and the *)
(* arithmetic circuits compute what integers do, for every width, length   *)
(* and position.                                                           *)
(***************************************************************************)
EXTENDS Parts, NumberLemmas, FiniteSetTheorems, FunctionTheorems, SequenceTheorems, TLAPS

-----------------------------------------------------------------------------
(* The label stream.                                                       *)

\* Byte b of stream s under one wide counter, and n of them.
WideByte(s, b) ==
    LET block == (b \div BLOCK_BYTES) % (LowBlocks * HighBlocks)
    IN  [nonce |-> <<block \div LowBlocks, s>>, counter |-> block % LowBlocks, byte |-> b % BLOCK_BYTES]

WideBytes(s) == {WideByte(s, b) : b \in Nat}
Wide(s, b, n) == [k \in 1..n |-> WideByte(s, b + k - 1)]

LEMMA Widths ==
    /\ {WordBytes, BlockWords, LowBlocks, HighBlocks, BLOCK_BYTES, LowBlocks * HighBlocks, WordPositions}
         \subseteq Nat \ {0}
    /\ MaxFill \in Nat /\ MaxWords \in Nat
<1>1. {WordBytes, BlockWords, LowBlocks, HighBlocks} \subseteq Nat \ {0} /\ MaxFill \in Nat /\ MaxWords \in Nat
  BY WidthsAssumption, BoundsAssumption
<1>2. BLOCK_BYTES \in Nat \ {0} /\ LowBlocks * HighBlocks \in Nat \ {0}
  BY <1>1, Product DEF BLOCK_BYTES
<1>3. WordPositions \in Nat \ {0}
  BY <1>1, <1>2, Product DEF WordPositions
<1> QED BY <1>1, <1>2, <1>3

LEMMA ReferenceIsWide ==
    ASSUME NEW s, NEW pos \in Nat, NEW n \in Nat
    PROVE  Reference(s, pos, n) = Wide(s, pos * WordBytes, n)
  BY DEF Reference, Wide, WideByte

\* A cipher with the high word of a byte's block yields the wide counter's
\* bytes as long as its own counter does not wrap.
LEMMA OneCipher ==
    ASSUME NEW s, NEW b \in Nat, NEW n \in Nat,
           NEW turns, NEW high, NEW low, NEW in, At(BLOCK_BYTES, LowBlocks, HighBlocks, b, turns, high, low, in),
           n <= (LowBlocks - low) * BLOCK_BYTES - in
    PROVE  Keystream(<<high, s>>, low * BLOCK_BYTES + in, n) = Wide(s, b, n)
<1>1. BLOCK_BYTES \in Nat \ {0} /\ LowBlocks \in Nat \ {0} /\ HighBlocks \in Nat \ {0}
  BY Widths
<1>0. low \in Nat /\ LowBlocks - low \in Nat /\ in \in Nat
  BY <1>1 DEF At
<1>2. low * BLOCK_BYTES \in Nat /\ (LowBlocks - low) * BLOCK_BYTES \in Nat
  BY <1>0, <1>1, ProductNat
<1>3. ASSUME NEW k \in 1..n
      PROVE  [nonce |-> <<high, s>>,
              counter |-> ((low * BLOCK_BYTES + in + k - 1) \div BLOCK_BYTES) % LowBlocks,
              byte |-> (low * BLOCK_BYTES + in + k - 1) % BLOCK_BYTES] = WideByte(s, b + k - 1)
  <2>1. PICK j \in Nat : j = k - 1
    OBVIOUS
  <2>2. in + j < (LowBlocks - low) * BLOCK_BYTES
    BY <2>1, <1>0, <1>2
  <2>3. low * BLOCK_BYTES + in + k - 1 = low * BLOCK_BYTES + in + j /\ b + k - 1 = b + j
    BY <2>1, <1>0, <1>1, <1>2
  <2>4. /\ (((b + j) \div BLOCK_BYTES) % (LowBlocks * HighBlocks)) \div LowBlocks = high
        /\ (((b + j) \div BLOCK_BYTES) % (LowBlocks * HighBlocks)) % LowBlocks
             = ((low * BLOCK_BYTES + in + j) \div BLOCK_BYTES) % LowBlocks
        /\ (low * BLOCK_BYTES + in + j) % BLOCK_BYTES = (b + j) % BLOCK_BYTES
    <3>1. InCipher(BLOCK_BYTES, LowBlocks, HighBlocks, b, j, high, low, in)
      BY <1>1, <2>1, <2>2, Counted
    <3> QED BY <3>1, Zenon DEF InCipher
  <2> QED BY <2>3, <2>4, Zenon DEF WideByte
<1>4. Keystream(<<high, s>>, low * BLOCK_BYTES + in, n)
        = [k \in 1..n |-> [nonce |-> <<high, s>>,
                           counter |-> ((low * BLOCK_BYTES + in + k - 1) \div BLOCK_BYTES) % LowBlocks,
                           byte |-> (low * BLOCK_BYTES + in + k - 1) % BLOCK_BYTES]]
  BY DEF Keystream
<1> QED BY <1>3, <1>4, Zenon DEF Wide

LEMMA WideSeq ==
    ASSUME NEW s, NEW b \in Nat, NEW n \in Nat
    PROVE  /\ Wide(s, b, n) \in Seq(WideBytes(s))
           /\ Len(Wide(s, b, n)) = n
           /\ \A k \in 1..n : Wide(s, b, n)[k] = WideByte(s, b + k - 1)
  BY DEF Wide, WideBytes

\* Two sequences that follow each other.
Follows(x, y, z) == x \o y = z

\* When they make up a third.
LEMMA Joined ==
    ASSUME NEW S, NEW x \in Seq(S), NEW y \in Seq(S), NEW z \in Seq(S), Len(z) = Len(x) + Len(y),
           \A k \in 1..Len(x) : z[k] = x[k], \A k \in 1..Len(y) : z[Len(x) + k] = y[k]
    PROVE  Follows(x, y, z)
<1>1. x \o y \in Seq(S) /\ Len(x \o y) = Len(z)
  OBVIOUS
<1>2. ASSUME NEW k \in 1..Len(z) PROVE (x \o y)[k] = z[k]
  <2>1. CASE k <= Len(x)
    BY <2>1
  <2>2. CASE k > Len(x)
    <3>1. PICK j \in 1..Len(y) : k = Len(x) + j
      <4>1. k - Len(x) \in 1..Len(y) /\ k = Len(x) + (k - Len(x))
        BY <2>2
      <4> QED BY <4>1
    <3> QED BY <2>2, <3>1
  <2> QED BY <2>1, <2>2
<1> QED BY <1>1, <1>2, SeqEqual DEF Follows

\* Bytes of the wide counter go on where they ended.
LEMMA WideJoin ==
    ASSUME NEW s, NEW b \in Nat, NEW m \in Nat, NEW n \in Nat,
           NEW c \in Nat, c = b + m, NEW l \in Nat, l = m + n
    PROVE  Follows(Wide(s, b, m), Wide(s, c, n), Wide(s, b, l))
<1>1. c = b + m /\ l = m + n
  OBVIOUS
<1>2. PICK S : S = WideBytes(s)
  OBVIOUS
<1>3. PICK x \in Seq(S) : x = Wide(s, b, m) /\ Len(x) = m /\ \A k \in 1..m : x[k] = WideByte(s, b + k - 1)
  BY <1>2, WideSeq, ZenonT(40)
<1>4. PICK y \in Seq(S) : y = Wide(s, c, n) /\ Len(y) = n /\ \A k \in 1..n : y[k] = WideByte(s, c + k - 1)
  BY <1>2, WideSeq, ZenonT(40)
<1>5. PICK z \in Seq(S) : z = Wide(s, b, l) /\ Len(z) = l /\ \A k \in 1..l : z[k] = WideByte(s, b + k - 1)
  <2>1. Wide(s, b, l) \in Seq(WideBytes(s))
    BY WideSeq, Zenon
  <2>2. Len(Wide(s, b, l)) = l /\ \A k \in 1..l : Wide(s, b, l)[k] = WideByte(s, b + k - 1)
    BY WideSeq, ZenonT(40)
  <2> QED BY <1>2, <2>1, <2>2, Zenon
<1>6. \A k \in 1..m : z[k] = x[k]
  BY <1>1, <1>3, <1>5
<1>7. \A k \in 1..n : z[m + k] = y[k]
  <2>1. \A k \in 1..n : m + k \in 1..l /\ b + (m + k) - 1 = c + k - 1
    BY <1>1
  <2> QED BY <2>1, <1>4, <1>5
<1>8. Follows(x, y, z)
  <2>1. /\ Len(z) = Len(x) + Len(y)
        /\ \A k \in 1..Len(x) : z[k] = x[k]
        /\ \A k \in 1..Len(y) : z[Len(x) + k] = y[k]
    BY <1>1, <1>3, <1>4, <1>5, <1>6, <1>7
  <2> QED BY <2>1, Joined
<1> QED BY <1>3, <1>4, <1>5, <1>8

\* The place of a byte: its block's high and low word, and the byte in it.
HighOf(b) == ((b \div BLOCK_BYTES) % (LowBlocks * HighBlocks)) \div LowBlocks
LowOf(b) == ((b \div BLOCK_BYTES) % (LowBlocks * HighBlocks)) % LowBlocks
InOf(b) == b % BLOCK_BYTES

\* One turn of the loop: the bytes of one cipher, up to its wrap, and the rest.
LEMMA OnePiece ==
    ASSUME NEW s, NEW b \in Nat, NEW r \in Nat \ {0}, NEW hi, NEW lo, NEW i,
           i = InOf(b), hi = HighOf(b), lo = LowOf(b)
    PROVE  \E t \in 1..r :
             /\ t = Smaller((LowBlocks - lo) * BLOCK_BYTES - i, r)
             /\ Follows(Keystream(<<hi, s>>, lo * BLOCK_BYTES + i, t), Wide(s, b + t, r - t), Wide(s, b, r))
<1>1. BLOCK_BYTES \in Nat \ {0} /\ LowBlocks \in Nat \ {0} /\ HighBlocks \in Nat \ {0}
  BY Widths
<1>2. PICK turns : At(BLOCK_BYTES, LowBlocks, HighBlocks, b, turns, hi, lo, i)
  BY <1>1, Located, Zenon DEF InOf, HighOf, LowOf
<1>3. lo \in 0..(LowBlocks - 1) /\ i \in 0..(BLOCK_BYTES - 1)
  BY <1>2 DEF At
<1>4. PICK room \in Nat \ {0} : room = (LowBlocks - lo) * BLOCK_BYTES - i
  <2>1. PICK d \in Nat : d + 1 = LowBlocks - lo
    <3>1. LowBlocks - lo - 1 \in Nat /\ LowBlocks - lo - 1 + 1 = LowBlocks - lo
      BY <1>1, <1>3
    <3> QED BY <3>1
  <2>2. (LowBlocks - lo) * BLOCK_BYTES = d * BLOCK_BYTES + 1 * BLOCK_BYTES /\ d * BLOCK_BYTES \in Nat
    BY <1>1, <2>1, Distribute, ProductNat
  <2>3. (LowBlocks - lo) * BLOCK_BYTES - i \in Nat \ {0}
    BY <1>1, <1>3, <2>2
  <2> QED BY <2>3
<1>5. PICK t \in 1..r : t = Smaller(room, r) /\ t <= room
  BY DEF Smaller
<1>6. t \in Nat /\ t <= (LowBlocks - lo) * BLOCK_BYTES - i
  BY <1>4, <1>5
<1>7. Keystream(<<hi, s>>, lo * BLOCK_BYTES + i, t) = Wide(s, b, t)
  BY <1>2, <1>6, OneCipher
<1>8. PICK m \in Nat : m = r - t /\ r = t + m /\ r \in Nat
  OBVIOUS
<1>9. Follows(Wide(s, b, t), Wide(s, b + t, m), Wide(s, b, r))
  <2>1. PICK c \in Nat : c = b + t
    BY <1>6
  <2>2. Follows(Wide(s, b, t), Wide(s, c, m), Wide(s, b, r))
    BY <1>6, <1>8, <2>1, WideJoin
  <2> QED BY <2>1, <2>2
<1> QED BY <1>4, <1>5, <1>7, <1>8, <1>9, Zenon

\* What one call of generate returns, pieced together from as many ciphers as
\* its bytes need, are the bytes of the wide counter (LabelPrf::generate).
LEMMA GenerateIsWide ==
    ASSUME NEW s, NEW pos \in Nat, NEW n \in Nat
    PROVE  generate(s, pos, n) = Reference(s, pos, n)
<1> DEFINE byte_pos(r) == pos * WordBytes + (n - r)
           block_pos(r) == (byte_pos(r) \div BLOCK_BYTES) % (LowBlocks * HighBlocks)
           low(r) == block_pos(r) % LowBlocks
           in(r) == byte_pos(r) % BLOCK_BYTES
           take(r) == Smaller((LowBlocks - low(r)) * BLOCK_BYTES - in(r), r)
           piece(r) == Keystream(<<block_pos(r) \div LowBlocks, s>>, low(r) * BLOCK_BYTES + in(r), take(r))
           rest[r \in 0..n] == IF r = 0 THEN <<>> ELSE piece(r) \o rest[r - take(r)]
           goal == [r \in 0..n |-> Wide(s, byte_pos(r), r)]
<1>1. generate(s, pos, n) = rest[n]
  BY DEF generate
<1>2. ASSUME NEW r \in 1..n
      PROVE  take(r) \in 1..r /\ piece(r) \o Wide(s, byte_pos(r) + take(r), r - take(r)) = Wide(s, byte_pos(r), r)
  <2>1. BLOCK_BYTES \in Nat \ {0} /\ LowBlocks \in Nat \ {0} /\ HighBlocks \in Nat \ {0}
    BY Widths
  <2>2. PICK b \in Nat : b = byte_pos(r)
    <3>1. pos * WordBytes \in Nat
      BY Widths, ProductNat
    <3> QED BY <3>1
  <2>3. PICK hi, lo, i :
          i = InOf(b) /\ hi = HighOf(b) /\ lo = LowOf(b)
    OBVIOUS
  <2>4. i = in(r) /\ lo = low(r) /\ hi = block_pos(r) \div LowBlocks
    BY <2>2, <2>3, Zenon DEF InOf, HighOf, LowOf
  <2>5. PICK t \in 1..r :
          /\ t = Smaller((LowBlocks - lo) * BLOCK_BYTES - i, r)
          /\ Follows(Keystream(<<hi, s>>, lo * BLOCK_BYTES + i, t), Wide(s, b + t, r - t), Wide(s, b, r))
    <3>1. PICK l \in Nat \ {0} : l = r
      OBVIOUS
    <3>2. \E t \in 1..l :
             /\ t = Smaller((LowBlocks - lo) * BLOCK_BYTES - i, l)
             /\ Follows(Keystream(<<hi, s>>, lo * BLOCK_BYTES + i, t), Wide(s, b + t, l - t), Wide(s, b, l))
      BY <2>3, OnePiece
    <3> QED BY <3>1, <3>2
  <2>6. t = take(r)
    BY <2>4, <2>5, Zenon
  <2>7. piece(r) = Keystream(<<hi, s>>, lo * BLOCK_BYTES + i, t)
    <3> HIDE DEF take
    <3> QED BY <2>4, <2>6, Zenon
  <2> HIDE DEF take, byte_pos, piece
  <2> QED BY <2>2, <2>5, <2>6, <2>7 DEF Follows
<1>3. goal[0] = <<>>
  BY DEF Wide
<1>4. goal = [r \in 0..n |-> IF r = 0 THEN <<>> ELSE piece(r) \o goal[r - take(r)]]
  <2>1. ASSUME NEW r \in 1..n PROVE piece(r) \o goal[r - take(r)] = goal[r]
    <3>1. PICK t \in 1..r : t = take(r)
      <4> HIDE DEF take
      <4> QED BY <1>2
    <3>2. r - t \in 0..n /\ byte_pos(r - t) = byte_pos(r) + t
      <4>1. pos * WordBytes \in Nat
        BY Widths, ProductNat
      <4> QED BY <4>1
    <3>3. goal[r - t] = Wide(s, byte_pos(r) + t, r - t) /\ goal[r] = Wide(s, byte_pos(r), r)
      <4> HIDE DEF byte_pos
      <4> QED BY <3>2
    <3> HIDE DEF goal, piece, take, byte_pos
    <3> QED BY <1>2, <3>1, <3>3
  <2> HIDE DEF piece, take
  <2>2. ASSUME NEW r \in 0..n
        PROVE  goal[r] = IF r = 0 THEN <<>> ELSE piece(r) \o goal[r - take(r)]
    <3> HIDE DEF goal
    <3>1. CASE r = 0
      BY <3>1, <1>3
    <3>2. CASE r \in 1..n
      <4>1. r # 0
        BY <3>2
      <4> QED BY <4>1, <3>2, <2>1, Zenon
    <3> QED BY <3>1, <3>2
  <2>3. goal = [r \in 0..n |-> goal[r]]
    OBVIOUS
  <2> HIDE DEF goal
  <2> QED BY <2>2, <2>3
<1>5. rest = [r \in 0..n |-> IF r = 0 THEN <<>> ELSE piece(r) \o rest[r - take(r)]]
  <2>1. \E f : f = [r \in 0..n |-> IF r = 0 THEN <<>> ELSE piece(r) \o f[r - take(r)]]
    <3> HIDE DEF goal, piece, take
    <3> QED BY <1>4
  <2> HIDE DEF piece, take
  <2> QED BY <2>1
<1> DEFINE same == {m \in Nat : \A r \in 0..n : r <= m => rest[r] = goal[r]}
<1>6. Nat \subseteq same
  <2> HIDE DEF rest, goal, piece, take
  <2>1. 0 \in same
    BY <1>3, <1>5
  <2>2. ASSUME NEW m \in Nat, m \in same PROVE m + 1 \in same
    <3>1. ASSUME NEW r \in 0..n, r = m + 1 PROVE rest[r] = goal[r]
      <4>1. r \in 1..n /\ rest[r] = piece(r) \o rest[r - take(r)] /\ goal[r] = piece(r) \o goal[r - take(r)]
        <5>1. r \in 1..n /\ r # 0 /\ r \in 0..n
          BY <3>1
        <5>2. rest[r] = piece(r) \o rest[r - take(r)]
          BY <5>1, <1>5
        <5>3. goal[r] = piece(r) \o goal[r - take(r)]
          BY <5>1, <1>4
        <5> QED BY <5>1, <5>2, <5>3
      <4>2. r - take(r) \in 0..n /\ r - take(r) <= m
        BY <4>1, <1>2, <3>1
      <4>3. rest[r - take(r)] = goal[r - take(r)]
        BY <4>2, <2>2
      <4> QED BY <4>1, <4>3
    <3>2. ASSUME NEW r \in 0..n, r <= m + 1 PROVE rest[r] = goal[r]
      BY <3>1, <3>2, <2>2
    <3> QED BY <3>2
  <2> QED BY <2>1, <2>2, NatSet
<1>7. rest[n] = goal[n]
  <2> HIDE DEF rest, goal
  <2>1. n \in same
    BY <1>6
  <2> QED BY <2>1
<1>8. goal[n] = Reference(s, pos, n)
  <2>1. byte_pos(n) = pos * WordBytes
    BY Widths
  <2> QED BY <2>1, ReferenceIsWide
<1> QED BY <1>1, <1>7, <1>8

-----------------------------------------------------------------------------
(* What a stream was used for.                                             *)

\* The first words of a stream.
FirstWords(s, c) == {<<s, k>> : k \in 0..(c - 1)}

\* As long as nobody moved the generator, the words drawn are the first ones
\* of its stream, each drawn once, and it stands at the next.
OnlyForward ==
    ~ rewound => /\ ~ repeated
                 /\ \E c \in 0..WordPositions : /\ drawn = FirstWords(stream, c)
                                               /\ word_pos = c % WordPositions

StreamInv ==
    /\ word_pos \in 0..(WordPositions - 1)
    /\ \A state \in saved : state.word_pos \in Nat
    /\ MatchesReference
    /\ OnlyForward

LEMMA CountFirstWords ==
    ASSUME NEW s, NEW c \in Nat
    PROVE  Cardinality(FirstWords(s, c)) = c
<1> DEFINE f == [k \in 0..(c - 1) |-> <<s, k>>]
<1>1. f \in Bijection(0..(c - 1), FirstWords(s, c))
  BY DEF Bijection, Injection, Surjection, IsInjective, FirstWords
<1>2. IsFiniteSet(0..(c - 1)) /\ Cardinality(0..(c - 1)) = c
  BY FS_Interval
<1>3. ExistsBijection(0..(c - 1), FirstWords(s, c))
  <2> HIDE DEF f
  <2> QED BY <1>1 DEF ExistsBijection
<1> QED BY <1>2, <1>3, FS_Bijection

LEMMA StreamStart == StreamInit => StreamInv
<1> SUFFICES ASSUME StreamInit PROVE StreamInv
  OBVIOUS
<1>1. 0 \in 0..(WordPositions - 1) /\ 0 % WordPositions = 0 /\ 0 \in 0..WordPositions
  BY Widths
<1>2. MatchesReference
  BY DEF StreamInit, MatchesReference, Reference
<1>3. drawn = FirstWords(stream, 0)
  BY DEF StreamInit, FirstWords
<1> QED BY <1>1, <1>2, <1>3 DEF StreamInit, StreamInv, OnlyForward

\* A call of fill_bytes.
LEMMA FillStep ==
    ASSUME StreamInv, NEW n \in (0..MaxFill) \cup {WordBytes, 2 * WordBytes}, fill_bytes(n)
    PROVE  StreamInv'
<1>1. n \in Nat /\ WordBytes \in Nat \ {0} /\ WordPositions \in Nat \ {0} /\ MaxWords \in Nat
  BY Widths
<1>2. word_pos \in Nat
  BY <1>1 DEF StreamInv
<1>3. Words(n) \in 0..n /\ \A k \in Nat : k * WordBytes < n <=> k < Words(n)
  BY <1>1, Ceiling DEF Words
<1>4. word_pos' \in 0..(WordPositions - 1)
  <2>1. PICK a \in Nat : a = word_pos + Words(n)
    BY <1>1, <1>2, <1>3
  <2>2. a % WordPositions \in 0..(WordPositions - 1)
    BY <1>1, Divide
  <2> QED BY <2>1, <2>2 DEF fill_bytes
<1>5. MatchesReference'
  <2>1. generate(stream, word_pos, n) = Reference(stream, word_pos, n)
    BY <1>1, <1>2, GenerateIsWide
  <2>2. Len(Reference(stream, word_pos, n)) = n
    BY <1>1 DEF Reference
  <2>3. out' = [bytes |-> generate(stream, word_pos, n), stream |-> stream, from |-> word_pos]
    BY DEF fill_bytes
  <2> QED BY <2>1, <2>2, <2>3, Zenon DEF MatchesReference
<1>6. ASSUME ~ rewound PROVE OnlyForward'
  <2>1. PICK c \in 0..WordPositions :
          ~ repeated /\ drawn = FirstWords(stream, c) /\ word_pos = c % WordPositions
    BY <1>6 DEF StreamInv, OnlyForward
  <2>2. c \in Nat /\ c < MaxWords
    BY <1>1, <2>1, CountFirstWords DEF fill_bytes
  <2>3. PICK w \in 0..n : w = Words(n) /\ c + w <= WordPositions
    <3>1. MaxWords + Words(n) <= WordPositions + 1
      BY HistoryAssumption
    <3> QED BY <1>1, <1>3, <2>2, <3>1
  <2>4. ASSUME w # 0 PROVE word_pos = c /\ c < WordPositions
    <3>1. c < WordPositions
      BY <1>1, <2>2, <2>3, <2>4
    <3>2. c % WordPositions = c
      BY <1>1, <2>2, <3>1
    <3> QED BY <2>1, <3>1, <3>2
  <2>5. {k \in 0..n : k * WordBytes < n} = 0..(w - 1)
    <3>1. ASSUME NEW k \in Nat PROVE k * WordBytes < n <=> k < w
      BY <1>3, <2>3
    <3>2. \A k \in 0..(w - 1) : k \in 0..n /\ k < w
      BY <1>1
    <3>3. \A k \in 0..n : k < w => k \in 0..(w - 1)
      BY <1>1
    <3>4. \A k \in 0..n : k \in Nat
      BY <1>1
    <3> QED BY <3>1, <3>2, <3>3, <3>4
  <2> DEFINE touched == {<<stream, (word_pos + k) % WordPositions>> : k \in {k \in 0..n : k * WordBytes < n}}
  <2>6. touched = {<<stream, c + k>> : k \in 0..(w - 1)}
    <3>1. ASSUME NEW k \in 0..(w - 1) PROVE (word_pos + k) % WordPositions = c + k
      <4>1. word_pos = c /\ c + k \in 0..(WordPositions - 1)
        BY <1>1, <2>2, <2>3, <2>4
      <4> QED BY <1>1, <4>1
    <3> QED BY <2>5, <3>1
  <2>7. touched \cap drawn = {}
    <3>1. \A k \in 0..(w - 1), l \in 0..(c - 1) : c + k # l
      BY <2>2
    <3> QED BY <2>1, <2>6, <3>1 DEF FirstWords
  <2>8. drawn \cup touched = FirstWords(stream, c + w)
    <3>1. \A k \in 0..(w - 1) : c + k \in 0..(c + w - 1)
      BY <2>2
    <3>2. \A l \in 0..(c + w - 1) : l \in 0..(c - 1) \/ \E k \in 0..(w - 1) : l = c + k
      <4>1. ASSUME NEW l \in 0..(c + w - 1), l \notin 0..(c - 1) PROVE l - c \in 0..(w - 1) /\ l = c + (l - c)
        BY <2>2, <4>1
      <4> QED BY <4>1
    <3>3. \A l \in 0..(c - 1) : l \in 0..(c + w - 1)
      BY <2>2
    <3> HIDE DEF touched
    <3> QED BY <2>1, <2>6, <3>1, <3>2, <3>3 DEF FirstWords
  <2>9. word_pos' = (c + w) % WordPositions
    <3>1. CASE w = 0
      <4>1. ((c % WordPositions) + 0) % WordPositions = (c + 0) % WordPositions
        <5>1. PICK d \in 0..(WordPositions - 1) : d = c % WordPositions
          BY <1>1, <2>2, Divide
        <5>2. d + 0 = d /\ c + 0 = c /\ d % WordPositions = d
          BY <1>1, <2>2
        <5> QED BY <5>1, <5>2
      <4> QED BY <2>1, <2>3, <3>1, <4>1 DEF fill_bytes
    <3>2. CASE w # 0
      BY <2>3, <2>4, <3>2 DEF fill_bytes
    <3> QED BY <3>1, <3>2
  <2>10. drawn' = drawn \cup touched /\ repeated' = (repeated \/ touched \cap drawn # {}) /\ stream' = stream
    BY DEF fill_bytes
  <2>11. c + w \in 0..WordPositions
    BY <1>1, <2>2, <2>3
  <2> HIDE DEF touched
  <2> QED BY <2>1, <2>7, <2>8, <2>9, <2>10, <2>11 DEF OnlyForward
<1>7. OnlyForward'
  <2>1. rewound' = rewound
    BY DEF fill_bytes
  <2> QED BY <1>6, <2>1 DEF OnlyForward
<1>8. \A state \in saved' : state.word_pos \in Nat
  BY DEF StreamInv, fill_bytes
<1> QED BY <1>4, <1>5, <1>7, <1>8 DEF StreamInv

LEMMA StreamStep == StreamInv /\ [StreamNext]_streamvars => StreamInv'
<1> SUFFICES ASSUME StreamInv, [StreamNext]_streamvars PROVE StreamInv'
  OBVIOUS
<1>0. WordPositions \in Nat \ {0}
  BY Widths
<1>1. CASE \E n \in 0..MaxFill : fill_bytes(n)
  BY <1>1, FillStep
<1>2. CASE next_u32 \/ next_u64
  BY <1>2, FillStep DEF next_u32, next_u64
<1>3. ASSUME NEW s \in Streams, NEW pos \in 0..(2 * WordPositions - 1), set_position(s, pos) PROVE StreamInv'
  <2>1. pos \in Nat
    BY <1>0
  <2>2. pos % WordPositions \in 0..(WordPositions - 1)
    BY <1>0, <2>1, Divide
  <2> QED BY <1>3, <2>2 DEF set_position, StreamInv, MatchesReference, OnlyForward
<1>4. CASE from_prf
  <2>1. word_pos \in Nat
    BY <1>0 DEF StreamInv
  <2>2. \A state \in saved' : state.word_pos \in Nat
    BY <1>4, <2>1 DEF from_prf, StreamInv
  <2> QED BY <1>4, <2>2 DEF from_prf, StreamInv, MatchesReference, OnlyForward
<1>5. ASSUME NEW state \in saved, to_prf(state) PROVE StreamInv'
  <2>1. PICK p \in Nat : p = state.word_pos
    BY DEF StreamInv
  <2>2. p % WordPositions \in 0..(WordPositions - 1)
    BY <1>0, Divide
  <2>3. word_pos' = p % WordPositions /\ stream' = state.stream
    BY <1>5, <2>1 DEF to_prf, from_state
  <2>4. ASSUME ~ rewound' PROVE ~ rewound /\ word_pos' = word_pos /\ stream' = stream
    <3>1. ~ rewound /\ state = [stream |-> stream, word_pos |-> word_pos]
      BY <1>5, <2>4 DEF to_prf
    <3>2. word_pos % WordPositions = word_pos
      BY <1>0 DEF StreamInv
    <3> QED BY <2>1, <2>3, <3>1, <3>2
  <2>5. UNCHANGED <<saved, out, drawn, repeated>>
    BY <1>5 DEF to_prf
  <2>6. OnlyForward'
    BY <2>4, <2>5 DEF StreamInv, OnlyForward
  <2> QED BY <2>2, <2>3, <2>5, <2>6 DEF StreamInv, MatchesReference
<1>6. CASE UNCHANGED streamvars
  BY <1>6 DEF streamvars, StreamInv, MatchesReference, OnlyForward
<1> QED BY <1>1, <1>2, <1>3, <1>4, <1>5, <1>6 DEF StreamNext

\* Every call of the label stream returns what the generator with the wide
\* counter returns in that state, however its bytes lie over the wraps of the
\* cipher's counter and of the wide one (LabelPrf::generate).
THEOREM LabelsMatchReference == Spec => []MatchesReference
<1>1. Init => StreamInv
  BY StreamStart DEF Init
<1>2. StreamInv /\ [Next]_<<subject, sumvars, hashvars, streamvars>> => StreamInv'
  <2>1. [Next]_<<subject, sumvars, hashvars, streamvars>> => [StreamNext]_streamvars
    BY DEF Next
  <2> QED BY <2>1, StreamStep
<1>3. StreamInv => MatchesReference
  BY DEF StreamInv
<1> QED BY <1>1, <1>2, <1>3, PTL DEF Spec

\* No word of a stream is drawn twice unless a host moved the generator or
\* restored a snapshot of an earlier state (LabelPrf, SerializableLabelPrf).
THEOREM LabelsDrawnOnce == Spec => []DrawnOnce
<1>1. Init => StreamInv
  BY StreamStart DEF Init
<1>2. StreamInv /\ [Next]_<<subject, sumvars, hashvars, streamvars>> => StreamInv'
  <2>1. [Next]_<<subject, sumvars, hashvars, streamvars>> => [StreamNext]_streamvars
    BY DEF Next
  <2> QED BY <2>1, StreamStep
<1>3. StreamInv => DrawnOnce
  BY DEF StreamInv, OnlyForward, DrawnOnce
<1> QED BY <1>1, <1>2, <1>3, PTL DEF Spec

-----------------------------------------------------------------------------
(* The hashes.                                                             *)

\* A message, of whatever wires.
IsList(m) == \E W : m \in Seq(W)

LEMMA Bounds ==
    /\ BlockBits \in Nat \ {0} /\ BlockBits % 8 = 0 /\ LengthBits \in 1..(BlockBits - 1)
    /\ DigestBits \in 1..BlockBits /\ DigestBits \in Nat /\ LengthBits \in Nat
    /\ InputLimit \in Nat \ {0} /\ BlockBits + DigestBits < InputLimit
  BY HashBounds

LEMMA ListLen == ASSUME NEW m, IsList(m) PROVE Len(m) \in Nat /\ DOMAIN m = 1..Len(m)
  BY DEF IsList

LEMMA ListJoin ==
    ASSUME NEW m, NEW n, IsList(m), IsList(n)
    PROVE  IsList(m \o n) /\ Len(m \o n) = Len(m) + Len(n)
<1>1. PICK V, W : m \in Seq(V) /\ n \in Seq(W)
  BY DEF IsList
<1>2. PICK U : U = V \cup W
  OBVIOUS
<1>3. m \in Seq(U) /\ n \in Seq(U)
  BY <1>1, <1>2
<1>4. m \o n \in Seq(U) /\ Len(m \o n) = Len(m) + Len(n)
  BY <1>3
<1> QED BY <1>4 DEF IsList

\* new_inputs takes a message that fits as it is.
LEMMA TakenWhole == ASSUME NEW m, IsList(m), Fits(Len(m)) PROVE Taken(m) = m
<1>1. PICK W : m \in Seq(W)
  BY DEF IsList
<1>2. Len(m) \in Nat /\ Len(m) < InputLimit
  BY <1>1 DEF Fits
<1>3. Len(m) % InputLimit = Len(m)
  BY <1>2, Bounds
<1>4. SubSeq(m, 1, Len(m)) = m
  BY <1>1
<1> QED BY <1>3, <1>4 DEF Taken

LEMMA ListConst ==
    ASSUME NEW n \in Nat, NEW b
    PROVE  IsList(Const(n, b)) /\ Len(Const(n, b)) = n
<1>1. Const(n, b) \in Seq({<<b>>}) /\ Len(Const(n, b)) = n
  BY DEF Const
<1> QED BY <1>1 DEF IsList

LEMMA ListBits ==
    ASSUME NEW n \in Nat, NEW x \in Nat
    PROVE  /\ IsList(BitsBe(x, n)) /\ Len(BitsBe(x, n)) = n
           /\ IsList(BitsLe(x, n)) /\ Len(BitsLe(x, n)) = n
<1>1. PICK W : W = {<<(x \div 2^j) % 2>> : j \in Int}
  OBVIOUS
<1>2. BitsBe(x, n) \in Seq(W) /\ Len(BitsBe(x, n)) = n
  <2>1. \A i \in 1..n : n - i \in Int
    OBVIOUS
  <2> QED BY <1>1, <2>1 DEF BitsBe
<1>3. BitsLe(x, n) \in Seq(W) /\ Len(BitsLe(x, n)) = n
  <2>1. \A i \in 1..n : i - 1 \in Int
    OBVIOUS
  <2> QED BY <1>1, <2>1 DEF BitsLe
<1> QED BY <1>2, <1>3 DEF IsList

LEMMA ListDigest ==
    ASSUME NEW state
    PROVE  IsList(Digest(state)) /\ Len(Digest(state)) = DigestBits
<1>1. Digest(state) \in Seq({<<"digest", state, i>> : i \in Nat}) /\ Len(Digest(state)) = DigestBits
  BY Bounds DEF Digest
<1> QED BY <1>1 DEF IsList

LEMMA ListOne == IsList(<<<<1>>>>) /\ Len(<<<<1>>>>) = 1
<1>1. <<<<1>>>> \in Seq({<<1>>}) /\ Len(<<<<1>>>>) = 1
  OBVIOUS
<1> QED BY <1>1 DEF IsList

LEMMA ListPadKey ==
    ASSUME NEW k, IsList(k), NEW places
    PROVE  IsList(PadKey(k, places)) /\ Len(PadKey(k, places)) = Len(k)
<1>1. Len(k) \in Nat /\ DOMAIN k = 1..Len(k)
  BY ListLen
<1>2. PICK W : W = {IF (i - 1) % 8 \in places THEN NegateWire(k[i]) ELSE k[i] : i \in 1..Len(k)}
  OBVIOUS
<1>3. PadKey(k, places) \in Seq(W) /\ Len(PadKey(k, places)) = Len(k)
  BY <1>1, <1>2 DEF PadKey
<1> QED BY <1>3 DEF IsList

\* The number of zeros of the standard, the message padded with so many, and
\* the state after so many blocks.
Zeros(len) == CHOOSE k \in 0..(BlockBits - 1) : (len + 1 + k + LengthBits) % BlockBits = 0
PaddedBy(m, zeros) == m \o <<<<1>>>> \o Const(zeros, 0) \o BitsBe(Len(m), LengthBits)
ChainOf(p, n) ==
    LET chain[i \in 0..n] == IF i = 0 THEN <<"get_512_chain_state">> ELSE <<chain[i - 1], Chunk(p, i)>>
    IN  chain[n]

LEMMA ShortestPadding ==
    ASSUME NEW len \in Nat, PadBits(len) # 0
    PROVE  /\ Zeros(len) = PadBits(len) - 1 /\ PadBits(len) - 1 \in Nat
           /\ \E t \in Nat \ {0} : len + 1 + (PadBits(len) - 1) + LengthBits = t * BlockBits
<1>1. PICK k : k = PadBits(len)
  OBVIOUS
<1>2. k \in Nat \ {0} /\ k = Missing(BlockBits, LengthBits, len)
  <2>1. PICK r \in 0..(BlockBits - 1) : r = len % BlockBits
    BY Bounds, Divide
  <2>2. PICK x \in Nat : x = BlockBits - LengthBits - r + BlockBits
    <3>1. BlockBits - LengthBits - r + BlockBits \in Nat
      BY Bounds
    <3> QED BY <3>1
  <2>3. x % BlockBits \in Nat
    BY Bounds, Divide
  <2> QED BY <1>1, <2>1, <2>2, <2>3 DEF PadBits, Missing
<1>3. /\ k - 1 \in 0..(BlockBits - 1)
      /\ \E t \in Nat \ {0} : len + 1 + (k - 1) + LengthBits = t * BlockBits
      /\ \A z \in 0..(BlockBits - 1) : (len + 1 + z + LengthBits) % BlockBits = 0 <=> z = k - 1
  <2>1. OnlyPadding(BlockBits, LengthBits, len, k)
    BY Bounds, <1>2, Padding
  <2> QED BY <2>1, Zenon DEF OnlyPadding
<1>4. Zeros(len) = k - 1
  BY <1>3 DEF Zeros
<1>5. k - 1 \in Nat
  BY <1>2
<1> QED BY <1>1, <1>3, <1>4, <1>5

\* build_sha512_circuit, for a length that fits and makes no panic, is SHA-512's
\* padding and chaining.
LEMMA Sha512IsStandard ==
    ASSUME NEW m, IsList(m), Fits(Len(m)), ~ Sha512Panics(Len(m))
    PROVE  Sha512(m) = Standard512(m) /\ IsList(Sha512(m)) /\ Len(Sha512(m)) = DigestBits
<1>1. PICK len \in Nat : len = Len(m)
  BY ListLen
<1>2. PICK z \in Nat, t \in Nat \ {0} :
        z = PadBits(len) - 1 /\ z = Zeros(len) /\ len + 1 + z + LengthBits = t * BlockBits
  BY <1>1, ShortestPadding DEF Sha512Panics
<1>3. PICK p : p = PaddedBy(m, z)
  OBVIOUS
<1>4. Padded(m) = p
  BY <1>1, <1>2, <1>3, TakenWhole DEF Padded, PaddedBy
<1>5. IsList(p) /\ Len(p) = t * BlockBits
  <2>1. IsList(m \o <<<<1>>>>) /\ Len(m \o <<<<1>>>>) = len + 1
    BY <1>1, ListOne, ListJoin
  <2>2. IsList(Const(z, 0)) /\ Len(Const(z, 0)) = z
    BY ListConst
  <2>3. IsList(BitsBe(len, LengthBits)) /\ Len(BitsBe(len, LengthBits)) = LengthBits
    BY Bounds, ListBits
  <2>4. IsList(m \o <<<<1>>>> \o Const(z, 0)) /\ Len(m \o <<<<1>>>> \o Const(z, 0)) = len + 1 + z
    BY <2>1, <2>2, ListJoin
  <2>5. /\ IsList(m \o <<<<1>>>> \o Const(z, 0) \o BitsBe(len, LengthBits))
        /\ Len(m \o <<<<1>>>> \o Const(z, 0) \o BitsBe(len, LengthBits)) = len + 1 + z + LengthBits
    BY <2>3, <2>4, ListJoin
  <2> QED BY <1>1, <1>2, <1>3, <2>5 DEF PaddedBy
<1>6. Len(p) \div BlockBits = t /\ Chunks(p) = t
  BY <1>5, Bounds, WholeBlocks DEF Chunks
<1>7. Sha512(m) = Digest(ChainOf(p, Len(p) \div BlockBits))
  BY <1>4 DEF Sha512, ChainOf
<1>8. Standard512(m) = Digest(ChainOf(p, Chunks(p)))
  <2>1. Standard512(m) = Digest(ChainOf(PaddedBy(m, Zeros(Len(m))), Chunks(PaddedBy(m, Zeros(Len(m))))))
    BY DEF Standard512, ChainOf, PaddedBy, Zeros
  <2> QED BY <1>1, <1>2, <1>3, <2>1
<1>9. Sha512(m) = Standard512(m)
  BY <1>6, <1>7, <1>8
<1> QED BY <1>7, <1>9, ListDigest

\* The key brought to one block.
KeyBlock(k) ==
    IF Len(k) <= BlockBits THEN k \o Const(BlockBits - Len(k), 0)
    ELSE Standard512(k) \o Const(BlockBits - DigestBits, 0)

\* A key with the bits of a byte added to each of its bytes.
With(k0, byte) ==
    [i \in DOMAIN k0 |-> IF BitsBe(byte, 8)[((i - 1) % 8) + 1] = <<1>> THEN NegateWire(k0[i]) ELSE k0[i]]

LEMMA ResizedIsBlock ==
    ASSUME NEW k, IsList(k), Fits(Len(k)), ~ (Len(k) > BlockBits /\ Sha512Panics(Len(k)))
    PROVE  Resized(k) = KeyBlock(k) /\ IsList(Resized(k)) /\ Len(Resized(k)) = BlockBits
<1>1. Len(k) \in Nat
  BY ListLen
<1>2. CASE Len(k) <= BlockBits
  <2>1. PICK n \in Nat : n = BlockBits - Len(k)
    BY <1>1, <1>2, Bounds
  <2>2. IsList(Const(n, 0)) /\ Len(Const(n, 0)) = n
    BY ListConst
  <2>3. Resized(k) = k \o Const(n, 0) /\ KeyBlock(k) = k \o Const(n, 0)
    <3>1. ~ (Len(k) > BlockBits)
      BY <1>1, <1>2, Bounds
    <3>2. Resized(k) = k \o Const(n, 0)
      BY <2>1, <3>1, TakenWhole, Zenon DEF Resized
    <3>3. KeyBlock(k) = k \o Const(n, 0)
      BY <1>2, <2>1, Zenon DEF KeyBlock
    <3> QED BY <3>2, <3>3
  <2>4. IsList(k \o Const(n, 0)) /\ Len(k \o Const(n, 0)) = Len(k) + n
    BY <2>2, ListJoin
  <2> QED BY <1>1, <2>1, <2>3, <2>4, Bounds
<1>3. CASE Len(k) > BlockBits
  <2>1. PICK d : d = Sha512(k)
    OBVIOUS
  <2>2. d = Standard512(k) /\ IsList(d) /\ Len(d) = DigestBits
    BY <1>3, <2>1, Sha512IsStandard
  <2>3. PICK n \in Nat : n = BlockBits - DigestBits
    BY Bounds
  <2>4. IsList(Const(n, 0)) /\ Len(Const(n, 0)) = n
    BY ListConst
  <2>5. Resized(k) = d \o Const(n, 0)
    BY <1>3, <2>1, <2>2, <2>3 DEF Resized
  <2>6. KeyBlock(k) = d \o Const(n, 0)
    BY <1>1, <1>3, <2>2, <2>3, Bounds DEF KeyBlock
  <2>7. IsList(d \o Const(n, 0)) /\ Len(d \o Const(n, 0)) = DigestBits + n
    BY <2>2, <2>4, ListJoin
  <2> QED BY <2>3, <2>5, <2>6, <2>7, Bounds
<1> QED BY <1>1, <1>2, <1>3, Bounds

\* The wires the circuit negates are the ones of FIPS 198's bytes.
LEMMA OuterPlaces ==
    ASSUME NEW j \in 0..7
    PROVE  BitsBe(92, 8)[j + 1] = <<1>> <=> j \in {1, 3, 4, 5}
<1>1. BitsBe(92, 8) = [i \in 1..8 |-> <<(92 \div 2^(8 - i)) % 2>>]
  BY DEF BitsBe
<1>2. /\ BitsBe(92, 8)[1] = <<(92 \div 2^(8 - 1)) % 2>> /\ BitsBe(92, 8)[2] = <<(92 \div 2^(8 - 2)) % 2>>
      /\ BitsBe(92, 8)[3] = <<(92 \div 2^(8 - 3)) % 2>> /\ BitsBe(92, 8)[4] = <<(92 \div 2^(8 - 4)) % 2>>
      /\ BitsBe(92, 8)[5] = <<(92 \div 2^(8 - 5)) % 2>> /\ BitsBe(92, 8)[6] = <<(92 \div 2^(8 - 6)) % 2>>
      /\ BitsBe(92, 8)[7] = <<(92 \div 2^(8 - 7)) % 2>> /\ BitsBe(92, 8)[8] = <<(92 \div 2^(8 - 8)) % 2>>
  BY <1>1
<1>3. /\ (92 \div 2^7) % 2 = 0 /\ (92 \div 2^6) % 2 = 1 /\ (92 \div 2^5) % 2 = 0 /\ (92 \div 2^4) % 2 = 1
      /\ (92 \div 2^3) % 2 = 1 /\ (92 \div 2^2) % 2 = 1 /\ (92 \div 2^1) % 2 = 0 /\ (92 \div 2^0) % 2 = 0
  OBVIOUS
<1>4. j \in {0, 1, 2, 3, 4, 5, 6, 7}
  OBVIOUS
<1> QED BY <1>2, <1>3, <1>4

LEMMA InnerPlaces ==
    ASSUME NEW j \in 0..7
    PROVE  BitsBe(54, 8)[j + 1] = <<1>> <=> j \in {2, 3, 5, 6}
<1>1. BitsBe(54, 8) = [i \in 1..8 |-> <<(54 \div 2^(8 - i)) % 2>>]
  BY DEF BitsBe
<1>2. /\ BitsBe(54, 8)[1] = <<(54 \div 2^(8 - 1)) % 2>> /\ BitsBe(54, 8)[2] = <<(54 \div 2^(8 - 2)) % 2>>
      /\ BitsBe(54, 8)[3] = <<(54 \div 2^(8 - 3)) % 2>> /\ BitsBe(54, 8)[4] = <<(54 \div 2^(8 - 4)) % 2>>
      /\ BitsBe(54, 8)[5] = <<(54 \div 2^(8 - 5)) % 2>> /\ BitsBe(54, 8)[6] = <<(54 \div 2^(8 - 6)) % 2>>
      /\ BitsBe(54, 8)[7] = <<(54 \div 2^(8 - 7)) % 2>> /\ BitsBe(54, 8)[8] = <<(54 \div 2^(8 - 8)) % 2>>
  BY <1>1
<1>3. /\ (54 \div 2^7) % 2 = 0 /\ (54 \div 2^6) % 2 = 0 /\ (54 \div 2^5) % 2 = 1 /\ (54 \div 2^4) % 2 = 1
      /\ (54 \div 2^3) % 2 = 0 /\ (54 \div 2^2) % 2 = 1 /\ (54 \div 2^1) % 2 = 1 /\ (54 \div 2^0) % 2 = 0
  OBVIOUS
<1>4. j \in {0, 1, 2, 3, 4, 5, 6, 7}
  OBVIOUS
<1> QED BY <1>2, <1>3, <1>4

LEMMA PadKeyIsWith ==
    ASSUME NEW k, IsList(k)
    PROVE  PadKey(k, {1, 3, 4, 5}) = With(k, 92) /\ PadKey(k, {2, 3, 5, 6}) = With(k, 54)
<1>1. ASSUME NEW i \in DOMAIN k PROVE \E j \in 0..7 : j = (i - 1) % 8
  <2>1. PICK a \in Nat : a = i - 1
    <3>1. i \in 1..Len(k) /\ Len(k) \in Nat
      BY ListLen
    <3>2. i - 1 \in Nat
      BY <3>1
    <3> QED BY <3>2
  <2>2. a % 8 \in 0..7
    OBVIOUS
  <2> QED BY <2>1, <2>2
<1>2. ASSUME NEW i \in DOMAIN k
      PROVE  /\ (i - 1) % 8 \in {1, 3, 4, 5} <=> BitsBe(92, 8)[((i - 1) % 8) + 1] = <<1>>
             /\ (i - 1) % 8 \in {2, 3, 5, 6} <=> BitsBe(54, 8)[((i - 1) % 8) + 1] = <<1>>
  <2>1. PICK j \in 0..7 : j = (i - 1) % 8
    BY <1>1
  <2>2. /\ j \in {1, 3, 4, 5} <=> BitsBe(92, 8)[j + 1] = <<1>>
        /\ j \in {2, 3, 5, 6} <=> BitsBe(54, 8)[j + 1] = <<1>>
    BY OuterPlaces, InnerPlaces
  <2> QED BY <2>1, <2>2, Zenon
<1>3. PadKey(k, {1, 3, 4, 5}) = With(k, 92)
  BY <1>2, Zenon DEF PadKey, With
<1>4. PadKey(k, {2, 3, 5, 6}) = With(k, 54)
  BY <1>2, Zenon DEF PadKey, With
<1> QED BY <1>3, <1>4

\* build_hmac_512_circuit, for lengths that fit and make no panic, is HMAC.
LEMMA Hmac512IsStandard ==
    ASSUME NEW k, NEW m, IsList(k), IsList(m), Fits(Len(k)), Fits(Len(m)), ~ HmacPanics(k, m)
    PROVE  Hmac512(k, m) = StandardHmac(k, m)
<1>1. PICK k0 : k0 = Resized(k)
  OBVIOUS
<1>2. k0 = KeyBlock(k) /\ IsList(k0) /\ Len(k0) = BlockBits
  BY <1>1, ResizedIsBlock DEF HmacPanics
<1>3. PICK i, o : i = PadKey(k0, {2, 3, 5, 6}) /\ o = PadKey(k0, {1, 3, 4, 5})
  OBVIOUS
<1>4. /\ IsList(i) /\ Len(i) = BlockBits /\ i = With(k0, 54)
      /\ IsList(o) /\ Len(o) = BlockBits /\ o = With(k0, 92)
  BY <1>2, <1>3, ListPadKey, PadKeyIsWith
<1>0. Taken(m) = m
  BY TakenWhole
<1>5. IsList(i \o m) /\ Len(i \o m) = BlockBits + Len(m) /\ Fits(Len(i \o m))
  <2>1. IsList(i \o m) /\ Len(i \o m) = BlockBits + Len(m) /\ Len(m) \in Nat
    BY <1>4, ListJoin, ListLen
  <2>2. ~ (BlockBits + Len(m) >= InputLimit)
    BY <1>0 DEF HmacPanics
  <2> QED BY <2>1, <2>2, Bounds DEF Fits
<1>6. PICK d : d = Sha512(i \o m)
  OBVIOUS
<1>7. d = Standard512(i \o m) /\ IsList(d) /\ Len(d) = DigestBits
  BY <1>0, <1>5, <1>6, Sha512IsStandard DEF HmacPanics
<1>8. IsList(o \o d) /\ Len(o \o d) = BlockBits + DigestBits /\ Fits(Len(o \o d))
  BY <1>4, <1>7, ListJoin, Bounds DEF Fits
<1>9. Sha512(o \o d) = Standard512(o \o d)
  BY <1>8, Sha512IsStandard DEF HmacPanics
<1>10. Hmac512(k, m) = Sha512(o \o d)
  BY <1>0, <1>1, <1>3, <1>6 DEF Hmac512, HmacInner
<1>11. StandardHmac(k, m) = Standard512(With(KeyBlock(k), 92) \o Standard512(With(KeyBlock(k), 54) \o m))
  BY DEF StandardHmac, With, KeyBlock
<1> QED BY <1>2, <1>4, <1>7, <1>9, <1>10, <1>11

\* A chain of n states that compresses a[i], b[i] and c[i] into state i.
IsChain(f, h, a, b, c, n) == f = [i \in 0..n |-> IF i = 0 THEN h ELSE <<f[i - 1], a[i], b[i], c[i]>>]

\* There is one, and another that compresses the same has the same states.
LEMMA ChainExists ==
    ASSUME NEW h, NEW a, NEW b, NEW c, NEW n \in Nat
    PROVE  \E f : IsChain(f, h, a, b, c, n)
<1> USE DEF IsChain
<1> DEFINE T == {k \in Nat : \E f : IsChain(f, h, a, b, c, k)}
<1>1. 0 \in T
  <2>1. PICK f : f = [i \in 0..0 |-> h]
    OBVIOUS
  <2>2. IsChain(f, h, a, b, c, 0)
    <3>1. \A i \in 0..0 : i = 0
      OBVIOUS
    <3> QED BY <2>1, <3>1
  <2> QED BY <2>2
<1>2. ASSUME NEW k \in Nat, k \in T PROVE k + 1 \in T
  <2>1. PICK f : IsChain(f, h, a, b, c, k)
    BY <1>2
  <2>2. PICK g : g = [i \in 0..(k + 1) |-> IF i <= k THEN f[i] ELSE <<f[k], a[i], b[i], c[i]>>]
    OBVIOUS
  <2>3. ASSUME NEW i \in 0..(k + 1)
        PROVE  g[i] = IF i = 0 THEN h ELSE <<g[i - 1], a[i], b[i], c[i]>>
    <3>1. CASE i = 0
      <4>1. 0 \in 0..k /\ 0 <= k
        OBVIOUS
      <4> QED BY <2>1, <2>2, <3>1, <4>1
    <3>2. CASE i \in 1..k
      <4>1. i \in 0..k /\ i # 0 /\ i - 1 \in 0..(k + 1) /\ i - 1 <= k /\ i <= k
        BY <3>2
      <4>2. g[i] = f[i] /\ g[i - 1] = f[i - 1]
        BY <2>2, <4>1
      <4>3. f[i] = <<f[i - 1], a[i], b[i], c[i]>>
        BY <2>1, <4>1
      <4> QED BY <4>1, <4>2, <4>3
    <3>3. CASE i = k + 1
      <4>1. i # 0 /\ i - 1 = k /\ k \in 0..(k + 1) /\ ~ (i <= k)
        BY <3>3
      <4>2. g[i] = <<f[k], a[i], b[i], c[i]>> /\ g[k] = f[k]
        BY <2>2, <4>1
      <4> QED BY <4>1, <4>2
    <3> QED BY <3>1, <3>2, <3>3
  <2>4. g = [i \in 0..(k + 1) |-> g[i]]
    BY <2>2
  <2>5. IsChain(g, h, a, b, c, k + 1)
    BY <2>3, <2>4
  <2>6. k + 1 \in Nat
    OBVIOUS
  <2> HIDE DEF IsChain
  <2> QED BY <2>5, <2>6
<1>3. n \in T
  <2> HIDE DEF T
  <2> QED BY <1>1, <1>2, NatSet
<1> QED BY <1>3

LEMMA ChainsAgree ==
    ASSUME NEW h, NEW a, NEW b, NEW c, NEW m \in Nat, NEW n \in Nat,
           NEW f, IsChain(f, h, a, b, c, m), NEW d, NEW e, NEW g, IsChain(g, h, d, e, c, n),
           NEW l \in Nat, l <= m, l <= n,
           \A i \in 1..l : a[i] = d[i] /\ b[i] = e[i]
    PROVE  f[l] = g[l]
<1> USE DEF IsChain
<1> DEFINE T == {k \in Nat : k <= l => f[k] = g[k]}
<1>1. 0 \in T
  <2>1. 0 \in 0..m /\ 0 \in 0..n
    OBVIOUS
  <2>2. f[0] = h /\ g[0] = h
    BY <2>1
  <2> QED BY <2>2
<1>2. ASSUME NEW k \in Nat, k \in T PROVE k + 1 \in T
  <2>1. CASE k + 1 <= l
    <3>1. k + 1 \in 0..m /\ k + 1 \in 0..n /\ k + 1 # 0 /\ (k + 1) - 1 = k /\ k + 1 \in 1..l /\ k <= l
      BY <2>1
    <3>2. f[k + 1] = <<f[k], a[k + 1], b[k + 1], c[k + 1]>>
      BY <3>1
    <3>3. g[k + 1] = <<g[k], d[k + 1], e[k + 1], c[k + 1]>>
      BY <3>1
    <3>4. f[k] = g[k] /\ a[k + 1] = d[k + 1] /\ b[k + 1] = e[k + 1]
      BY <1>2, <3>1
    <3>5. f[k + 1] = g[k + 1]
      BY <3>2, <3>3, <3>4
    <3> QED BY <3>5
  <2>2. CASE ~ (k + 1 <= l)
    BY <2>2
  <2> QED BY <2>1, <2>2
<1>3. l \in T
  <2> HIDE DEF T
  <2> QED BY <1>1, <1>2, NatSet
<1> QED BY <1>3

\* The BLAKE2b circuit of a message that fits and is not empty is RFC 7693's: the blocks
\* but the last one in order, each with the bytes so far, and the last one with
\* the bytes of all.
LEMMA Blake2bIsStandard ==
    ASSUME NEW h, NEW m, IsList(m), Fits(Len(m)), m # <<>>
    PROVE  Blake2b(h, m) = StandardBlake2b(h, m)
<1>1. PICK len \in Nat \ {0} : len = Len(m)
  <2>1. Len(m) \in Nat
    BY ListLen
  <2>2. Len(m) # 0
    BY DEF IsList
  <2> QED BY <2>1, <2>2
<1>2. PICK n \in Nat \ {0} : n = Chunks(m)
  <2>1. (len + BlockBits - 1) \div BlockBits \in 0..len
        /\ \A k \in Nat : k * BlockBits < len <=> k < (len + BlockBits - 1) \div BlockBits
    BY <1>1, Bounds, Ceiling
  <2>2. PICK q \in Nat : q = (len + BlockBits - 1) \div BlockBits
    BY <2>1
  <2>3. 0 * BlockBits = 0
    BY Bounds
  <2>4. 0 < q
    BY <1>1, <2>1, <2>2, <2>3
  <2> QED BY <1>1, <2>2, <2>4 DEF Chunks
<1> DEFINE block(i) == Chunk(m, i) \o Const(BlockBits - Len(Chunk(m, i)), 0)
           chain[i \in 0..n] ==
              IF i = 0 THEN h ELSE <<chain[i - 1], BytesProcessed(m, i), i = n, block(i)>>
           state[i \in 0..(n - 1)] ==
              IF i = 0 THEN h ELSE <<state[i - 1], i * (BlockBits \div 8), FALSE, block(i)>>
<1>3. Blake2b(h, m) = Digest(chain[n])
  <2>1. CompressAll(h, m) = Digest(chain[n])
    BY <1>2, Zenon DEF CompressAll
  <2> HIDE DEF chain
  <2> QED BY <2>1, TakenWhole DEF Blake2b
<1>4. StandardBlake2b(h, m) = Digest(<<state[n - 1], Len(m) \div 8, TRUE, block(n)>>)
  BY <1>2, Zenon DEF StandardBlake2b
<1> HIDE DEF block
<1> DEFINE a == [i \in 1..n |-> BytesProcessed(m, i)]
           b == [i \in 1..n |-> i = n]
           c == [i \in 1..n |-> block(i)]
           d == [i \in 1..n |-> i * (BlockBits \div 8)]
           e == [i \in 1..n |-> FALSE]
<1>5. IsChain(chain, h, a, b, c, n)
  <2>1. PICK f : IsChain(f, h, a, b, c, n)
    <3> HIDE DEF a, b, c
    <3> QED BY ChainExists
  <2>5. ASSUME NEW g
        PROVE  [i \in 0..n |-> IF i = 0 THEN h ELSE <<g[i - 1], BytesProcessed(m, i), i = n, block(i)>>]
                 = [i \in 0..n |-> IF i = 0 THEN h ELSE <<g[i - 1], a[i], b[i], c[i]>>]
    <3>1. \A i \in 0..n : i # 0 => i \in 1..n
      OBVIOUS
    <3> QED BY <3>1
  <2>2. f = [i \in 0..n |-> IF i = 0 THEN h ELSE <<f[i - 1], BytesProcessed(m, i), i = n, block(i)>>]
    <3> HIDE DEF a, b, c
    <3> QED BY <2>1, <2>5, Zenon DEF IsChain
  <2>3. \E x : x = [i \in 0..n |-> IF i = 0 THEN h ELSE <<x[i - 1], BytesProcessed(m, i), i = n, block(i)>>]
    BY <2>2
  <2>4. chain = [i \in 0..n |-> IF i = 0 THEN h ELSE <<chain[i - 1], BytesProcessed(m, i), i = n, block(i)>>]
    BY <2>3
  <2> HIDE DEF chain, a, b, c
  <2> QED BY <2>4, <2>5, Zenon DEF IsChain
<1>6. IsChain(state, h, d, e, c, n - 1)
  <2>0. PICK l \in Nat : l = n - 1 /\ 1..l \subseteq 1..n
    OBVIOUS
  <2>1. PICK f : IsChain(f, h, d, e, c, l)
    <3> HIDE DEF d, e, c
    <3> QED BY ChainExists
  <2>5. ASSUME NEW g
        PROVE  [i \in 0..(n - 1) |-> IF i = 0 THEN h ELSE <<g[i - 1], i * (BlockBits \div 8), FALSE, block(i)>>]
                 = [i \in 0..(n - 1) |-> IF i = 0 THEN h ELSE <<g[i - 1], d[i], e[i], c[i]>>]
    <3>1. \A i \in 0..(n - 1) : i # 0 => i \in 1..n
      OBVIOUS
    <3> QED BY <3>1
  <2>2. f = [i \in 0..(n - 1) |-> IF i = 0 THEN h ELSE <<f[i - 1], i * (BlockBits \div 8), FALSE, block(i)>>]
    <3> HIDE DEF d, e, c
    <3> QED BY <2>0, <2>1, <2>5, Zenon DEF IsChain
  <2>3. \E x : x = [i \in 0..(n - 1) |-> IF i = 0 THEN h ELSE <<x[i - 1], i * (BlockBits \div 8), FALSE, block(i)>>]
    BY <2>2
  <2>4. state = [i \in 0..(n - 1) |-> IF i = 0 THEN h ELSE <<state[i - 1], i * (BlockBits \div 8), FALSE, block(i)>>]
    BY <2>3
  <2> HIDE DEF state, d, e, c
  <2> QED BY <2>4, <2>5, Zenon DEF IsChain
<1>7. \A i \in 1..(n - 1) : a[i] = d[i] /\ b[i] = e[i]
  <2>1. ASSUME NEW i \in 1..(n - 1) PROVE BytesProcessed(m, i) = i * (BlockBits \div 8) /\ i # n
    <3>1. i # n /\ i \in Nat
      OBVIOUS
    <3>2. (i * BlockBits) \div 8 = i * (BlockBits \div 8)
      BY <3>1, Bounds, Eighths
    <3>3. BytesProcessed(m, i) = (i * BlockBits) \div 8
      BY <1>2, <3>1, Zenon DEF BytesProcessed
    <3> QED BY <3>1, <3>2, <3>3
  <2>2. \A i \in 1..(n - 1) : i \in 1..n
    OBVIOUS
  <2>3. \A i \in 1..(n - 1) : a[i] = d[i]
    BY <2>1, <2>2
  <2>4. \A i \in 1..(n - 1) : b[i] = e[i]
    <3>1. ASSUME NEW i \in 1..(n - 1) PROVE (i = n) = FALSE
      BY <2>1
    <3>2. ASSUME NEW i \in 1..(n - 1) PROVE b[i] = (i = n) /\ e[i] = FALSE
      BY <2>2
    <3> HIDE DEF b, e
    <3> QED BY <3>1, <3>2, Zenon
  <2> QED BY <2>3, <2>4
<1>8. chain[n - 1] = state[n - 1]
  <2> HIDE DEF chain, state, a, b, c, d, e
  <2>1. PICK l \in Nat : l = n - 1 /\ l <= n /\ l <= l /\ n \in Nat
    OBVIOUS
  <2>2. IsChain(state, h, d, e, c, l) /\ \A i \in 1..l : a[i] = d[i] /\ b[i] = e[i]
    BY <1>6, <1>7, <2>1
  <2>3. chain[l] = state[l]
    BY <1>5, <2>1, <2>2, ChainsAgree
  <2> QED BY <2>1, <2>3
<1>9. chain[n] = <<chain[n - 1], Len(m) \div 8, TRUE, block(n)>>
  <2>1. n \in 0..n /\ n # 0 /\ n \in 1..n
    OBVIOUS
  <2>2. a[n] = Len(m) \div 8 /\ b[n] = TRUE /\ c[n] = block(n)
    BY <1>2, <2>1 DEF BytesProcessed
  <2> HIDE DEF chain, a, b, c
  <2> QED BY <1>5, <2>1, <2>2 DEF IsChain
<1> QED BY <1>3, <1>4, <1>8, <1>9

LEMMA StandardsHold ==
    ASSUME IsList(hkey), IsList(msg)
    PROVE  HmacStandard /\ Blake2bStandard
<1>1. HmacStandard
  BY Sha512IsStandard, Hmac512IsStandard DEF HmacStandard
<1>2. ASSUME NEW byte \in {6, 7, 8}, Fits(Len(msg) + 8)
      PROVE  PrfExpand(byte, msg) = StandardBlake2b(<<"H_WORDS_ZCASH">>, msg \o BitsLe(byte, 8))
  <2>1. IsList(BitsLe(byte, 8)) /\ Len(BitsLe(byte, 8)) = 8
    <3>1. byte \in Nat /\ 8 \in Nat
      OBVIOUS
    <3> QED BY <3>1, ListBits
  <2>2. IsList(msg \o BitsLe(byte, 8)) /\ Len(msg \o BitsLe(byte, 8)) = Len(msg) + 8 /\ Len(msg) \in Nat
    BY <2>1, ListJoin, ListLen
  <2>3. msg \o BitsLe(byte, 8) # <<>>
    BY <2>2
  <2> QED BY <1>2, <2>2, <2>3, Blake2bIsStandard DEF PrfExpand
<1>3. Blake2bStandard
  BY <1>2, Blake2bIsStandard DEF Blake2bStandard, ZcashBlake2b
<1> QED BY <1>1, <1>3

\* The circuits that hash are the standards' for every key and message of a
\* length that fits the u16 new_inputs takes (below 65536 bits) and that does
\* not make a debug or release build panic: build_sha512_circuit and
\* build_hmac_512_circuit (crates/hd-migration), create_blake2b_circuit and
\* build_zcash_blake2b_circuit (crates/zcash).
THEOREM HashesAreStandard == Spec => []HashesStandard
<1> DEFINE Inv == IsList(hkey) /\ IsList(msg)
<1>1. Init => Inv
  <2>1. <<>> \in Seq({})
    OBVIOUS
  <2> QED BY <2>1 DEF Init, HashInit, IsList
<1>2. Inv /\ [Next]_<<subject, sumvars, hashvars, streamvars>> => Inv'
  <2> SUFFICES ASSUME Inv, [Next]_<<subject, sumvars, hashvars, streamvars>> PROVE Inv'
    OBVIOUS
  <2>1. ASSUME NEW name, NEW n PROVE IsList(Byte(name, n))
    <3>1. Byte(name, n) \in Seq({<<name, n, i>> : i \in 1..8})
      BY DEF Byte
    <3> QED BY <3>1 DEF IsList
  <2>2. CASE GrowKey
    BY <2>1, <2>2, ListJoin DEF GrowKey
  <2>3. CASE GrowMsg
    BY <2>1, <2>3, ListJoin DEF GrowMsg
  <2>4. CASE UNCHANGED hashvars
    BY <2>4 DEF hashvars
  <2> QED BY <2>2, <2>3, <2>4 DEF Next, HashNext, Full
<1>3. Inv => HashesStandard
  BY StandardsHold DEF HashesStandard
<1> QED BY <1>1, <1>2, <1>3, PTL DEF Spec

-----------------------------------------------------------------------------
(* Numbers as bits.                                                        *)

\* Powers of two: the prover knows 2^n only as the number of subsets of a set of n.
LEMMA PowerNat == ASSUME NEW n \in Nat PROVE 2^n \in Nat /\ 2^n = Cardinality(SUBSET (1..n)) /\ IsFiniteSet(SUBSET (1..n))
<1>1. IsFiniteSet(1..n) /\ Cardinality(1..n) = n
  BY FS_Interval
<1>2. IsFiniteSet(SUBSET (1..n)) /\ Cardinality(SUBSET (1..n)) = 2^n
  BY <1>1, FS_SUBSET
<1> QED BY <1>2, FS_CardinalityType

LEMMA PowerDoubles == ASSUME NEW n \in Nat PROVE 2^(n + 1) = 2 * 2^n
<1> DEFINE A == SUBSET (1..n)
           B == {T \cup {n + 1} : T \in A}
           f == [T \in A |-> T \cup {n + 1}]
<1>1. n + 1 \in Nat /\ n + 1 \notin 1..n /\ 1..(n + 1) = (1..n) \cup {n + 1}
  OBVIOUS
<1>2. f \in Bijection(A, B)
  <2>1. f \in [A -> B]
    OBVIOUS
  <2>2. ASSUME NEW S \in A, NEW T \in A, f[S] = f[T] PROVE S = T
    BY <1>1, <2>2
  <2>3. \A t \in B : \E S \in A : f[S] = t
    OBVIOUS
  <2> HIDE DEF A, B, f
  <2>4. f \in Injection(A, B)
    BY <2>1, <2>2, Fun_IsInj
  <2>5. f \in Surjection(A, B)
    BY <2>1, <2>3, Fun_IsSurj
  <2> QED BY <2>4, <2>5 DEF Bijection
<1>3. SUBSET (1..(n + 1)) = A \cup B
  <2>1. ASSUME NEW T \in SUBSET (1..(n + 1)) PROVE T \in A \cup B
    <3>1. CASE n + 1 \in T
      <4>1. T = (T \ {n + 1}) \cup {n + 1} /\ T \ {n + 1} \in A
        BY <1>1, <3>1
      <4> QED BY <4>1
    <3>2. CASE n + 1 \notin T
      BY <1>1, <3>2
    <3> QED BY <3>1, <3>2
  <2>2. A \cup B \subseteq SUBSET (1..(n + 1))
    BY <1>1
  <2> QED BY <2>1, <2>2
<1>4. A \cap B = {}
  BY <1>1
<1>5. IsFiniteSet(A) /\ Cardinality(A) = 2^n /\ 2^n \in Nat
  BY PowerNat
<1>6. IsFiniteSet(B) /\ Cardinality(B) = 2^n
  <2> HIDE DEF A, B, f
  <2>1. ExistsBijection(A, B)
    BY <1>2 DEF ExistsBijection
  <2> QED BY <1>5, <2>1, FS_Bijection
<1>7. Cardinality(A \cup B) = 2^n + 2^n
  <2> HIDE DEF A, B, f
  <2>1. Cardinality(A \cup B) = Cardinality(A) + Cardinality(B) - Cardinality({})
    BY <1>4, <1>5, <1>6, FS_Union
  <2> QED BY <2>1, <1>5, <1>6, FS_EmptySet
<1>8. 2^(n + 1) = Cardinality(A \cup B)
  <2> HIDE DEF A, B, f
  <2> QED BY <1>1, <1>3, PowerNat
<1> QED BY <1>5, <1>7, <1>8

LEMMA PowerZero == 2^0 = 1
  OBVIOUS

LEMMA PowerAbove == ASSUME NEW n \in Nat PROVE n < 2^n
<1> DEFINE T == {k \in Nat : k < 2^k}
<1>1. 0 \in T
  BY PowerZero
<1>2. ASSUME NEW k \in Nat, k \in T PROVE k + 1 \in T
  <2>1. PICK m \in Nat : m = 2^k
    BY PowerNat
  <2>2. 2^(k + 1) = 2 * m
    BY <2>1, PowerDoubles
  <2> QED BY <1>2, <2>1, <2>2
<1>3. n \in T
  <2> HIDE DEF T
  <2> QED BY <1>1, <1>2, NatSet
<1> QED BY <1>3

\* The numbers of n bits.
Bits(n) == [1..n -> {0, 1}]

LEMMA BitsLen == ASSUME NEW n \in Nat, NEW x \in Bits(n) PROVE Len(x) = n /\ x \in Seq({0, 1}) /\ DOMAIN x = 1..n
  BY DEF Bits

\* The running sums of a number's bits.
Sums(f, x, n) == f[0] = 0 /\ \A i \in 1..n : f[i] = f[i - 1] + x[i] * 2^(i - 1)

\* They stay below the powers of two, and are determined by the bits.
LEMMA SumsBound ==
    ASSUME NEW n \in Nat, NEW x \in Bits(n), NEW f, Sums(f, x, n)
    PROVE  \A i \in 0..n : f[i] \in Nat /\ f[i] < 2^i
<1> DEFINE T == {i \in Nat : f[i] \in Nat /\ f[i] < 2^i}
<1>1. 0 \in T
  BY PowerZero DEF Sums
<1>2. ASSUME NEW i \in 0..(n - 1), i \in T PROVE i + 1 \in T
  <2>1. i + 1 \in 1..n /\ (i + 1) - 1 = i /\ i \in Nat
    OBVIOUS
  <2>2. f[i + 1] = f[i] + x[i + 1] * 2^i
    BY <2>1 DEF Sums
  <2>3. x[i + 1] \in {0, 1}
    BY <2>1 DEF Bits
  <2>4. PICK m \in Nat : m = 2^i /\ 2^(i + 1) = 2 * m
    BY <2>1, PowerNat, PowerDoubles
  <2>5. PICK v \in Nat : v = f[i] /\ v < m
    BY <1>2, <2>4
  <2>6. f[i + 1] = v \/ f[i + 1] = v + m
    BY <2>2, <2>3, <2>4, <2>5
  <2>7. f[i + 1] \in Nat /\ f[i + 1] < 2 * m
    BY <2>5, <2>6
  <2> QED BY <2>1, <2>4, <2>7
<1>3. \A i \in 0..n : i \in T
  <2> HIDE DEF T
  <2> QED BY <1>1, <1>2, Climb
<1> QED BY <1>3

LEMMA SumsAgree ==
    ASSUME NEW n \in Nat, NEW x \in Bits(n), NEW f, Sums(f, x, n), NEW g, Sums(g, x, n)
    PROVE  f[n] = g[n]
<1> DEFINE T == {i \in Nat : f[i] = g[i]}
<1>1. 0 \in T
  BY DEF Sums
<1>2. ASSUME NEW i \in 0..(n - 1), i \in T PROVE i + 1 \in T
  <2>1. i + 1 \in 1..n /\ (i + 1) - 1 = i /\ i + 1 \in Nat
    OBVIOUS
  <2>2. f[i + 1] = f[i] + x[i + 1] * 2^i /\ g[i + 1] = g[i] + x[i + 1] * 2^i
    BY <2>1 DEF Sums
  <2> QED BY <1>2, <2>1, <2>2
<1>3. \A i \in 0..n : i \in T
  <2> HIDE DEF T
  <2> QED BY <1>1, <1>2, Climb
<1>4. n \in 0..n
  OBVIOUS
<1> QED BY <1>3, <1>4

\* Number is the last of them.
LEMMA NumberSums ==
    ASSUME NEW n \in Nat, NEW x \in Bits(n)
    PROVE  \E f : Sums(f, x, n) /\ Number(x) = f[n]
<1> DEFINE upto[i \in 0..n] == IF i = 0 THEN 0 ELSE upto[i - 1] + x[i] * 2^(i - 1)
<1>1. Number(x) = upto[n]
  <2>1. Len(x) = n
    BY BitsLen
  <2> QED BY <2>1, Zenon DEF Number
<1>2. \E f : f = [i \in 0..n |-> IF i = 0 THEN 0 ELSE f[i - 1] + x[i] * 2^(i - 1)]
  <2> DEFINE s == [q \in (1..n) \X Nat |-> q[2] + x[q[1]] * 2^(q[1] - 1)]
  <2>1. s \in [(1..n) \X Nat -> Nat]
    <3>1. ASSUME NEW i \in 1..n, NEW v \in Nat PROVE v + x[i] * 2^(i - 1) \in Nat
      <4>1. i - 1 \in Nat
        OBVIOUS
      <4>2. PICK m \in Nat : m = 2^(i - 1)
        BY <4>1, PowerNat
      <4>3. x[i] \in {0, 1}
        BY DEF Bits
      <4> QED BY <4>2, <4>3
    <3> QED BY <3>1
  <2>2. PICK f : Recurs(f, 0, s, n, Nat)
    <3>1. 0 \in Nat
      OBVIOUS
    <3> HIDE DEF s
    <3> QED BY <2>1, <3>1, Recursion
  <2>3. f \in [0..n -> Nat] /\ f[0] = 0
    BY <2>2 DEF Recurs
  <2>4. ASSUME NEW i \in 1..n PROVE f[i] = f[i - 1] + x[i] * 2^(i - 1)
    <3>1. f[i] = s[<<i, f[i - 1]>>]
      BY <2>2 DEF Recurs
    <3>2. f[i - 1] \in Nat
      BY <2>3
    <3>3. s[<<i, f[i - 1]>>] = f[i - 1] + x[i] * 2^(i - 1)
      BY <3>2
    <3> QED BY <3>1, <3>3
  <2>5. \A i \in 0..n : i # 0 => i \in 1..n
    OBVIOUS
  <2>6. f = [i \in 0..n |-> IF i = 0 THEN 0 ELSE f[i - 1] + x[i] * 2^(i - 1)]
    <3> HIDE DEF s
    <3> QED BY <2>3, <2>4, <2>5
  <2> QED BY <2>6
<1>3. upto = [i \in 0..n |-> IF i = 0 THEN 0 ELSE upto[i - 1] + x[i] * 2^(i - 1)]
  BY <1>2
<1> HIDE DEF upto
<1>4. upto[0] = 0
  <2>1. 0 \in 0..n
    OBVIOUS
  <2> QED BY <1>3, <2>1, Zenon
<1>5. ASSUME NEW i \in 1..n PROVE upto[i] = upto[i - 1] + x[i] * 2^(i - 1)
  <2>1. i \in 0..n /\ i # 0
    OBVIOUS
  <2> QED BY <1>3, <2>1, Zenon
<1>6. Sums(upto, x, n)
  BY <1>4, <1>5 DEF Sums
<1> QED BY <1>1, <1>6

LEMMA NumberIs ==
    ASSUME NEW n \in Nat, NEW x \in Bits(n), NEW f, Sums(f, x, n)
    PROVE  Number(x) = f[n] /\ f[n] \in Nat /\ f[n] < 2^n
<1>1. PICK g : Sums(g, x, n) /\ Number(x) = g[n]
  BY NumberSums
<1>2. n \in 0..n
  OBVIOUS
<1> QED BY <1>1, <1>2, SumsAgree, SumsBound

LEMMA NumberBound ==
    ASSUME NEW n \in Nat, NEW x \in Bits(n)
    PROVE  Number(x) \in Nat /\ Number(x) < 2^n
  BY NumberSums, NumberIs

\* The first bits of a number and the bit above them.
LEMMA NumberSplit ==
    ASSUME NEW n \in Nat, NEW x \in Bits(n + 1), NEW y \in Bits(n), \A i \in 1..n : y[i] = x[i]
    PROVE  Number(x) = Number(y) + x[n + 1] * 2^n
<1>1. PICK f : Sums(f, x, n + 1) /\ Number(x) = f[n + 1]
  BY NumberSums
<1>2. Sums(f, y, n)
  BY <1>1 DEF Sums
<1>3. Number(y) = f[n]
  BY <1>2, NumberIs
<1>4. f[n + 1] = f[n] + x[n + 1] * 2^n
  <2>1. n + 1 \in 1..(n + 1) /\ (n + 1) - 1 = n
    OBVIOUS
  <2> QED BY <1>1, <2>1 DEF Sums
<1> QED BY <1>1, <1>3, <1>4

\* Binary writes a number, modulo the power of two of its width.
LEMMA BinaryBits == ASSUME NEW n \in Nat, NEW v \in Nat PROVE Binary(v, n) \in Bits(n)
<1>1. ASSUME NEW i \in 1..n PROVE (v \div 2^(i - 1)) % 2 \in {0, 1}
  <2>1. i - 1 \in Nat
    OBVIOUS
  <2>2. 2^(i - 1) \in Nat \ {0}
    BY <2>1, PowerNat, PowerAbove
  <2>3. PICK q \in Nat : q = v \div 2^(i - 1)
    BY <2>2, Divide
  <2> QED BY <2>3
<1> QED BY <1>1 DEF Binary, Bits

LEMMA NumberBinary ==
    ASSUME NEW n \in Nat, NEW v \in Nat
    PROVE  Number(Binary(v, n)) = v % 2^n
<1> DEFINE f == [i \in 0..n |-> v % 2^i]
<1>1. f[0] = 0
  BY PowerZero
<1>2. ASSUME NEW i \in 1..n PROVE f[i] = f[i - 1] + Binary(v, n)[i] * 2^(i - 1)
  <2>1. PICK j \in Nat : j = i - 1 /\ i = j + 1
    OBVIOUS
  <2>2. i \in 0..n /\ j \in 0..n
    BY <2>1
  <2>3. f[i] = v % 2^i /\ f[j] = v % 2^j
    BY <2>2
  <2>4. PICK m \in Nat \ {0} : m = 2^j /\ 2^i = 2 * m
    BY <2>1, PowerNat, PowerAbove, PowerDoubles
  <2>5. Binary(v, n)[i] = (v \div m) % 2
    BY <2>1, <2>4 DEF Binary
  <2>6. v % (2 * m) = (v % m) + ((v \div m) % 2) * m
    BY HalfDigit
  <2> HIDE DEF f
  <2> QED BY <2>1, <2>3, <2>4, <2>5, <2>6
<1>3. Sums(f, Binary(v, n), n)
  <2> HIDE DEF f
  <2> QED BY <1>1, <1>2 DEF Sums
<1>4. Number(Binary(v, n)) = f[n]
  <2> HIDE DEF f
  <2> QED BY <1>3, BinaryBits, NumberIs
<1> QED BY <1>4

LEMMA BinaryExact == ASSUME NEW n \in Nat, NEW v \in Nat, v < 2^n PROVE Number(Binary(v, n)) = v /\ Binary(v, n) \in Bits(n)
<1>1. PICK m \in Nat : m = 2^n
  BY PowerNat
<1>2. v % m = v
  BY <1>1
<1> QED BY <1>1, <1>2, NumberBinary, BinaryBits

\* The highest bit that differs decides which number is less.
Lower(x, y, lo, hi) == \E i \in lo..hi : x[i] < y[i] /\ \A j \in (i + 1)..hi : x[j] = y[j]
Same(x, y, lo, hi) == \A j \in lo..hi : x[j] = y[j]

\* So it is for Number, and no number is written in two ways.
LEMMA LowerNumber ==
    ASSUME NEW n \in Nat, NEW x \in Bits(n), NEW y \in Bits(n)
    PROVE  /\ Lower(x, y, 1, n) <=> Number(x) < Number(y)
           /\ Same(x, y, 1, n) <=> Number(x) = Number(y)
<1>1. PICK f : Sums(f, x, n) /\ Number(x) = f[n]
  BY NumberSums
<1>2. PICK g : Sums(g, y, n) /\ Number(y) = g[n]
  BY NumberSums
<1> DEFINE T == {i \in Nat : (Lower(x, y, 1, i) <=> f[i] < g[i]) /\ (Same(x, y, 1, i) <=> f[i] = g[i])}
<1>3. 0 \in T
  <2>1. f[0] = 0 /\ g[0] = 0
    BY <1>1, <1>2 DEF Sums
  <2> QED BY <2>1 DEF Lower, Same
<1>4. ASSUME NEW i \in 0..(n - 1), i \in T PROVE i + 1 \in T
  <2>1. i + 1 \in 1..n /\ (i + 1) - 1 = i /\ i \in Nat /\ i \in 0..n /\ i + 1 \in Nat
    OBVIOUS
  <2>2. f[i + 1] = f[i] + x[i + 1] * 2^i /\ g[i + 1] = g[i] + y[i + 1] * 2^i
    BY <1>1, <1>2, <2>1 DEF Sums
  <2>3. x[i + 1] \in {0, 1} /\ y[i + 1] \in {0, 1}
    BY <2>1 DEF Bits
  <2>4. PICK m \in Nat : m = 2^i
    BY <2>1, PowerNat
  <2>5. PICK a \in Nat : a = f[i] /\ a < m
    BY <1>1, <2>1, <2>4, SumsBound
  <2>6. PICK b \in Nat : b = g[i] /\ b < m
    BY <1>2, <2>1, <2>4, SumsBound
  <2>7. Lower(x, y, 1, i + 1) <=> (x[i + 1] < y[i + 1] \/ (x[i + 1] = y[i + 1] /\ Lower(x, y, 1, i)))
    <3>1. ASSUME Lower(x, y, 1, i + 1) PROVE x[i + 1] < y[i + 1] \/ (x[i + 1] = y[i + 1] /\ Lower(x, y, 1, i))
      <4>1. PICK k \in 1..(i + 1) : x[k] < y[k] /\ \A j \in (k + 1)..(i + 1) : x[j] = y[j]
        BY <3>1 DEF Lower
      <4>2. CASE k = i + 1
        BY <4>1, <4>2
      <4>3. CASE k # i + 1
        <5>1. k \in 1..i /\ i + 1 \in (k + 1)..(i + 1) /\ (k + 1)..i \subseteq (k + 1)..(i + 1)
          BY <4>3
        <5> QED BY <4>1, <5>1 DEF Lower
      <4> QED BY <4>2, <4>3
    <3>2. ASSUME x[i + 1] < y[i + 1] PROVE Lower(x, y, 1, i + 1)
      <4>1. i + 1 \in 1..(i + 1) /\ (i + 1 + 1)..(i + 1) = {}
        OBVIOUS
      <4> QED BY <3>2, <4>1 DEF Lower
    <3>3. ASSUME x[i + 1] = y[i + 1], Lower(x, y, 1, i) PROVE Lower(x, y, 1, i + 1)
      <4>1. PICK k \in 1..i : x[k] < y[k] /\ \A j \in (k + 1)..i : x[j] = y[j]
        BY <3>3 DEF Lower
      <4>2. k \in 1..(i + 1) /\ \A j \in (k + 1)..(i + 1) : j \in (k + 1)..i \/ j = i + 1
        OBVIOUS
      <4> QED BY <3>3, <4>1, <4>2 DEF Lower
    <3> QED BY <3>1, <3>2, <3>3
  <2>8. Same(x, y, 1, i + 1) <=> (x[i + 1] = y[i + 1] /\ Same(x, y, 1, i))
    <3>1. i + 1 \in 1..(i + 1) /\ 1..i \subseteq 1..(i + 1) /\ \A j \in 1..(i + 1) : j \in 1..i \/ j = i + 1
      OBVIOUS
    <3> QED BY <3>1 DEF Same
  <2>9. (Lower(x, y, 1, i) <=> a < b) /\ (Same(x, y, 1, i) <=> a = b)
    BY <1>4, <2>5, <2>6
  <2>10. f[i + 1] = a + x[i + 1] * m /\ g[i + 1] = b + y[i + 1] * m
    BY <2>2, <2>4, <2>5, <2>6
  <2>11. CASE x[i + 1] = 0 /\ y[i + 1] = 0
    BY <2>1, <2>5, <2>6, <2>7, <2>8, <2>9, <2>10, <2>11
  <2>12. CASE x[i + 1] = 1 /\ y[i + 1] = 0
    BY <2>1, <2>5, <2>6, <2>7, <2>8, <2>9, <2>10, <2>12
  <2>13. CASE x[i + 1] = 0 /\ y[i + 1] = 1
    BY <2>1, <2>5, <2>6, <2>7, <2>8, <2>9, <2>10, <2>13
  <2>14. CASE x[i + 1] = 1 /\ y[i + 1] = 1
    BY <2>1, <2>5, <2>6, <2>7, <2>8, <2>9, <2>10, <2>14
  <2> QED BY <2>3, <2>11, <2>12, <2>13, <2>14
<1>5. \A i \in 0..n : i \in T
  <2> HIDE DEF T
  <2> QED BY <1>3, <1>4, Climb
<1>6. n \in 0..n
  OBVIOUS
<1> QED BY <1>1, <1>2, <1>5, <1>6

LEMMA NumberUnique ==
    ASSUME NEW n \in Nat, NEW x \in Bits(n), NEW y \in Bits(n), Number(x) = Number(y)
    PROVE  x = y
<1>1. Same(x, y, 1, n)
  BY LowerNumber
<1> QED BY <1>1 DEF Same, Bits

-----------------------------------------------------------------------------
(* The circuits of numbers.                                                *)

\* The gates on bits.
LEMMA Gates ==
    ASSUME NEW a \in {0, 1}, NEW b \in {0, 1}
    PROVE  /\ Xor(a, b) \in {0, 1} /\ And(a, b) \in {0, 1} /\ Or(a, b) \in {0, 1} /\ Negate(a) \in {0, 1}
           /\ Xor(a, b) = 1 <=> a # b
           /\ And(a, b) = 1 <=> a = 1 /\ b = 1
           /\ Or(a, b) = 1 <=> a = 1 \/ b = 1
           /\ Negate(a) = 1 <=> a = 0
  BY DEF Xor, And, Or, Negate

\* A multiplexer of one exclusive or and one and.
LEMMA Chosen ==
    ASSUME NEW c \in {0, 1}, NEW a \in {0, 1}, NEW b \in {0, 1}
    PROVE  Xor(And(Xor(a, b), c), b) = IF c = 1 THEN a ELSE b
  BY DEF Xor, And

\* One bit for every place.
Spread(c, n) == [i \in 1..n |-> c]

LEMMA IfThenElseIs ==
    ASSUME NEW n \in Nat, NEW c \in {0, 1}, NEW x \in Bits(n), NEW y \in Bits(n)
    PROVE  /\ c = 1 => IfThenElse(Spread(c, n), x, y) = x
           /\ c # 1 => IfThenElse(Spread(c, n), x, y) = y
<1> USE DEF Spread
<1>1. DOMAIN x = 1..n
  BY DEF Bits
<1>2. IfThenElse([i \in 1..n |-> c], x, y) = [i \in 1..n |-> IF c = 1 THEN x[i] ELSE y[i]]
  <2>1. ASSUME NEW i \in 1..n PROVE Xor(And(Xor(x[i], y[i]), c), y[i]) = IF c = 1 THEN x[i] ELSE y[i]
    <3>1. x[i] \in {0, 1} /\ y[i] \in {0, 1}
      BY DEF Bits
    <3> QED BY <3>1, Chosen
  <2> QED BY <1>1, <2>1 DEF IfThenElse
<1> QED BY <1>2 DEF Bits

\* The bits of a range: is the first number at least the second there, and do they differ.
Says(res, diff, x, y, lo, hi) ==
    /\ res \in {0, 1} /\ diff \in {0, 1}
    /\ res = 1 <=> ~ Lower(x, y, lo, hi)
    /\ diff = 1 <=> ~ Same(x, y, lo, hi)
Ranged(f, x, y, lo, hi) == Says(f[<<lo, hi>>].res, f[<<lo, hi>>].diff, x, y, lo, hi)

\* A range of one bit, and one of two parts.
LEMMA RangeOne ==
    ASSUME NEW n \in Nat, NEW x \in Bits(n), NEW y \in Bits(n), NEW lo \in 1..n
    PROVE  /\ Negate(And(Xor(x[lo], y[lo]), y[lo])) \in {0, 1} /\ Xor(x[lo], y[lo]) \in {0, 1}
           /\ Negate(And(Xor(x[lo], y[lo]), y[lo])) = 1 <=> ~ Lower(x, y, lo, lo)
           /\ Xor(x[lo], y[lo]) = 1 <=> ~ Same(x, y, lo, lo)
<1>1. x[lo] \in {0, 1} /\ y[lo] \in {0, 1}
  BY DEF Bits
<1>2. lo..lo = {lo} /\ (lo + 1)..lo = {}
  OBVIOUS
<1>3. (Lower(x, y, lo, lo) <=> x[lo] < y[lo]) /\ (Same(x, y, lo, lo) <=> x[lo] = y[lo])
  BY <1>2 DEF Lower, Same
<1> QED BY <1>1, <1>3 DEF Xor, And, Negate

LEMMA RangeTwo ==
    ASSUME NEW n \in Nat, NEW x \in Bits(n), NEW y \in Bits(n), NEW lo \in 1..n, NEW hi \in 1..n, NEW m \in Int, lo <= m, m < hi
    PROVE  /\ Lower(x, y, lo, hi) <=> Lower(x, y, m + 1, hi) \/ (Same(x, y, m + 1, hi) /\ Lower(x, y, lo, m))
           /\ Same(x, y, lo, hi) <=> Same(x, y, m + 1, hi) /\ Same(x, y, lo, m)
           /\ Lower(x, y, m + 1, hi) => ~ Same(x, y, m + 1, hi)
<1>1. lo..hi = (lo..m) \cup ((m + 1)..hi)
  OBVIOUS
<1>2. ASSUME Lower(x, y, lo, hi), ~ Lower(x, y, m + 1, hi) PROVE Same(x, y, m + 1, hi) /\ Lower(x, y, lo, m)
  <2>1. PICK k \in lo..hi : x[k] < y[k] /\ \A j \in (k + 1)..hi : x[j] = y[j]
    BY <1>2 DEF Lower
  <2>2. k \in lo..m
    BY <1>1, <1>2, <2>1 DEF Lower
  <2>3. (m + 1)..hi \subseteq (k + 1)..hi /\ (k + 1)..m \subseteq (k + 1)..hi
    BY <2>2
  <2> QED BY <2>1, <2>2, <2>3 DEF Lower, Same
<1>3. ASSUME Lower(x, y, m + 1, hi) PROVE Lower(x, y, lo, hi)
  BY <1>1, <1>3 DEF Lower
<1>4. ASSUME Same(x, y, m + 1, hi), Lower(x, y, lo, m) PROVE Lower(x, y, lo, hi)
  <2>1. PICK k \in lo..m : x[k] < y[k] /\ \A j \in (k + 1)..m : x[j] = y[j]
    BY <1>4 DEF Lower
  <2>2. k \in lo..hi /\ \A j \in (k + 1)..hi : j \in (k + 1)..m \/ j \in (m + 1)..hi
    OBVIOUS
  <2> QED BY <1>4, <2>1, <2>2 DEF Lower, Same
<1>5. Same(x, y, lo, hi) <=> Same(x, y, m + 1, hi) /\ Same(x, y, lo, m)
  BY <1>1 DEF Same
<1>6. Lower(x, y, m + 1, hi) => ~ Same(x, y, m + 1, hi)
  <2>1. ASSUME NEW k \in (m + 1)..hi, x[k] < y[k] PROVE x[k] # y[k]
    <3>1. k \in 1..n
      OBVIOUS
    <3>2. x[k] \in {0, 1} /\ y[k] \in {0, 1}
      BY <3>1 DEF Bits
    <3> QED BY <2>1, <3>2
  <2> QED BY <2>1 DEF Lower, Same
<1> QED BY <1>2, <1>3, <1>4, <1>5, <1>6

LEMMA RangeBoth ==
    ASSUME NEW n \in Nat, NEW x \in Bits(n), NEW y \in Bits(n), NEW lo \in 1..n, NEW hi \in 1..n,
           NEW m \in Int, lo <= m, m < hi, NEW k, k = m + 1,
           NEW hr, NEW hd, Says(hr, hd, x, y, k, hi), NEW lr, NEW ld, Says(lr, ld, x, y, lo, m)
    PROVE  Says(IfThenElse(<<hd>>, <<hr>>, <<lr>>)[1], Or(hd, ld), x, y, lo, hi)
<1> USE DEF Says
<1>1. IfThenElse(<<hd>>, <<hr>>, <<lr>>)[1] = IF hd = 1 THEN hr ELSE lr
  <2>1. DOMAIN <<hr>> = {1}
    OBVIOUS
  <2>2. IfThenElse(<<hd>>, <<hr>>, <<lr>>)[1] = Xor(And(Xor(hr, lr), hd), lr)
    BY <2>1 DEF IfThenElse
  <2> QED BY <2>2, Chosen
<1>2. /\ Lower(x, y, lo, hi) <=> Lower(x, y, m + 1, hi) \/ (Same(x, y, m + 1, hi) /\ Lower(x, y, lo, m))
      /\ Same(x, y, lo, hi) <=> Same(x, y, m + 1, hi) /\ Same(x, y, lo, m)
      /\ Lower(x, y, m + 1, hi) => ~ Same(x, y, m + 1, hi)
  <2> HIDE DEF Says
  <2> QED BY RangeTwo
<1> QED BY <1>1, <1>2, Gates

\* What build_compare_ge_rec_circuit makes of a range from what it made of the others.
Middle(r) == r[1] + (r[2] - r[1]) \div 2
GeStep(f, x, y, r) ==
    IF r[1] = r[2]
    THEN [res |-> Negate(And(Xor(x[r[1]], y[r[1]]), y[r[1]])), diff |-> Xor(x[r[1]], y[r[1]])]
    ELSE [res |-> IfThenElse(<<f[<<Middle(r) + 1, r[2]>>].diff>>, <<f[<<Middle(r) + 1, r[2]>>].res>>, <<f[<<r[1], Middle(r)>>].res>>)[1],
          diff |-> Or(f[<<Middle(r) + 1, r[2]>>].diff, f[<<r[1], Middle(r)>>].diff)]

LEMMA MiddleIn ==
    ASSUME NEW lo \in Nat, NEW hi \in Nat, NEW m, m = lo + (hi - lo) \div 2
    PROVE  /\ m \in Int
           /\ lo < hi => lo <= m /\ m < hi
           /\ lo > hi => m < lo /\ hi <= m
  OBVIOUS

\* The comparison itself solves the recursion, ranges with nothing in them included.
LEMMA GeExists ==
    ASSUME NEW n \in Nat, NEW x \in Bits(n), NEW y \in Bits(n)
    PROVE  \E f : f = [r \in (1..n) \X (1..n) |-> GeStep(f, x, y, r)]
<1> DEFINE S == (1..n) \X (1..n)
           f == [r \in S |-> [res |-> IF Lower(x, y, r[1], r[2]) THEN 0 ELSE 1,
                              diff |-> IF Same(x, y, r[1], r[2]) THEN 0 ELSE 1]]
<1>1. ASSUME NEW lo \in 1..n, NEW hi \in 1..n
      PROVE  /\ <<lo, hi>> \in S
             /\ f[<<lo, hi>>] = [res |-> IF Lower(x, y, lo, hi) THEN 0 ELSE 1, diff |-> IF Same(x, y, lo, hi) THEN 0 ELSE 1]
             /\ Ranged(f, x, y, lo, hi)
  <2>1. <<lo, hi>> \in S /\ <<lo, hi>>[1] = lo /\ <<lo, hi>>[2] = hi
    OBVIOUS
  <2>2. f[<<lo, hi>>] = [res |-> IF Lower(x, y, lo, hi) THEN 0 ELSE 1, diff |-> IF Same(x, y, lo, hi) THEN 0 ELSE 1]
    BY <2>1
  <2>3. f[<<lo, hi>>].res = (IF Lower(x, y, lo, hi) THEN 0 ELSE 1) /\ f[<<lo, hi>>].diff = (IF Same(x, y, lo, hi) THEN 0 ELSE 1)
    BY <2>2
  <2> HIDE DEF f
  <2>4. Ranged(f, x, y, lo, hi)
    BY <2>3 DEF Ranged, Says
  <2> QED BY <2>1, <2>2, <2>4
<1>2. ASSUME NEW lo \in 1..n, NEW hi \in 1..n PROVE f[<<lo, hi>>] = GeStep(f, x, y, <<lo, hi>>)
  <2>1. PICK m : m = lo + (hi - lo) \div 2
    OBVIOUS
  <2>2. <<lo, hi>>[1] = lo /\ <<lo, hi>>[2] = hi /\ Middle(<<lo, hi>>) = m
    BY <2>1 DEF Middle
  <2>3. m \in Int /\ (lo < hi => lo <= m /\ m < hi) /\ (lo > hi => m < lo /\ hi <= m)
    BY <2>1, MiddleIn
  <2>4. CASE lo = hi
    <3>1. GeStep(f, x, y, <<lo, hi>>) = [res |-> Negate(And(Xor(x[lo], y[lo]), y[lo])), diff |-> Xor(x[lo], y[lo])]
      BY <2>2, <2>4, Zenon DEF GeStep
    <3>2. /\ Negate(And(Xor(x[lo], y[lo]), y[lo])) = (IF Lower(x, y, lo, lo) THEN 0 ELSE 1)
          /\ Xor(x[lo], y[lo]) = (IF Same(x, y, lo, lo) THEN 0 ELSE 1)
      BY RangeOne
    <3> HIDE DEF f
    <3> QED BY <1>1, <2>4, <3>1, <3>2
  <2>5. CASE lo # hi
    <3>1. m \in 1..n /\ m + 1 \in 1..n
      BY <2>3, <2>5
    <3> HIDE DEF f
    <3>0. PICK k \in 1..n : k = m + 1
      BY <3>1
    <3>2. PICK hr, hd : hr = f[<<k, hi>>].res /\ hd = f[<<k, hi>>].diff
      OBVIOUS
    <3>3. PICK lr, ld : lr = f[<<lo, m>>].res /\ ld = f[<<lo, m>>].diff
      OBVIOUS
    <3>4. Says(hr, hd, x, y, k, hi) /\ Says(lr, ld, x, y, lo, m)
      <4>1. Ranged(f, x, y, k, hi) /\ Ranged(f, x, y, lo, m)
        BY <1>1, <3>0, <3>1
      <4> QED BY <4>1, <3>2, <3>3, Zenon DEF Ranged
    <3>6. GeStep(f, x, y, <<lo, hi>>) = [res |-> IfThenElse(<<hd>>, <<hr>>, <<lr>>)[1], diff |-> Or(hd, ld)]
      BY <2>2, <2>5, <3>0, <3>2, <3>3, Zenon DEF GeStep
    <3>7. Says(IfThenElse(<<hd>>, <<hr>>, <<lr>>)[1], Or(hd, ld), x, y, lo, hi)
      <4>1. CASE lo < hi
        BY <2>3, <4>1, <3>0, <3>4, RangeBoth
      <4>2. CASE lo > hi
        <5>1. k..hi = {} /\ lo..m = {} /\ lo..hi = {}
          BY <2>3, <4>2, <3>0
        <5>2. ~ Lower(x, y, lo, hi) /\ Same(x, y, lo, hi) /\ hr = 1 /\ lr = 1 /\ hd = 0 /\ ld = 0
          BY <5>1, <3>4 DEF Lower, Same, Says
        <5>3. IfThenElse(<<hd>>, <<hr>>, <<lr>>)[1] = Xor(And(Xor(hr, lr), hd), lr)
          BY DEF IfThenElse
        <5>4. Xor(And(Xor(1, 1), 0), 1) = 1 /\ Or(0, 0) = 0
          BY DEF Xor, And, Or
        <5> QED BY <5>2, <5>3, <5>4 DEF Says
      <4> QED BY <2>5, <4>1, <4>2
    <3>8. /\ IfThenElse(<<hd>>, <<hr>>, <<lr>>)[1] = (IF Lower(x, y, lo, hi) THEN 0 ELSE 1)
          /\ Or(hd, ld) = (IF Same(x, y, lo, hi) THEN 0 ELSE 1)
      BY <3>7 DEF Says
    <3> QED BY <1>1, <3>6, <3>8, ZenonT(40)
  <2> QED BY <2>4, <2>5
<1>3. \A r \in S : f[r] = GeStep(f, x, y, r)
  <2> HIDE DEF f
  <2> QED BY <1>2
<1>4. f = [r \in S |-> GeStep(f, x, y, r)]
  <2>1. f = [r \in S |-> f[r]]
    OBVIOUS
  <2> HIDE DEF f
  <2> QED BY <1>3, <2>1
<1> HIDE DEF f
<1> QED BY <1>4

\* And whatever solves it is the comparison on the ranges that hold a bit.
LEMMA GeSolves ==
    ASSUME NEW n \in Nat, NEW x \in Bits(n), NEW y \in Bits(n), NEW f,
           f = [r \in (1..n) \X (1..n) |-> GeStep(f, x, y, r)]
    PROVE  \A lo, hi \in 1..n : lo <= hi => Ranged(f, x, y, lo, hi)
<1> DEFINE T == {d \in Nat : \A lo, hi \in 1..n : lo <= hi /\ hi - lo <= d => Ranged(f, x, y, lo, hi)}
<1>1. ASSUME NEW lo \in 1..n, NEW hi \in 1..n
      PROVE  /\ f[<<lo, hi>>] = GeStep(f, x, y, <<lo, hi>>)
             /\ <<lo, hi>>[1] = lo /\ <<lo, hi>>[2] = hi
  OBVIOUS
<1>2. 0 \in T
  <2> SUFFICES ASSUME NEW lo \in 1..n, NEW hi \in 1..n, lo <= hi, hi - lo <= 0 PROVE Ranged(f, x, y, lo, hi)
    OBVIOUS
  <2>1. lo = hi
    OBVIOUS
  <2>2. f[<<lo, hi>>] = [res |-> Negate(And(Xor(x[lo], y[lo]), y[lo])), diff |-> Xor(x[lo], y[lo])]
    BY <1>1, <2>1, ZenonT(40) DEF GeStep
  <2>3. f[<<lo, hi>>].res = Negate(And(Xor(x[lo], y[lo]), y[lo])) /\ f[<<lo, hi>>].diff = Xor(x[lo], y[lo])
    BY <2>2
  <2> QED BY <2>1, <2>3, RangeOne DEF Ranged, Says
<1>3. ASSUME NEW d \in Nat, d \in T PROVE d + 1 \in T
  <2> SUFFICES ASSUME NEW lo \in 1..n, NEW hi \in 1..n, lo <= hi, hi - lo <= d + 1 PROVE Ranged(f, x, y, lo, hi)
    OBVIOUS
  <2>0. CASE hi - lo <= d
    BY <1>3, <2>0
  <2>9. CASE ~ (hi - lo <= d)
    <3>1. PICK m : m = lo + (hi - lo) \div 2
      OBVIOUS
    <3>2. lo < hi
      BY <2>9
    <3>3. m \in Int /\ lo <= m /\ m < hi
      BY <3>1, <3>2, MiddleIn
    <3>4. m \in 1..n /\ m + 1 \in 1..n /\ m + 1 <= hi /\ hi - (m + 1) <= d /\ m - lo <= d
      BY <3>3
    <3>0. PICK k \in 1..n : k = m + 1
      BY <3>4
    <3>5. Ranged(f, x, y, k, hi) /\ Ranged(f, x, y, lo, m)
      BY <1>3, <3>0, <3>3, <3>4
    <3>6. PICK hr, hd : hr = f[<<k, hi>>].res /\ hd = f[<<k, hi>>].diff
      OBVIOUS
    <3>7. PICK lr, ld : lr = f[<<lo, m>>].res /\ ld = f[<<lo, m>>].diff
      OBVIOUS
    <3>8. Says(hr, hd, x, y, k, hi) /\ Says(lr, ld, x, y, lo, m)
      BY <3>5, <3>6, <3>7, Zenon DEF Ranged
    <3>10. Middle(<<lo, hi>>) = m /\ lo # hi
      BY <3>1, <3>2 DEF Middle
    <3>11. GeStep(f, x, y, <<lo, hi>>) = [res |-> IfThenElse(<<hd>>, <<hr>>, <<lr>>)[1], diff |-> Or(hd, ld)]
      <4>1. <<lo, hi>>[1] = lo /\ <<lo, hi>>[2] = hi
        OBVIOUS
      <4> QED BY <4>1, <3>0, <3>6, <3>7, <3>10, Zenon DEF GeStep
    <3>12. f[<<lo, hi>>].res = IfThenElse(<<hd>>, <<hr>>, <<lr>>)[1] /\ f[<<lo, hi>>].diff = Or(hd, ld)
      <4>1. f[<<lo, hi>>] = GeStep(f, x, y, <<lo, hi>>)
        BY <1>1
      <4> QED BY <3>11, <4>1
    <3>13. Says(IfThenElse(<<hd>>, <<hr>>, <<lr>>)[1], Or(hd, ld), x, y, lo, hi)
      BY <3>0, <3>3, <3>8, RangeBoth
    <3> QED BY <3>12, <3>13, Zenon DEF Ranged
  <2> QED BY <2>0, <2>9
<1>4. n \in T
  <2> HIDE DEF T
  <2> QED BY <1>2, <1>3, NatSet
<1> QED BY <1>4

\* The comparison circuits compare the numbers.
LEMMA GeCompares ==
    ASSUME NEW n \in Nat \ {0}, NEW x \in Bits(n), NEW y \in Bits(n)
    PROVE  CompareGe(x, y) \in {0, 1} /\ (CompareGe(x, y) = 1 <=> Number(x) >= Number(y))
<1>1. Len(x) = n
  BY BitsLen
<1> DEFINE of[r \in (1..n) \X (1..n)] ==
             LET lo == r[1]
                 hi == r[2]
                 m  == lo + (hi - lo) \div 2
             IN  IF lo = hi
                 THEN [res |-> Negate(And(Xor(x[lo], y[lo]), y[lo])), diff |-> Xor(x[lo], y[lo])]
                 ELSE LET l == of[<<lo, m>>]
                          h == of[<<m + 1, hi>>]
                      IN  [res  |-> IfThenElse(<<h.diff>>, <<h.res>>, <<l.res>>)[1],
                           diff |-> Or(h.diff, l.diff)]
<1>2. GeRec(x, y) = of
  BY <1>1, Zenon DEF GeRec
<1>3. of = [r \in (1..n) \X (1..n) |-> GeStep(of, x, y, r)]
  <2>1. PICK f : f = [r \in (1..n) \X (1..n) |-> GeStep(f, x, y, r)]
    BY GeExists
  <2> QED BY <2>1, ZenonT(40) DEF GeStep, Middle
<1> HIDE DEF of
<1>4. Ranged(of, x, y, 1, n)
  <2>1. 1 \in 1..n /\ n \in 1..n /\ 1 <= n
    OBVIOUS
  <2> QED BY <1>3, <2>1, GeSolves
<1>5. CompareGe(x, y) = of[<<1, n>>].res
  BY <1>1, <1>2 DEF CompareGe
<1>6. Number(x) \in Nat /\ Number(y) \in Nat
  BY NumberBound
<1> QED BY <1>4, <1>5, <1>6, LowerNumber DEF Ranged, Says

\* The chain of differences says whether the numbers are equal, and so does
\* the comparison of two bits.
LEMMA EqCompares ==
    ASSUME NEW n \in Nat \ {0}, NEW x \in Bits(n), NEW y \in Bits(n)
    PROVE  CompareEq(x, y) \in {0, 1} /\ (CompareEq(x, y) = 1 <=> x = y)
<1>1. Len(x) = n
  BY BitsLen
<1> DEFINE differs[i \in 1..n] == IF i = 1 THEN Xor(x[1], y[1]) ELSE Or(differs[i - 1], Xor(x[i], y[i]))
           Told(i, d) == d \in {0, 1} /\ (d = 1 <=> ~ Same(x, y, 1, i))
<1>2. CompareEq(x, y) = Negate(differs[n])
  BY <1>1, Zenon DEF CompareEq
<1>3. Told(1, Xor(x[1], y[1]))
  <2>1. 1 \in 1..n /\ 1..1 = {1}
    OBVIOUS
  <2>2. x[1] \in {0, 1} /\ y[1] \in {0, 1}
    BY <2>1 DEF Bits
  <2> QED BY <2>1, <2>2, Gates DEF Same
<1>4. ASSUME NEW i \in 1..n, i # 1, NEW d, Told(i - 1, d) PROVE Told(i, Or(d, Xor(x[i], y[i])))
  <2>1. PICK e : e = Xor(x[i], y[i])
    OBVIOUS
  <2>2. x[i] \in {0, 1} /\ y[i] \in {0, 1}
    BY DEF Bits
  <2>3. e \in {0, 1} /\ (e = 1 <=> x[i] # y[i])
    BY <2>1, <2>2, Gates
  <2>4. \A j : j \in 1..i <=> j \in 1..(i - 1) \/ j = i
    BY <1>4
  <2>5. Same(x, y, 1, i) <=> Same(x, y, 1, i - 1) /\ x[i] = y[i]
    BY <2>4 DEF Same
  <2> QED BY <1>4, <2>1, <2>3, <2>5, Gates
<1>5. \E f : f = [i \in 1..n |-> IF i = 1 THEN Xor(x[1], y[1]) ELSE Or(f[i - 1], Xor(x[i], y[i]))]
  <2> DEFINE f == [i \in 1..n |-> IF Same(x, y, 1, i) THEN 0 ELSE 1]
  <2>1. ASSUME NEW i \in 1..n PROVE f[i] = IF i = 1 THEN Xor(x[1], y[1]) ELSE Or(f[i - 1], Xor(x[i], y[i]))
    <3>1. CASE i = 1
      BY <1>3, <3>1
    <3>2. CASE i # 1
      <4>1. i - 1 \in 1..n
        BY <3>2
      <4>2. PICK d : d = f[i - 1]
        OBVIOUS
      <4>3. Told(i - 1, d)
        BY <4>1, <4>2
      <4>4. Told(i, Or(d, Xor(x[i], y[i])))
        <5> HIDE DEF Told, f
        <5> QED BY <1>4, <3>2, <4>3
      <4>5. Or(d, Xor(x[i], y[i])) = f[i]
        BY <4>4
      <4> HIDE DEF f
      <4> QED BY <3>2, <4>2, <4>5
    <3> QED BY <3>1, <3>2
  <2>2. f = [i \in 1..n |-> f[i]]
    OBVIOUS
  <2>3. f = [i \in 1..n |-> IF i = 1 THEN Xor(x[1], y[1]) ELSE Or(f[i - 1], Xor(x[i], y[i]))]
    <3> HIDE DEF f
    <3> QED BY <2>1, <2>2
  <2> HIDE DEF f
  <2> QED BY <2>3
<1>6. differs = [i \in 1..n |-> IF i = 1 THEN Xor(x[1], y[1]) ELSE Or(differs[i - 1], Xor(x[i], y[i]))]
  BY <1>5
<1> HIDE DEF differs
<1>7. Told(n, differs[n])
  <2> DEFINE T == {i \in Nat : i + 1 <= n => Told(i + 1, differs[i + 1])}
  <2>1. 0 \in T
    <3>1. 0 + 1 = 1 /\ 1 \in 1..n
      OBVIOUS
    <3>2. differs[1] = Xor(x[1], y[1])
      BY <1>6, <3>1, Zenon
    <3> HIDE DEF Told
    <3> QED BY <1>3, <3>1, <3>2
  <2>2. ASSUME NEW i \in Nat, i \in T PROVE i + 1 \in T
    <3> SUFFICES ASSUME i + 1 + 1 <= n PROVE Told(i + 1 + 1, differs[i + 1 + 1])
      OBVIOUS
    <3>1. PICK k \in 1..n : k = i + 1 + 1 /\ k # 1 /\ k - 1 = i + 1 /\ i + 1 <= n
      OBVIOUS
    <3>2. differs[k] = Or(differs[k - 1], Xor(x[k], y[k]))
      BY <1>6, <3>1, Zenon
    <3>3. Told(k - 1, differs[k - 1])
      BY <2>2, <3>1
    <3>4. Told(k, differs[k])
      <4> HIDE DEF Told
      <4> QED BY <1>4, <3>1, <3>2, <3>3
    <3> HIDE DEF Told
    <3> QED BY <3>1, <3>4
  <2>3. n - 1 \in T
    <3>1. n - 1 \in Nat
      OBVIOUS
    <3>2. Nat \subseteq T
      <4> HIDE DEF T
      <4> QED BY <2>1, <2>2, NatSet
    <3> HIDE DEF T
    <3> QED BY <3>1, <3>2
  <2>4. (n - 1) + 1 = n
    OBVIOUS
  <2>5. Told(n - 1 + 1, differs[n - 1 + 1])
    <3> HIDE DEF Told
    <3> QED BY <2>3, <2>4
  <2> HIDE DEF Told
  <2> QED BY <2>4, <2>5
<1>8. Same(x, y, 1, n) <=> x = y
  BY DEF Same, Bits
<1> QED BY <1>2, <1>7, <1>8, Gates

LEMMA ComparisonIsEq ==
    ASSUME NEW x \in Bits(2), NEW y \in Bits(2)
    PROVE  Comparison(x, y) = CompareEq(x, y)
<1>1. x[1] \in {0, 1} /\ x[2] \in {0, 1} /\ y[1] \in {0, 1} /\ y[2] \in {0, 1}
  BY DEF Bits
<1>2. x = y <=> x[1] = y[1] /\ x[2] = y[2]
  <2>1. \A i \in 1..2 : i = 1 \/ i = 2
    OBVIOUS
  <2>2. x = [i \in 1..2 |-> x[i]] /\ y = [i \in 1..2 |-> y[i]]
    BY DEF Bits
  <2>3. ASSUME x[1] = y[1], x[2] = y[2] PROVE x = y
    <3>1. \A i \in 1..2 : x[i] = y[i]
      BY <2>1, <2>3
    <3> QED BY <2>2, <3>1
  <2> QED BY <2>3
<1>3. Comparison(x, y) = IF x[1] = y[1] /\ x[2] = y[2] THEN 1 ELSE 0
  BY <1>1 DEF Comparison, Xor, And
<1>4. CompareEq(x, y) \in {0, 1} /\ (CompareEq(x, y) = 1 <=> x = y)
  <2>1. 2 \in Nat \ {0}
    OBVIOUS
  <2> QED BY <2>1, EqCompares
<1> QED BY <1>2, <1>3, <1>4

\* A sum's next bit and carry, when what is added is a carry.
\* What is missing to m, and a bit that says there is nothing to miss.
Complement(m, a) == IF a = 0 THEN 0 ELSE m - a
Flags(c, a) == c \in {0, 1} /\ (c = 1 <=> a = 0)

LEMMA NegatedStep ==
    ASSUME NEW m \in Nat, NEW a \in Nat, a < m, NEW b \in {0, 1}, NEW c, Flags(c, a)
    PROVE  /\ Complement(2 * m, a + b * m) = Complement(m, a) + Xor(Negate(b), c) * m
           /\ Flags(And(c, Negate(b)), a + b * m)
<1> USE DEF Flags
<1>1. Xor(Negate(b), c) = (IF b = 0 THEN 1 - c ELSE c) /\ And(c, Negate(b)) = (IF b = 0 THEN c ELSE 0)
  BY DEF Xor, And, Negate
<1>2. CASE b = 0
  BY <1>1, <1>2 DEF Complement
<1>3. CASE b = 1
  BY <1>1, <1>3 DEF Complement
<1> QED BY <1>2, <1>3

\* Negated is the two's complement, however far its carry goes.
LEMMA NegatedIs ==
    ASSUME NEW k \in Nat, NEW p \in Nat
    PROVE  /\ Negated(p, k) \in Bits(k)
           /\ Number(Negated(p, k)) = Complement(2^k, p % 2^k)
<1> DEFINE b == Binary(p, k)
           inv == [i \in 1..k |-> Negate(b[i])]
           carry[i \in 1..k] == IF i = 1 THEN 1 ELSE And(carry[i - 1], inv[i - 1])
<1>4. Negated(p, k) = [i \in 1..k |-> Xor(inv[i], carry[i])]
  BY Zenon DEF Negated
<1>1. b \in Bits(k)
  BY BinaryBits
<1>2. PICK f : Sums(f, b, k) /\ Number(b) = f[k]
  BY <1>1, NumberSums
<1>3. f[k] = p % 2^k
  BY <1>2, NumberBinary
<1> HIDE DEF b
<1>5. ASSUME NEW i \in 1..k
      PROVE  /\ inv[i] = Negate(b[i]) /\ b[i] \in {0, 1} /\ f[i - 1] \in Nat /\ f[i] \in Nat
             /\ f[i] = f[i - 1] + b[i] * 2^(i - 1)
             /\ 2^(i - 1) \in Nat /\ f[i - 1] < 2^(i - 1) /\ 2^i = 2 * 2^(i - 1)
  <2>1. PICK j \in 0..k : j = i - 1 /\ i = j + 1 /\ i \in 0..k /\ j \in Nat
    OBVIOUS
  <2>2. f[j] \in Nat /\ f[i] \in Nat /\ f[j] < 2^j
    BY <1>1, <1>2, <2>1, SumsBound
  <2>3. 2^j \in Nat /\ 2^i = 2 * 2^j
    BY <2>1, PowerNat, PowerDoubles
  <2>4. b[i] \in {0, 1} /\ inv[i] = Negate(b[i])
    BY <1>1 DEF Bits
  <2>5. f[i] = f[i - 1] + b[i] * 2^(i - 1)
    BY <1>2 DEF Sums
  <2> QED BY <2>1, <2>2, <2>3, <2>4, <2>5
<1> HIDE DEF inv
<1> DEFINE Carried(i, c) == Flags(c, f[i - 1])
<1>6. ASSUME NEW i \in 1..k, NEW c, Carried(i, c)
      PROVE  /\ Complement(2^i, f[i]) = Complement(2^(i - 1), f[i - 1]) + Xor(inv[i], c) * 2^(i - 1)
             /\ Carried(i + 1, And(c, inv[i]))
  <2>1. PICK m \in Nat : m = 2^(i - 1)
    BY <1>5
  <2>2. PICK a \in Nat : a = f[i - 1] /\ a < m
    BY <1>5, <2>1
  <2>3. PICK d \in {0, 1} : d = b[i]
    BY <1>5
  <2>4. /\ Complement(2 * m, a + d * m) = Complement(m, a) + Xor(Negate(d), c) * m
        /\ Flags(And(c, Negate(d)), a + d * m)
    <3>1. Flags(c, a)
      BY <1>6, <2>1, <2>2
    <3> QED BY <2>2, <3>1, NegatedStep
  <2>5. f[i] = a + d * m /\ 2^i = 2 * m /\ inv[i] = Negate(d)
    BY <1>5, <2>1, <2>2, <2>3
  <2>7. (i + 1) - 1 = i
    OBVIOUS
  <2>8. Complement(2^i, f[i]) = Complement(2^(i - 1), f[i - 1]) + Xor(inv[i], c) * 2^(i - 1)
    BY <2>1, <2>2, <2>4, <2>5
  <2>9. Carried(i + 1, And(c, inv[i]))
    BY <2>4, <2>5, <2>7
  <2> QED BY <2>8, <2>9
<1>7. Carried(1, 1)
  BY <1>2 DEF Sums, Flags
<1>8. \E g : g = [i \in 1..k |-> IF i = 1 THEN 1 ELSE And(g[i - 1], inv[i - 1])]
  <2> DEFINE g == [i \in 1..k |-> IF f[i - 1] = 0 THEN 1 ELSE 0]
  <2>1. ASSUME NEW i \in 1..k PROVE g[i] = IF i = 1 THEN 1 ELSE And(g[i - 1], inv[i - 1])
    <3>1. CASE i = 1
      BY <1>7, <3>1 DEF Flags
    <3>2. CASE i # 1
      <4>1. PICK j \in 1..k : j = i - 1 /\ i = j + 1
        BY <3>2
      <4>2. PICK c : c = g[j]
        OBVIOUS
      <4>3. Carried(j, c)
        BY <4>2 DEF Flags
      <4>4. Carried(i, And(c, inv[j]))
        <5> HIDE DEF Carried, g
        <5> QED BY <1>6, <4>1, <4>3
      <4>5. And(c, inv[j]) = g[i]
        BY <4>4 DEF Flags
      <4> HIDE DEF g
      <4> QED BY <3>2, <4>1, <4>2, <4>5
    <3> QED BY <3>1, <3>2
  <2>2. g = [i \in 1..k |-> g[i]]
    OBVIOUS
  <2>3. g = [i \in 1..k |-> IF i = 1 THEN 1 ELSE And(g[i - 1], inv[i - 1])]
    <3> HIDE DEF g
    <3> QED BY <2>1, <2>2
  <2> HIDE DEF g
  <2> QED BY <2>3
<1>9. carry = [i \in 1..k |-> IF i = 1 THEN 1 ELSE And(carry[i - 1], inv[i - 1])]
  BY <1>8
<1> HIDE DEF carry
<1> DEFINE h == [i \in 0..k |-> Complement(2^i, f[i])]
<1>10. ASSUME NEW i \in 0..k PROVE h[i] \in Nat
  <2>1. f[i] \in Nat /\ f[i] < 2^i /\ 2^i \in Nat
    BY <1>1, <1>2, SumsBound, PowerNat
  <2> QED BY <2>1 DEF Complement
<1>11. \A i \in 1..k : Carried(i, carry[i])
  <2> DEFINE T == {i \in Nat : i + 1 <= k => Carried(i + 1, carry[i + 1])}
  <2>1. 0 \in T
    <3> SUFFICES ASSUME 1 <= k PROVE Carried(1, carry[1])
      OBVIOUS
    <3>1. 1 \in 1..k
      OBVIOUS
    <3>2. carry[1] = 1
      BY <1>9, <3>1, Zenon
    <3> HIDE DEF Carried
    <3> QED BY <1>7, <3>2
  <2>2. ASSUME NEW i \in Nat, i \in T PROVE i + 1 \in T
    <3> SUFFICES ASSUME i + 1 + 1 <= k PROVE Carried(i + 1 + 1, carry[i + 1 + 1])
      OBVIOUS
    <3>1. PICK l \in 1..k, j \in 1..k : l = i + 1 + 1 /\ j = i + 1 /\ l # 1 /\ l - 1 = j /\ l = j + 1 /\ j <= k /\ i + 1 <= k
      OBVIOUS
    <3>2. carry[l] = And(carry[j], inv[j])
      BY <1>9, <3>1, Zenon
    <3>3. Carried(j, carry[j])
      BY <2>2, <3>1
    <3>5. Carried(l, carry[l])
      <4> HIDE DEF Carried
      <4> QED BY <1>6, <3>1, <3>2, <3>3
    <3> HIDE DEF Carried
    <3> QED BY <3>1, <3>5
  <2>3. Nat \subseteq T
    <3> HIDE DEF T
    <3> QED BY <2>1, <2>2, NatSet
  <2> SUFFICES ASSUME NEW i \in 1..k PROVE Carried(i, carry[i])
    OBVIOUS
  <2>4. PICK j \in Nat : i = j + 1 /\ j + 1 <= k
    <3>1. i - 1 \in Nat /\ i = (i - 1) + 1 /\ (i - 1) + 1 <= k
      OBVIOUS
    <3> QED BY <3>1
  <2>5. j \in T
    <3> HIDE DEF T
    <3> QED BY <2>3, <2>4
  <2> HIDE DEF Carried
  <2> QED BY <2>4, <2>5
<1> DEFINE neg == [i \in 1..k |-> Xor(inv[i], carry[i])]
<1>12. ASSUME NEW i \in 1..k PROVE neg[i] \in {0, 1} /\ h[i] = h[i - 1] + neg[i] * 2^(i - 1)
  <2>1. PICK c : c = carry[i] /\ Carried(i, c)
    <3> HIDE DEF Carried
    <3> QED BY <1>11
  <2>2. i \in 0..k /\ i - 1 \in 0..k
    OBVIOUS
  <2>3. PICK v \in Nat : v = h[i - 1]
    <3> HIDE DEF h
    <3> QED BY <1>10, <2>2
  <2>4. v = Complement(2^(i - 1), f[i - 1])
    BY <2>2, <2>3
  <2>5. Complement(2^i, f[i]) = v + Xor(inv[i], c) * 2^(i - 1)
    <3> HIDE DEF Carried, h, neg
    <3> QED BY <1>6, <2>1, <2>4
  <2>6. h[i] = Complement(2^i, f[i])
    BY <2>2
  <2>7. Xor(inv[i], c) \in {0, 1}
    <3>1. c \in {0, 1} /\ inv[i] = Negate(b[i]) /\ b[i] \in {0, 1}
      BY <1>5, <2>1 DEF Flags
    <3>2. Negate(b[i]) \in {0, 1}
      BY <3>1, Gates
    <3> QED BY <3>1, <3>2, Gates
  <2>8. neg[i] = Xor(inv[i], c)
    BY <2>1
  <2> HIDE DEF h, neg
  <2> QED BY <2>3, <2>5, <2>6, <2>7, <2>8
<1>13. neg \in Bits(k)
  <2>1. \A i \in 1..k : neg[i] \in {0, 1}
    <3> HIDE DEF neg
    <3> QED BY <1>12
  <2> QED BY <2>1 DEF Bits
<1>14. Sums(h, neg, k)
  <2>1. h[0] = 0
    BY <1>2 DEF Sums, Complement
  <2> HIDE DEF h, neg
  <2> QED BY <1>12, <2>1 DEF Sums
<1>15. Number(neg) = h[k]
  <2> HIDE DEF h, neg
  <2> QED BY <1>13, <1>14, NumberIs
<1>16. h[k] = Complement(2^k, f[k])
  OBVIOUS
<1> HIDE DEF h
<1>17. Negated(p, k) = neg
  BY <1>4
<1> HIDE DEF neg
<1> QED BY <1>17, <1>3, <1>13, <1>15, <1>16

\* The prefix adder looks back far enough.
LEMMA Log2Is ==
    ASSUME NEW n \in Nat \ {0}
    PROVE  Log2(n) \in Nat /\ n <= 2^Log2(n)
<1> DEFINE Reaches(k) == 2^k >= n /\ (k > 0 => 2^(k - 1) < n)
<1>1. \E k \in 0..n : Reaches(k)
  <2>1. CASE n = 1
    <3>1. 0 \in 0..n /\ 2^0 >= n /\ ~ (0 > 0)
      BY <2>1, PowerZero
    <3> QED BY <3>1
  <2>2. CASE n # 1
    <3> DEFINE T == {k \in Nat : 2^k < n}
    <3>1. 0 \in T
      BY <2>2, PowerZero
    <3>2. n \notin T
      <4>1. n \in Nat /\ n < 2^n /\ 2^n \in Nat
        BY PowerNat, PowerAbove
      <4> QED BY <4>1
    <3>3. PICK k \in Nat : k \in T /\ k + 1 \notin T
      <4> HIDE DEF T
      <4>1. ASSUME \A k \in Nat : k \in T => k + 1 \in T PROVE FALSE
        BY <3>1, <3>2, <4>1, NatSet
      <4> QED BY <4>1
    <3>4. k < 2^k /\ 2^k < n /\ 2^k \in Nat /\ 2^(k + 1) \in Nat /\ k + 1 \in Nat
      BY <3>3, PowerAbove, PowerNat
    <3>5. 2^(k + 1) >= n
      BY <3>3, <3>4
    <3>6. PICK l \in 0..n : l = k + 1 /\ l - 1 = k
      BY <3>4
    <3> QED BY <3>4, <3>5, <3>6
  <2> QED BY <2>1, <2>2
<1>2. Log2(n) \in 0..n /\ Reaches(Log2(n))
  BY <1>1, Zenon DEF Log2
<1>3. 2^Log2(n) \in Nat
  BY <1>2, PowerNat
<1> QED BY <1>2, <1>3

\* A carry that a range of bits makes, and one it passes on.
Generated(x, y, lo, hi) == \E j \in lo..hi : x[j] = 1 /\ y[j] = 1 /\ \A l \in (j + 1)..hi : x[l] # y[l]
Passed(x, y, lo, hi) == \A l \in lo..hi : x[l] # y[l]

LEMMA CarrySplit ==
    ASSUME NEW x, NEW y, NEW lo \in Int, NEW hi \in Int, NEW k \in Int, lo <= k + 1, k <= hi
    PROVE  /\ Generated(x, y, lo, hi) <=> Generated(x, y, k + 1, hi) \/ (Generated(x, y, lo, k) /\ Passed(x, y, k + 1, hi))
           /\ Passed(x, y, lo, hi) <=> Passed(x, y, lo, k) /\ Passed(x, y, k + 1, hi)
<1>1. \A j : j \in lo..hi <=> j \in lo..k \/ j \in (k + 1)..hi
  OBVIOUS
<1>2. ASSUME Generated(x, y, lo, hi), ~ Generated(x, y, k + 1, hi) PROVE Generated(x, y, lo, k) /\ Passed(x, y, k + 1, hi)
  <2>1. PICK j \in lo..hi : x[j] = 1 /\ y[j] = 1 /\ \A l \in (j + 1)..hi : x[l] # y[l]
    BY <1>2 DEF Generated
  <2>2. j \in lo..k
    BY <1>1, <1>2, <2>1 DEF Generated
  <2>3. (k + 1)..hi \subseteq (j + 1)..hi /\ (j + 1)..k \subseteq (j + 1)..hi
    BY <2>2
  <2> QED BY <2>1, <2>2, <2>3 DEF Generated, Passed
<1>3. ASSUME Generated(x, y, k + 1, hi) PROVE Generated(x, y, lo, hi)
  BY <1>1, <1>3 DEF Generated
<1>4. ASSUME Generated(x, y, lo, k), Passed(x, y, k + 1, hi) PROVE Generated(x, y, lo, hi)
  <2>1. PICK j \in lo..k : x[j] = 1 /\ y[j] = 1 /\ \A l \in (j + 1)..k : x[l] # y[l]
    BY <1>4 DEF Generated
  <2>2. j \in lo..hi /\ \A l \in (j + 1)..hi : l \in (j + 1)..k \/ l \in (k + 1)..hi
    OBVIOUS
  <2> QED BY <1>4, <2>1, <2>2 DEF Generated, Passed
<1>5. Passed(x, y, lo, hi) <=> Passed(x, y, lo, k) /\ Passed(x, y, k + 1, hi)
  BY <1>1 DEF Passed
<1> QED BY <1>2, <1>3, <1>4, <1>5

LEMMA CarryOne ==
    ASSUME NEW x, NEW y, NEW i \in Int
    PROVE  /\ Generated(x, y, i, i) <=> x[i] = 1 /\ y[i] = 1
           /\ Passed(x, y, i, i) <=> x[i] # y[i]
<1>1. i..i = {i} /\ (i + 1)..i = {}
  OBVIOUS
<1> QED BY <1>1 DEF Generated, Passed

\* What the prefix adder knows when it has looked d bits back.
Lowest(i, d) == IF i <= d THEN 1 ELSE i - d + 1
Wave(w, x, y, n, d) ==
    /\ w.g \in Bits(n) /\ w.p \in Bits(n)
    /\ \A i \in 1..n : /\ w.g[i] = 1 <=> Generated(x, y, Lowest(i, d), i)
                       /\ i >= d => (w.p[i] = 1 <=> Passed(x, y, i - d + 1, i))

\* It starts with the bits themselves, and each step doubles how far it sees.
LEMMA WaveStart ==
    ASSUME NEW n \in Nat, NEW x \in Bits(n), NEW y \in Bits(n), NEW w,
           w = [g |-> [i \in 1..n |-> And(x[i], y[i])], p |-> [i \in 1..n |-> Xor(x[i], y[i])]]
    PROVE  Wave(w, x, y, n, 1)
<1>1. ASSUME NEW i \in 1..n
      PROVE  /\ w.g[i] \in {0, 1} /\ (w.g[i] = 1 <=> x[i] = 1 /\ y[i] = 1)
             /\ w.p[i] \in {0, 1} /\ (w.p[i] = 1 <=> x[i] # y[i])
             /\ Lowest(i, 1) = i /\ i - 1 + 1 = i
             /\ Generated(x, y, i, i) <=> x[i] = 1 /\ y[i] = 1
             /\ Passed(x, y, i, i) <=> x[i] # y[i]
  <2>1. x[i] \in {0, 1} /\ y[i] \in {0, 1}
    BY DEF Bits
  <2>2. w.g[i] = And(x[i], y[i]) /\ w.p[i] = Xor(x[i], y[i])
    OBVIOUS
  <2>3. Lowest(i, 1) = i /\ i - 1 + 1 = i
    BY DEF Lowest
  <2>4. i \in Int
    OBVIOUS
  <2>5. And(x[i], y[i]) \in {0, 1} /\ Xor(x[i], y[i]) \in {0, 1} /\ (And(x[i], y[i]) = 1 <=> x[i] = 1 /\ y[i] = 1)
        /\ (Xor(x[i], y[i]) = 1 <=> x[i] # y[i])
    BY <2>1, Gates
  <2>6. (Generated(x, y, i, i) <=> x[i] = 1 /\ y[i] = 1) /\ (Passed(x, y, i, i) <=> x[i] # y[i])
    BY <2>4, CarryOne
  <2> QED BY <2>2, <2>3, <2>5, <2>6, Zenon
<1>2. w.g \in Bits(n) /\ w.p \in Bits(n)
  <2>1. w.g = [i \in 1..n |-> w.g[i]] /\ w.p = [i \in 1..n |-> w.p[i]]
    OBVIOUS
  <2> QED BY <1>1, <2>1 DEF Bits
<1>3. \A i \in 1..n : /\ w.g[i] = 1 <=> Generated(x, y, Lowest(i, 1), i)
                      /\ w.p[i] = 1 <=> Passed(x, y, i - 1 + 1, i)
  BY <1>1, Zenon
<1> QED BY <1>2, <1>3, Zenon DEF Wave

LEMMA ReachBits ==
    ASSUME NEW n \in Nat, NEW d \in Nat, NEW w, w.g \in Bits(n), w.p \in Bits(n)
    PROVE  /\ Reach(w, d).g \in Bits(n) /\ Reach(w, d).p \in Bits(n)
           /\ Reach(w, d) \in [g : Bits(n), p : Bits(n)]
           /\ \A i \in 1..n : /\ Reach(w, d).g[i] = (IF i <= d THEN w.g[i] ELSE Or(w.g[i], And(w.g[i - d], w.p[i])))
                              /\ Reach(w, d).p[i] = (IF i <= d THEN w.p[i] ELSE And(w.p[i - d], w.p[i]))
<1>1. DOMAIN w.g = 1..n /\ DOMAIN w.p = 1..n
  BY DEF Bits
<1>2. Reach(w, d) = [g |-> [i \in 1..n |-> IF i <= d THEN w.g[i] ELSE Or(w.g[i], And(w.g[i - d], w.p[i]))],
                     p |-> [i \in 1..n |-> IF i <= d THEN w.p[i] ELSE And(w.p[i - d], w.p[i])]]
  BY <1>1, Zenon DEF Reach
<1>3. ASSUME NEW i \in 1..n
      PROVE  /\ (IF i <= d THEN w.g[i] ELSE Or(w.g[i], And(w.g[i - d], w.p[i]))) \in {0, 1}
             /\ (IF i <= d THEN w.p[i] ELSE And(w.p[i - d], w.p[i])) \in {0, 1}
  <2>1. w.g[i] \in {0, 1} /\ w.p[i] \in {0, 1}
    BY DEF Bits
  <2>2. CASE i <= d
    BY <2>1, <2>2
  <2>3. CASE ~ (i <= d)
    <3>1. i - d \in 1..n
      BY <2>3
    <3>2. w.g[i - d] \in {0, 1} /\ w.p[i - d] \in {0, 1}
      BY <3>1 DEF Bits
    <3>3. And(w.g[i - d], w.p[i]) \in {0, 1} /\ And(w.p[i - d], w.p[i]) \in {0, 1}
      BY <2>1, <3>2, Gates
    <3>4. Or(w.g[i], And(w.g[i - d], w.p[i])) \in {0, 1}
      BY <2>1, <3>3, Gates
    <3> QED BY <2>3, <3>3, <3>4
  <2> QED BY <2>2, <2>3
<1> DEFINE gg == [i \in 1..n |-> IF i <= d THEN w.g[i] ELSE Or(w.g[i], And(w.g[i - d], w.p[i]))]
           pp == [i \in 1..n |-> IF i <= d THEN w.p[i] ELSE And(w.p[i - d], w.p[i])]
<1>4. gg \in Bits(n) /\ pp \in Bits(n)
  BY <1>3 DEF Bits
<1>5. Reach(w, d).g = gg /\ Reach(w, d).p = pp /\ Reach(w, d) = [g |-> gg, p |-> pp]
  <2>1. Reach(w, d) = [g |-> gg, p |-> pp]
    BY <1>2, Zenon
  <2> HIDE DEF gg, pp
  <2> QED BY <2>1
<1>6. [g |-> gg, p |-> pp] \in [g : Bits(n), p : Bits(n)]
  <2> HIDE DEF gg, pp
  <2> QED BY <1>4
<1>7. \A i \in 1..n : /\ gg[i] = (IF i <= d THEN w.g[i] ELSE Or(w.g[i], And(w.g[i - d], w.p[i])))
                      /\ pp[i] = (IF i <= d THEN w.p[i] ELSE And(w.p[i - d], w.p[i]))
  BY Zenon
<1> HIDE DEF gg, pp
<1> QED BY <1>4, <1>5, <1>6, <1>7, Zenon

LEMMA WaveStep ==
    ASSUME NEW n \in Nat, NEW x \in Bits(n), NEW y \in Bits(n), NEW d \in Nat \ {0}, NEW w, Wave(w, x, y, n, d)
    PROVE  Wave(Reach(w, d), x, y, n, 2 * d)
<1>1. w.g \in Bits(n) /\ w.p \in Bits(n)
  BY DEF Wave
<1>2. PICK v : v = Reach(w, d)
  OBVIOUS
<1>3. v.g \in Bits(n) /\ v.p \in Bits(n)
      /\ \A i \in 1..n : /\ v.g[i] = (IF i <= d THEN w.g[i] ELSE Or(w.g[i], And(w.g[i - d], w.p[i])))
                         /\ v.p[i] = (IF i <= d THEN w.p[i] ELSE And(w.p[i - d], w.p[i]))
  BY <1>1, <1>2, ReachBits
<1>4. ASSUME NEW i \in 1..n
      PROVE  /\ v.g[i] = 1 <=> Generated(x, y, Lowest(i, 2 * d), i)
             /\ i >= 2 * d => (v.p[i] = 1 <=> Passed(x, y, i - 2 * d + 1, i))
  <2>1. w.g[i] = 1 <=> Generated(x, y, Lowest(i, d), i)
    BY DEF Wave
  <2>2. CASE i <= d
    <3>1. Lowest(i, 2 * d) = Lowest(i, d) /\ ~ (i >= 2 * d)
      BY <2>2 DEF Lowest
    <3>2. v.g[i] = w.g[i]
      BY <1>3, <2>2
    <3> QED BY <2>1, <3>1, <3>2
  <2>3. CASE ~ (i <= d)
    <3>1. PICK k \in 1..n : k = i - d /\ k + 1 = i - d + 1 /\ k <= i
      BY <2>3
    <3>2. v.g[i] = Or(w.g[i], And(w.g[k], w.p[i])) /\ v.p[i] = And(w.p[k], w.p[i])
      BY <1>3, <2>3, <3>1
    <3>3. PICK lo \in 1..n : lo = Lowest(i, 2 * d) /\ lo = Lowest(k, d) /\ lo <= k
      <4>1. CASE i <= 2 * d
        <5>1. 1 \in 1..n /\ Lowest(i, 2 * d) = 1 /\ Lowest(k, d) = 1 /\ 1 <= k
          BY <3>1, <4>1 DEF Lowest
        <5> QED BY <5>1
      <4>2. CASE ~ (i <= 2 * d)
        <5>1. k - d + 1 \in 1..n /\ Lowest(i, 2 * d) = k - d + 1 /\ Lowest(k, d) = k - d + 1 /\ k - d + 1 <= k
          BY <3>1, <4>2 DEF Lowest
        <5> QED BY <5>1
      <4> QED BY <4>1, <4>2
    <3>4. (w.g[i] = 1 <=> Generated(x, y, k + 1, i)) /\ (w.g[k] = 1 <=> Generated(x, y, lo, k))
          /\ (w.p[i] = 1 <=> Passed(x, y, k + 1, i))
      <4>1. Lowest(i, d) = k + 1 /\ i >= d
        BY <2>3, <3>1 DEF Lowest
      <4>2. w.g[k] = 1 <=> Generated(x, y, Lowest(k, d), k)
        BY <3>1 DEF Wave
      <4>3. w.p[i] = 1 <=> Passed(x, y, i - d + 1, i)
        BY <4>1 DEF Wave
      <4> QED BY <2>1, <3>1, <3>3, <4>1, <4>2, <4>3
    <3>5. w.g[i] \in {0, 1} /\ w.g[k] \in {0, 1} /\ w.p[i] \in {0, 1} /\ w.p[k] \in {0, 1}
      BY <1>1, <3>1 DEF Bits
    <3>6. PICK c \in {0, 1} : c = And(w.g[k], w.p[i]) /\ (c = 1 <=> w.g[k] = 1 /\ w.p[i] = 1)
      BY <3>5, Gates
    <3>7. v.g[i] = 1 <=> w.g[i] = 1 \/ (w.g[k] = 1 /\ w.p[i] = 1)
      BY <3>2, <3>5, <3>6, Gates
    <3>8. v.p[i] = 1 <=> w.p[k] = 1 /\ w.p[i] = 1
      BY <3>2, <3>5, Gates
    <3>9. Generated(x, y, lo, i) <=> Generated(x, y, k + 1, i) \/ (Generated(x, y, lo, k) /\ Passed(x, y, k + 1, i))
      <4>1. lo \in Int /\ i \in Int /\ k \in Int /\ lo <= k + 1 /\ k <= i
        BY <3>1, <3>3
      <4> QED BY <4>1, CarrySplit
    <3>10. v.g[i] = 1 <=> Generated(x, y, Lowest(i, 2 * d), i)
      BY <3>3, <3>4, <3>7, <3>9, Zenon
    <3>11. ASSUME i >= 2 * d PROVE v.p[i] = 1 <=> Passed(x, y, i - 2 * d + 1, i)
      <4>1. PICK b \in Int : b = i - 2 * d + 1 /\ b = k - d + 1 /\ b <= k + 1 /\ k >= d /\ k \in Int /\ i \in Int
        BY <3>1, <3>11
      <4>2. w.p[k] = 1 <=> Passed(x, y, k - d + 1, k)
        BY <3>1, <4>1 DEF Wave
      <4>3. Passed(x, y, b, i) <=> Passed(x, y, b, k) /\ Passed(x, y, k + 1, i)
        BY <3>1, <4>1, CarrySplit
      <4> QED BY <3>4, <3>8, <4>1, <4>2, <4>3
    <3> QED BY <3>10, <3>11
  <2> QED BY <2>2, <2>3
<1> QED BY <1>2, <1>3, <1>4, Zenon DEF Wave

\* One bit of a sum and its carry.
Carries(d, a, b, c) == d = 1 <=> (a = 1 /\ b = 1) \/ (c = 1 /\ a # b)

LEMMA FullAdder ==
    ASSUME NEW a \in {0, 1}, NEW b \in {0, 1}, NEW c \in {0, 1}, NEW d \in {0, 1}, Carries(d, a, b, c)
    PROVE  Xor(Xor(a, b), c) \in {0, 1} /\ Xor(Xor(a, b), c) + 2 * d = a + b + c
  BY DEF Xor, Carries

\* The carries g the adder ends with are those of the whole numbers below.
Adder(g, x, y, n) ==
    /\ g \in Bits(n) /\ \A i \in 1..n : g[i] = 1 <=> Generated(x, y, 1, i)
    /\ Ppa(x, y) = [i \in 1..n |-> Xor(Xor(x[i], y[i]), IF i = 1 THEN 0 ELSE g[i - 1])] \o <<g[n]>>

LEMMA SeqBits == ASSUME NEW z \in Seq({0, 1}) PROVE z \in Bits(Len(z))
  BY DEF Bits

\* One bit above a number.
LEMMA OneMore ==
    ASSUME NEW n \in Nat, NEW s \in Bits(n), NEW b \in {0, 1}
    PROVE  s \o <<b>> \in Bits(n + 1) /\ (s \o <<b>>)[n + 1] = b /\ \A i \in 1..n : s[i] = (s \o <<b>>)[i]
<1>0. PICK z : z = s \o <<b>>
  OBVIOUS
<1>1. s \in Seq({0, 1}) /\ Len(s) = n
  BY BitsLen
<1>2. <<b>> \in Seq({0, 1}) /\ Len(<<b>>) = 1 /\ <<b>>[1] = b
  OBVIOUS
<1>3. z \in Seq({0, 1}) /\ Len(z) = n + 1
  BY <1>0, <1>1, <1>2, ConcatProperties
<1>4. z[n + 1] = b /\ \A i \in 1..n : s[i] = z[i]
  BY <1>0, <1>1, <1>2
<1>5. z \in Bits(n + 1)
  BY <1>3, SeqBits
<1> QED BY <1>0, <1>4, <1>5

LEMMA WaveLast ==
    ASSUME NEW x, Len(x) \in Nat \ {0}, x \in Bits(Len(x)), NEW y \in Bits(Len(x))
    PROVE  \E g : Adder(g, x, y, Len(x))
<1> DEFINE n == Len(x)
           pc == [i \in 1..n |-> Xor(x[i], y[i])]
           w0 == [g |-> [i \in 1..n |-> And(x[i], y[i])], p |-> pc]
           after[k \in 0..Log2(n)] == IF k = 0 THEN w0 ELSE Reach(after[k - 1], 2^(k - 1))
           g == after[Log2(n)].g
           V == [g : Bits(n), p : Bits(n)]
<1>3. Ppa(x, y) = [i \in 1..n |-> Xor(pc[i], IF i = 1 THEN 0 ELSE g[i - 1])] \o <<g[n]>>
  BY Zenon DEF Ppa
<1>1. n \in Nat \ {0} /\ x \in Bits(n) /\ y \in Bits(n)
  OBVIOUS
<1> HIDE DEF n
<1>2. PICK L \in Nat : L = Log2(n) /\ n <= 2^L
  BY <1>1, Log2Is
<1>4. Wave(w0, x, y, n, 1)
  <2>1. PICK w : w = [g |-> [i \in 1..n |-> And(x[i], y[i])], p |-> [i \in 1..n |-> Xor(x[i], y[i])]]
    OBVIOUS
  <2>2. Wave(w, x, y, n, 1)
    BY <1>1, <2>1, WaveStart
  <2> QED BY <2>1, <2>2, Zenon
<1>5. w0 \in V
  <2>1. w0.g \in Bits(n) /\ w0.p \in Bits(n) /\ w0 = [g |-> w0.g, p |-> w0.p]
    BY <1>4, Zenon DEF Wave
  <2> HIDE DEF w0
  <2> QED BY <2>1
<1> HIDE DEF w0
<1>6. \E f : f = [k \in 0..L |-> IF k = 0 THEN w0 ELSE Reach(f[k - 1], 2^(k - 1))]
  <2> DEFINE s == [q \in (1..L) \X V |-> Reach(q[2], 2^(q[1] - 1))]
  <2>1. s \in [(1..L) \X V -> V]
    <3>1. ASSUME NEW k \in 1..L, NEW w \in V PROVE Reach(w, 2^(k - 1)) \in V
      <4>1. k - 1 \in Nat
        OBVIOUS
      <4>2. PICK d \in Nat : d = 2^(k - 1)
        BY <4>1, PowerNat
      <4>3. w.g \in Bits(n) /\ w.p \in Bits(n)
        OBVIOUS
      <4> QED BY <1>1, <4>2, <4>3, ReachBits
    <3> HIDE DEF V
    <3> QED BY <3>1
  <2>2. PICK f : Recurs(f, w0, s, L, V)
    <3> HIDE DEF s, V
    <3> QED BY <1>5, <2>1, Recursion
  <2>3. f \in [0..L -> V] /\ f[0] = w0
    BY <2>2, Zenon DEF Recurs
  <2>4. ASSUME NEW k \in 1..L PROVE f[k] = Reach(f[k - 1], 2^(k - 1))
    <3>1. f[k] = s[<<k, f[k - 1]>>]
      BY <2>2, Zenon DEF Recurs
    <3>2. k - 1 \in 0..L
      OBVIOUS
    <3>3. PICK v \in V : v = f[k - 1]
      <4> HIDE DEF V
      <4> QED BY <2>3, <3>2
    <3>4. s[<<k, v>>] = Reach(v, 2^(k - 1))
      <4> HIDE DEF V
      <4> QED OBVIOUS
    <3> QED BY <3>1, <3>3, <3>4
  <2>5. \A k \in 0..L : k # 0 => k \in 1..L
    OBVIOUS
  <2>6. f = [k \in 0..L |-> IF k = 0 THEN w0 ELSE Reach(f[k - 1], 2^(k - 1))]
    <3> HIDE DEF s, V
    <3> QED BY <2>3, <2>4, <2>5
  <2> QED BY <2>6
<1>7. after = [k \in 0..L |-> IF k = 0 THEN w0 ELSE Reach(after[k - 1], 2^(k - 1))]
  <2>1. PICK f : f = [k \in 0..Log2(n) |-> IF k = 0 THEN w0 ELSE Reach(f[k - 1], 2^(k - 1))]
    BY <1>2, <1>6, Zenon
  <2>2. after = [k \in 0..Log2(n) |-> IF k = 0 THEN w0 ELSE Reach(after[k - 1], 2^(k - 1))]
    BY <2>1, Zenon
  <2> HIDE DEF after
  <2> QED BY <1>2, <2>2, Zenon
<1>8. PICK a : a = after /\ a[L].g = g
  <2>1. after = after /\ after[L].g = after[Log2(n)].g
    BY <1>2, Zenon
  <2> QED BY <2>1, Zenon
<1> HIDE DEF after
<1>9. Wave(a[L], x, y, n, 2^L)
  <2> DEFINE T == {k \in Nat : Wave(a[k], x, y, n, 2^k)}
  <2>1. 0 \in T
    <3>1. a[0] = w0
      <4>1. 0 \in 0..L
        OBVIOUS
      <4> QED BY <1>7, <1>8, <4>1, Zenon
    <3>2. 2^0 = 1
      BY PowerZero
    <3> QED BY <1>4, <3>1, <3>2
  <2>2. ASSUME NEW k \in 0..(L - 1), k \in T PROVE k + 1 \in T
    <3>1. PICK l \in 0..L : l = k + 1 /\ l # 0 /\ l - 1 = k /\ k \in Nat /\ l \in Nat
      OBVIOUS
    <3>2. a[l] = Reach(a[k], 2^k)
      <4>1. a[l] = Reach(a[l - 1], 2^(l - 1))
        BY <1>7, <1>8, <3>1, Zenon
      <4> QED BY <3>1, <4>1, Zenon
    <3>3. PICK d \in Nat \ {0} : d = 2^k /\ 2^l = 2 * d
      BY <3>1, PowerNat, PowerAbove, PowerDoubles
    <3>4. PICK w : w = a[k] /\ Wave(w, x, y, n, d)
      BY <2>2, <3>3
    <3>5. Wave(Reach(w, d), x, y, n, 2 * d)
      BY <1>1, <3>4, WaveStep
    <3> QED BY <3>1, <3>2, <3>3, <3>4, <3>5
  <2>3. \A k \in 0..L : k \in T
    <3> HIDE DEF T
    <3> QED BY <2>1, <2>2, Climb
  <2>4. L \in 0..L
    OBVIOUS
  <2> QED BY <2>3, <2>4
<1>10. g \in Bits(n)
  BY <1>8, <1>9, Zenon DEF Wave
<1>11. ASSUME NEW i \in 1..n PROVE g[i] = 1 <=> Generated(x, y, 1, i)
  <2>1. a[L].g[i] = 1 <=> Generated(x, y, Lowest(i, 2^L), i)
    BY <1>9, Zenon DEF Wave
  <2>2. Lowest(i, 2^L) = 1
    <3>1. PICK d \in Nat : d = 2^L
      BY PowerNat
    <3>2. i <= d
      BY <1>1, <1>2, <3>1
    <3> QED BY <3>1, <3>2 DEF Lowest
  <2> QED BY <1>8, <2>1, <2>2, Zenon
<1>12. ASSUME NEW i \in 1..n PROVE pc[i] = Xor(x[i], y[i])
  OBVIOUS
<1> HIDE DEF g, pc
<1>13. [i \in 1..n |-> Xor(pc[i], IF i = 1 THEN 0 ELSE g[i - 1])] = [i \in 1..n |-> Xor(Xor(x[i], y[i]), IF i = 1 THEN 0 ELSE g[i - 1])]
  BY <1>12
<1>14. Adder(g, x, y, n)
  BY <1>3, <1>10, <1>11, <1>13, Zenon DEF Adder
<1> QED BY <1>14, Zenon DEF n

\* The adder adds.
LEMMA PpaAdds ==
    ASSUME NEW n \in Nat \ {0}, NEW x \in Bits(n), NEW y \in Bits(n)
    PROVE  Ppa(x, y) \in Bits(n + 1) /\ Number(Ppa(x, y)) = Number(x) + Number(y)
<1>1. PICK g \in Bits(n) :
             /\ \A i \in 1..n : g[i] = 1 <=> Generated(x, y, 1, i)
             /\ Ppa(x, y) = [i \in 1..n |-> Xor(Xor(x[i], y[i]), IF i = 1 THEN 0 ELSE g[i - 1])] \o <<g[n]>>
  <2>1. Len(x) = n
    BY BitsLen
  <2>2. \E g : Adder(g, x, y, n)
    BY <2>1, WaveLast
  <2> QED BY <2>2, Zenon DEF Adder
<1>2. PICK u : Sums(u, x, n) /\ Number(x) = u[n]
  BY NumberSums
<1>3. PICK v : Sums(v, y, n) /\ Number(y) = v[n]
  BY NumberSums
<1> DEFINE c(i) == IF i = 0 THEN 0 ELSE g[i]
           s == [i \in 1..n |-> Xor(Xor(x[i], y[i]), IF i = 1 THEN 0 ELSE g[i - 1])]
           h == [i \in 0..n |-> u[i] + v[i] - c(i) * 2^i]
<1>4. ASSUME NEW i \in 0..n
      PROVE  c(i) \in {0, 1} /\ u[i] \in Nat /\ v[i] \in Nat /\ 2^i \in Nat
  <2>1. u[i] \in Nat /\ v[i] \in Nat
    BY <1>2, <1>3, SumsBound
  <2>2. c(i) \in {0, 1}
    BY DEF Bits
  <2>3. i \in Nat
    OBVIOUS
  <2> HIDE DEF c
  <2> QED BY <2>1, <2>2, <2>3, PowerNat
<1>5. ASSUME NEW i \in 1..n PROVE s[i] \in {0, 1} /\ h[i] = h[i - 1] + s[i] * 2^(i - 1)
  <2>1. PICK j \in 0..n : j = i - 1 /\ i = j + 1 /\ i \in 0..n /\ j \in Nat
    OBVIOUS
  <2>2. PICK p \in {0, 1}, q \in {0, 1} : p = x[i] /\ q = y[i]
    BY DEF Bits
  <2>3. PICK e \in {0, 1}, f \in {0, 1} : e = c(j) /\ f = c(i)
    <3>1. c(j) \in {0, 1} /\ c(i) \in {0, 1}
      BY <1>4, <2>1
    <3> HIDE DEF c
    <3> QED BY <3>1
  <2>4. s[i] = Xor(Xor(p, q), e)
    BY <2>1, <2>2, <2>3
  <2>5. PICK m \in Nat : m = 2^j /\ 2^i = 2 * m
    BY <2>1, PowerNat, PowerDoubles
  <2>6. PICK a \in Nat, b \in Nat : a = u[j] /\ b = v[j]
    BY <1>4, <2>1
  <2>7. u[i] = a + p * m /\ v[i] = b + q * m
    <3>1. u[i] = u[j] + x[i] * 2^j /\ v[i] = v[j] + y[i] * 2^j
      BY <1>2, <1>3, <2>1 DEF Sums
    <3> QED BY <2>2, <2>5, <2>6, <3>1
  <2>8. h[j] = a + b - e * m
    BY <2>1, <2>3, <2>5, <2>6
  <2>9. h[i] = (a + p * m) + (b + q * m) - f * (2 * m)
    BY <2>1, <2>3, <2>5, <2>7
  <2>10. Carries(f, p, q, e)
    <3>1. f = 1 <=> Generated(x, y, 1, i)
      BY <1>1, <2>1, <2>3
    <3>2. e = 1 <=> Generated(x, y, 1, j)
      <4>1. CASE j = 0
        <5>1. ~ Generated(x, y, 1, 0)
          BY DEF Generated
        <5> QED BY <2>3, <4>1, <5>1
      <4>2. CASE j # 0
        <5>1. j \in 1..n
          BY <4>2
        <5> QED BY <1>1, <2>3, <4>2, <5>1
      <4> QED BY <4>1, <4>2
    <3>3. Generated(x, y, 1, i) <=> Generated(x, y, i, i) \/ (Generated(x, y, 1, j) /\ Passed(x, y, i, i))
      <4>1. 1 \in Int /\ i \in Int /\ j \in Int /\ 1 <= j + 1 /\ j <= i
        BY <2>1
      <4> QED BY <2>1, <4>1, CarrySplit
    <3>4. (Generated(x, y, i, i) <=> p = 1 /\ q = 1) /\ (Passed(x, y, i, i) <=> p # q)
      <4>1. i \in Int
        OBVIOUS
      <4> QED BY <2>2, <4>1, CarryOne
    <3> QED BY <3>1, <3>2, <3>3, <3>4, Zenon DEF Carries
  <2> HIDE DEF h, s, c
  <2>11. PICK w \in Int : w = h[j] /\ w = a + b - e * m
    BY <2>8
  <2>12. PICK t \in {0, 1} : t = s[i] /\ t + 2 * f = p + q + e
    BY <2>4, <2>10, FullAdder
  <2>13. (a + p * m) + (b + q * m) - f * (2 * m) = w + t * m
    <3>1. CASE f = 0 /\ e = 0
      <4>1. (p = 0 /\ q = 0 /\ t = 0) \/ (p = 1 /\ q = 0 /\ t = 1) \/ (p = 0 /\ q = 1 /\ t = 1)
        BY <2>12, <3>1
      <4> QED BY <2>11, <3>1, <4>1
    <3>2. CASE f = 0 /\ e = 1
      <4>1. p = 0 /\ q = 0 /\ t = 1
        BY <2>12, <3>2
      <4> QED BY <2>11, <3>2, <4>1
    <3>3. CASE f = 1 /\ e = 0
      <4>1. p = 1 /\ q = 1 /\ t = 0
        BY <2>12, <3>3
      <4> QED BY <2>11, <3>3, <4>1
    <3>4. CASE f = 1 /\ e = 1
      <4>1. (p = 1 /\ q = 1 /\ t = 1) \/ (p = 1 /\ q = 0 /\ t = 0) \/ (p = 0 /\ q = 1 /\ t = 0)
        BY <2>12, <3>4
      <4> QED BY <2>11, <3>4, <4>1
    <3> QED BY <3>1, <3>2, <3>3, <3>4
  <2> QED BY <2>1, <2>5, <2>9, <2>11, <2>12, <2>13
<1>6. s \in Bits(n)
  <2>1. \A i \in 1..n : s[i] \in {0, 1}
    <3> HIDE DEF s, h
    <3> QED BY <1>5
  <2> QED BY <2>1 DEF Bits
<1>7. Sums(h, s, n)
  <2>1. h[0] = 0
    <3>1. 0 \in 0..n /\ u[0] = 0 /\ v[0] = 0 /\ c(0) = 0 /\ 2^0 = 1
      BY <1>2, <1>3, PowerZero DEF Sums
    <3> HIDE DEF c
    <3> QED BY <3>1
  <2> HIDE DEF h, s
  <2> QED BY <1>5, <2>1 DEF Sums
<1>8. Number(s) = u[n] + v[n] - g[n] * 2^n
  <2>1. Number(s) = h[n]
    <3> HIDE DEF h, s
    <3> QED BY <1>6, <1>7, NumberIs
  <2>2. n \in 0..n /\ n # 0
    OBVIOUS
  <2>3. h[n] = u[n] + v[n] - g[n] * 2^n
    BY <2>2
  <2> HIDE DEF h, s
  <2> QED BY <2>1, <2>3
<1>9. Ppa(x, y) = s \o <<g[n]>>
  BY <1>1, Zenon
<1> HIDE DEF s
<1>10. g[n] \in {0, 1}
  <2>1. n \in 1..n
    OBVIOUS
  <2> QED BY <2>1 DEF Bits
<1>11. PICK z : z = s \o <<g[n]>> /\ z \in Bits(n + 1) /\ z[n + 1] = g[n] /\ \A i \in 1..n : s[i] = z[i]
  <2>1. PICK b \in {0, 1} : b = g[n]
    BY <1>10
  <2>2. PICK z : z = s \o <<b>>
    OBVIOUS
  <2>3. z \in Bits(n + 1) /\ z[n + 1] = b /\ \A i \in 1..n : s[i] = z[i]
    BY <1>6, <2>2, OneMore, ZenonT(40)
  <2> QED BY <2>1, <2>2, <2>3
<1>12. Number(z) = Number(s) + z[n + 1] * 2^n
  BY <1>6, <1>11, NumberSplit
<1>13. u[n] \in Nat /\ v[n] \in Nat /\ 2^n \in Nat
  <2>1. n \in 0..n
    OBVIOUS
  <2> QED BY <1>4, <2>1
<1>14. Number(z) = u[n] + v[n]
  <2>1. PICK m \in Nat : m = 2^n
    BY <1>13
  <2>2. PICK b \in {0, 1} : b = g[n]
    BY <1>10
  <2>3. Number(z) = (u[n] + v[n] - b * m) + b * m
    BY <1>8, <1>11, <1>12, <2>1, <2>2
  <2> QED BY <1>13, <2>1, <2>2, <2>3
<1> QED BY <1>2, <1>3, <1>9, <1>11, <1>14

\* The bits SubSeq leaves and the one it drops.
LEMMA FirstBits ==
    ASSUME NEW n \in Nat, NEW z \in Bits(n + 1)
    PROVE  /\ SubSeq(z, 1, n) \in Bits(n) /\ z[n + 1] \in {0, 1}
           /\ Number(z) = Number(SubSeq(z, 1, n)) + z[n + 1] * 2^n
<1>1. z \in Seq({0, 1}) /\ Len(z) = n + 1
  <2>1. n + 1 \in Nat
    OBVIOUS
  <2> QED BY <2>1, BitsLen
<1>2. PICK y : y = SubSeq(z, 1, n)
  OBVIOUS
<1>3. y \in Seq({0, 1}) /\ Len(y) = n /\ \A i \in 1..n : y[i] = z[i]
  BY <1>1, <1>2, SubSeqProperties
<1>4. y \in Bits(n)
  BY <1>3, SeqBits
<1>5. z[n + 1] \in {0, 1}
  BY DEF Bits
<1>6. Number(z) = Number(y) + z[n + 1] * 2^n
  BY <1>3, <1>4, NumberSplit
<1> QED BY <1>2, <1>4, <1>5, <1>6

\* Subtraction wraps round below zero.
LEMMA Subtracts ==
    ASSUME NEW n \in Nat \ {0}, NEW x \in Bits(n), NEW p \in Nat, p < 2^n
    PROVE  /\ SubtractOrder(x, p) \in Bits(n)
           /\ Number(SubtractOrder(x, p)) = IF Number(x) >= p THEN Number(x) - p ELSE Number(x) - p + 2^n
<1>1. Len(x) = n
  BY BitsLen
<1>2. PICK m \in Nat : m = 2^n
  BY PowerNat
<1>3. PICK y : y = Negated(p, n)
  OBVIOUS
<1>4. y \in Bits(n) /\ Number(y) = Complement(m, p % m)
  BY <1>2, <1>3, NegatedIs
<1>5. p % m = p
  BY <1>2
<1>6. PICK z : z = Ppa(x, y)
  OBVIOUS
<1>7. z \in Bits(n + 1) /\ Number(z) = Number(x) + Number(y)
  BY <1>4, <1>6, PpaAdds
<1>8. PICK s : s = SubSeq(z, 1, n)
  OBVIOUS
<1>9. s \in Bits(n) /\ z[n + 1] \in {0, 1} /\ Number(z) = Number(s) + z[n + 1] * m
  BY <1>2, <1>7, <1>8, FirstBits
<1>10. SubtractOrder(x, p) = s
  BY <1>1, <1>3, <1>6, <1>8 DEF SubtractOrder
<1>11. PICK X \in Nat : X = Number(x) /\ X < m
  BY <1>2, NumberBound
<1>12. PICK S \in Nat : S = Number(s) /\ S < m
  BY <1>2, <1>9, NumberBound
<1>13. PICK Y \in Nat : Y = Number(y) /\ Y = (IF p = 0 THEN 0 ELSE m - p)
  BY <1>2, <1>4, <1>5 DEF Complement
<1>14. X + Y = S \/ X + Y = S + m
  BY <1>7, <1>9, <1>11, <1>12, <1>13
<1>15. S = IF X >= p THEN X - p ELSE X - p + m
  BY <1>2, <1>11, <1>12, <1>13, <1>14
<1> QED BY <1>2, <1>9, <1>10, <1>11, <1>12, <1>15

\* An addition with one subtraction of the modulus.
LEMMA ModAdds ==
    ASSUME NEW n \in Nat \ {0}, NEW x \in Bits(n), NEW y \in Bits(n), NEW p \in Nat \ {0}, p < 2^n
    PROVE  /\ ModAdd(x, y, p) \in Bits(n)
           /\ Number(x) + Number(y) < p => Number(ModAdd(x, y, p)) = Number(x) + Number(y)
           /\ Number(x) + Number(y) >= p /\ Number(x) + Number(y) - p < 2^n
                => Number(ModAdd(x, y, p)) = Number(x) + Number(y) - p
<1>1. Len(x) = n
  BY BitsLen
<1>2. PICK m \in Nat : m = 2^n /\ 2^(n + 1) = 2 * m
  BY PowerNat, PowerDoubles
<1>3. PICK add : add = Ppa(x, y)
  OBVIOUS
<1>4. add \in Bits(n + 1) /\ Number(add) = Number(x) + Number(y)
  BY <1>3, PpaAdds
<1>5. PICK N \in Nat \ {0} : N = n + 1
  OBVIOUS
<1>6. add \in Bits(N) /\ p < 2^N
  BY <1>2, <1>4, <1>5
<1>7. PICK q : q = Binary(p, N)
  OBVIOUS
<1>8. q \in Bits(N) /\ Number(q) = p
  BY <1>6, <1>7, BinaryExact
<1>9. PICK ge : ge = CompareGe(add, q)
  OBVIOUS
<1>10. ge \in {0, 1} /\ (ge = 1 <=> Number(add) >= p)
  BY <1>6, <1>8, <1>9, GeCompares
<1>11. PICK sub : sub = SubtractOrder(add, p)
  OBVIOUS
<1>12. sub \in Bits(N) /\ Number(sub) = IF Number(add) >= p THEN Number(add) - p ELSE Number(add) - p + 2^N
  BY <1>6, <1>11, Subtracts
<1>13. PICK u, v : u = SubSeq(sub, 1, n) /\ v = SubSeq(add, 1, n)
  OBVIOUS
<1>14. u \in Bits(n) /\ sub[n + 1] \in {0, 1} /\ Number(sub) = Number(u) + sub[n + 1] * m
  <2>1. sub \in Bits(n + 1)
    BY <1>5, <1>12
  <2> QED BY <1>2, <1>13, <2>1, FirstBits
<1>15. v \in Bits(n) /\ add[n + 1] \in {0, 1} /\ Number(add) = Number(v) + add[n + 1] * m
  BY <1>2, <1>4, <1>13, FirstBits
<1>16. ModAdd(x, y, p) = IfThenElse([i \in 1..n |-> ge], u, v)
  BY <1>1, <1>3, <1>5, <1>7, <1>9, <1>11, <1>13, Zenon DEF ModAdd
<1>0. PICK t : t = ModAdd(x, y, p)
  OBVIOUS
<1>17. t = IF ge = 1 THEN u ELSE v
  <2>1. IfThenElse([i \in 1..n |-> ge], u, v) = IF ge = 1 THEN u ELSE v
    <3>1. n \in Nat
      OBVIOUS
    <3>2. (ge = 1 => IfThenElse(Spread(ge, n), u, v) = u) /\ (ge # 1 => IfThenElse(Spread(ge, n), u, v) = v)
      BY <3>1, <1>10, <1>14, <1>15, IfThenElseIs
    <3> QED BY <3>2 DEF Spread
  <2> QED BY <1>0, <1>16, <2>1, Zenon
<1>22. PICK X \in Nat, Y \in Nat : X = Number(x) /\ Y = Number(y)
  BY NumberBound
<1>18. PICK A \in Nat : A = Number(add) /\ A = X + Y
  BY <1>4, <1>22
<1>19. PICK U \in Nat, V \in Nat : U = Number(u) /\ V = Number(v) /\ U < m /\ V < m
  BY <1>2, <1>14, <1>15, NumberBound
<1>20. CASE A >= p
  <2>1. t = u
    BY <1>10, <1>17, <1>18, <1>20
  <2>2. A - p = U \/ A - p = U + m
    BY <1>12, <1>14, <1>18, <1>19, <1>20
  <2>3. A - p < m => U = A - p
    BY <1>2, <1>19, <2>2
  <2>4. t \in Bits(n) /\ Number(t) = U
    BY <1>14, <1>19, <2>1
  <2> QED BY <1>0, <1>2, <1>18, <1>20, <1>22, <2>3, <2>4
<1>21. CASE ~ (A >= p)
  <2>1. t = v
    BY <1>10, <1>17, <1>18, <1>21
  <2>2. A = V \/ A = V + m
    BY <1>15, <1>18, <1>19
  <2>3. V = A
    BY <1>2, <1>19, <1>21, <2>2
  <2>4. t \in Bits(n) /\ Number(t) = A
    BY <1>15, <1>19, <2>1, <2>3
  <2> QED BY <1>0, <1>18, <1>21, <1>22, <2>4
<1> QED BY <1>20, <1>21

\* Of two numbers below the modulus the sum is reduced, and if only one is, it is congruent.
LEMMA ModAddReduced ==
    ASSUME NEW n \in Nat \ {0}, NEW x \in Bits(n), NEW y \in Bits(n), NEW p \in Nat \ {0}, p < 2^n
    PROVE  /\ Number(x) < p /\ Number(y) < p
                => Number(ModAdd(x, y, p)) = (Number(x) + Number(y)) % p /\ Number(ModAdd(x, y, p)) < p
           /\ Number(x) < p \/ Number(y) < p
                => Number(ModAdd(x, y, p)) % p = (Number(x) + Number(y)) % p
<1>1. PICK m \in Nat : m = 2^n
  BY PowerNat
<1>2. PICK X \in Nat, Y \in Nat : X = Number(x) /\ Y = Number(y) /\ X < m /\ Y < m
  BY <1>1, NumberBound
<1>3. PICK R : R = Number(ModAdd(x, y, p))
  OBVIOUS
<1>4. (X + Y < p => R = X + Y) /\ (X + Y >= p /\ X + Y - p < m => R = X + Y - p)
  BY <1>1, <1>2, <1>3, ModAdds, ZenonT(40)
<1>5. PICK S \in Nat : S = X + Y
  OBVIOUS
<1>6. (S < p => S % p = S) /\ (S >= p => (S - p) % p = S % p /\ S - p \in Nat) /\ S % p \in 0..(p - 1)
  BY Remainder
<1>7. ASSUME X < p \/ Y < p PROVE R % p = S % p
  <2>1. CASE S < p
    BY <1>4, <1>5, <2>1
  <2>2. CASE S >= p
    <3>1. R = S - p
      BY <1>1, <1>2, <1>4, <1>5, <1>7, <2>2
    <3> QED BY <1>6, <2>2, <3>1
  <2> QED BY <2>1, <2>2
<1>8. ASSUME X < p, Y < p PROVE R = S % p /\ R < p
  <2>1. CASE S < p
    BY <1>4, <1>5, <1>6, <2>1
  <2>2. CASE S >= p
    <3>1. R = S - p /\ S - p < p /\ S - p \in Nat
      BY <1>1, <1>2, <1>4, <1>5, <1>8, <2>2
    <3>2. (S - p) % p = S - p
      BY <3>1, Remainder
    <3> QED BY <1>6, <2>2, <3>1, <3>2
  <2> QED BY <2>1, <2>2
<1> QED BY <1>2, <1>3, <1>5, <1>7, <1>8

-----------------------------------------------------------------------------
(* The sums of a key.                                                      *)

\* The running sums of a sequence of parts.
SumOf(s) == LET upto[i \in 0..Len(s)] == IF i = 0 THEN 0 ELSE upto[i - 1] + s[i]
            IN  upto[Len(s)]
RunsUp(f, s, n) == f[0] = 0 /\ \A i \in 1..n : f[i] = f[i - 1] + s[i]

LEMMA SumOfRuns ==
    ASSUME NEW s \in Seq(Nat)
    PROVE  \E f : RunsUp(f, s, Len(s)) /\ SumOf(s) = f[Len(s)]
<1> DEFINE n == Len(s)
           upto[i \in 0..n] == IF i = 0 THEN 0 ELSE upto[i - 1] + s[i]
<1>1. SumOf(s) = upto[n]
  BY Zenon DEF SumOf
<1>2. n \in Nat /\ \A i \in 1..n : s[i] \in Nat
  BY ElementOfSeq
<1> HIDE DEF n
<1>3. \E f : f = [i \in 0..n |-> IF i = 0 THEN 0 ELSE f[i - 1] + s[i]]
  <2> DEFINE r == [q \in (1..n) \X Nat |-> q[2] + s[q[1]]]
  <2>1. r \in [(1..n) \X Nat -> Nat]
    BY <1>2
  <2>2. PICK f : Recurs(f, 0, r, n, Nat)
    <3>1. 0 \in Nat
      OBVIOUS
    <3> HIDE DEF r
    <3> QED BY <1>2, <2>1, <3>1, Recursion
  <2>3. f \in [0..n -> Nat] /\ f[0] = 0
    BY <2>2 DEF Recurs
  <2>4. ASSUME NEW i \in 1..n PROVE f[i] = f[i - 1] + s[i]
    <3>1. f[i] = r[<<i, f[i - 1]>>]
      BY <2>2 DEF Recurs
    <3>2. f[i - 1] \in Nat
      BY <1>2, <2>3
    <3>3. r[<<i, f[i - 1]>>] = f[i - 1] + s[i]
      BY <3>2
    <3> QED BY <3>1, <3>3
  <2>5. \A i \in 0..n : i # 0 => i \in 1..n
    OBVIOUS
  <2>6. f = [i \in 0..n |-> IF i = 0 THEN 0 ELSE f[i - 1] + s[i]]
    <3> HIDE DEF r
    <3> QED BY <2>3, <2>4, <2>5
  <2> QED BY <2>6
<1>4. upto = [i \in 0..n |-> IF i = 0 THEN 0 ELSE upto[i - 1] + s[i]]
  BY <1>3
<1> HIDE DEF upto
<1>5. upto[0] = 0
  <2>1. 0 \in 0..n
    BY <1>2
  <2> QED BY <1>4, <2>1, Zenon
<1>6. ASSUME NEW i \in 1..n PROVE upto[i] = upto[i - 1] + s[i]
  <2>1. i \in 0..n /\ i # 0
    BY <1>2
  <2> QED BY <1>4, <2>1, Zenon
<1>7. RunsUp(upto, s, n)
  BY <1>5, <1>6 DEF RunsUp
<1> QED BY <1>1, <1>7, Zenon DEF n

\* Running sums are determined by what they sum.
LEMMA RunsAgree ==
    ASSUME NEW s \in Seq(Nat), NEW n \in Nat, n <= Len(s), NEW f, RunsUp(f, s, n), NEW g, RunsUp(g, s, n)
    PROVE  f[n] = g[n] /\ f[n] \in Nat
<1> DEFINE T == {i \in Nat : f[i] = g[i] /\ f[i] \in Nat}
<1>1. 0 \in T
  BY DEF RunsUp
<1>2. ASSUME NEW i \in 0..(n - 1), i \in T PROVE i + 1 \in T
  <2>1. i + 1 \in 1..n /\ (i + 1) - 1 = i /\ i + 1 \in Nat /\ i + 1 \in 1..Len(s)
    OBVIOUS
  <2>2. f[i + 1] = f[i] + s[i + 1] /\ g[i + 1] = g[i] + s[i + 1]
    BY <2>1 DEF RunsUp
  <2>3. s[i + 1] \in Nat
    BY <2>1, ElementOfSeq
  <2> QED BY <1>2, <2>1, <2>2, <2>3
<1>3. \A i \in 0..n : i \in T
  <2> HIDE DEF T
  <2> QED BY <1>1, <1>2, Climb
<1>4. n \in 0..n
  OBVIOUS
<1> QED BY <1>3, <1>4

LEMMA SumOfIs ==
    ASSUME NEW s \in Seq(Nat), NEW f, RunsUp(f, s, Len(s))
    PROVE  SumOf(s) = f[Len(s)] /\ SumOf(s) \in Nat
<1>1. PICK n \in Nat : n = Len(s) /\ n <= Len(s)
  OBVIOUS
<1>2. PICK g : RunsUp(g, s, n) /\ SumOf(s) = g[n]
  BY <1>1, SumOfRuns
<1> QED BY <1>1, <1>2, RunsAgree

LEMMA SumOfAppend ==
    ASSUME NEW s \in Seq(Nat), NEW y \in Nat
    PROVE  SumOf(Append(s, y)) = SumOf(s) + y /\ SumOf(s) \in Nat
<1>1. PICK t \in Seq(Nat) : t = Append(s, y)
  BY AppendProperties
<1>2. PICK n \in Nat : n = Len(s)
  OBVIOUS
<1>3. Len(t) = n + 1 /\ t[n + 1] = y /\ \A i \in 1..n : t[i] = s[i]
  BY <1>1, <1>2
<1>4. PICK f : RunsUp(f, t, n + 1) /\ SumOf(t) = f[n + 1]
  BY <1>3, SumOfRuns
<1>5. RunsUp(f, s, n)
  <2>1. \A i \in 1..n : i \in 1..(n + 1)
    OBVIOUS
  <2> QED BY <1>3, <1>4, <2>1, Zenon DEF RunsUp
<1>6. SumOf(s) = f[n] /\ SumOf(s) \in Nat
  BY <1>2, <1>5, SumOfIs
<1>7. f[n + 1] = f[n] + y
  <2>1. n + 1 \in 1..(n + 1) /\ (n + 1) - 1 = n
    OBVIOUS
  <2> QED BY <1>3, <1>4, <2>1 DEF RunsUp
<1> QED BY <1>1, <1>4, <1>6, <1>7

LEMMA SumOfEmpty == SumOf(<<>>) = 0
<1>1. PICK f : RunsUp(f, <<>>, Len(<<>>)) /\ SumOf(<<>>) = f[Len(<<>>)]
  <2>1. <<>> \in Seq(Nat)
    OBVIOUS
  <2> QED BY <2>1, SumOfRuns
<1>2. Len(<<>>) = 0
  OBVIOUS
<1> QED BY <1>1, <1>2 DEF RunsUp

LEMMA SumOfThree ==
    ASSUME NEW s \in Seq(Nat), Len(s) = 3
    PROVE  SumOf(s) = s[1] + s[2] + s[3]
<1>1. PICK f : RunsUp(f, s, 3) /\ SumOf(s) = f[3]
  BY SumOfRuns
<1>2. 1 \in 1..3 /\ 2 \in 1..3 /\ 3 \in 1..3 /\ 1 - 1 = 0 /\ 2 - 1 = 1 /\ 3 - 1 = 2
  OBVIOUS
<1>3. f[0] = 0 /\ f[1] = f[0] + s[1] /\ f[2] = f[1] + s[2] /\ f[3] = f[2] + s[3]
  <2>1. \A i \in 1..3 : f[i] = f[i - 1] + s[i]
    BY <1>1 DEF RunsUp
  <2>2. f[1] = f[1 - 1] + s[1] /\ f[2] = f[2 - 1] + s[2] /\ f[3] = f[3 - 1] + s[3]
    BY <1>2, <2>1
  <2> QED BY <1>1, <1>2, <2>2 DEF RunsUp
<1>4. s[1] \in Nat /\ s[2] \in Nat /\ s[3] \in Nat
  <2>1. 1 \in 1..Len(s) /\ 2 \in 1..Len(s) /\ 3 \in 1..Len(s)
    OBVIOUS
  <2> QED BY <2>1, ElementOfSeq
<1> QED BY <1>1, <1>3, <1>4

\* Which parts are not below the modulus decides what is known of the key.
Reduced(s, p) == \A i \in DOMAIN s : s[i] < p
OneLarge(s, p) == \E k \in DOMAIN s : s[k] >= p /\ \A i \in DOMAIN s : s[i] >= p => i = k
Sound(k, s, p) ==
    /\ Reduced(s, p) => Number(k) = SumOf(s) % p
    /\ OneLarge(s, p) => Number(k) % p = SumOf(s) % p

SumInv ==
    /\ size \in Nat \ {0}
    /\ prime \in Nat \ {0} /\ prime < 2^size
    /\ key \in Bits(size)
    /\ parts \in Seq(Nat) /\ \A i \in DOMAIN parts : parts[i] < 2^size
    /\ Sound(key, parts, prime)

\* The invariant holds at first and after every part.
LEMMA SumStart == SumInit => SumInv
<1> SUFFICES ASSUME SumInit PROVE SumInv
  OBVIOUS
<1>1. size \in Nat \ {0}
  BY SumBounds DEF SumInit
<1>2. PICK m \in Nat : m = 2^size
  BY <1>1, PowerNat
<1>3. prime \in Nat \ {0} /\ prime < m
  BY <1>2 DEF SumInit
<1>4. key = Binary(0, size) /\ key \in Bits(size) /\ Number(key) = 0
  <2>1. size \in Nat /\ 0 \in Nat /\ 0 < 2^size
    BY <1>1, <1>2, <1>3
  <2> QED BY <2>1, BinaryExact DEF SumInit
<1>5. parts = <<>> /\ parts \in Seq(Nat) /\ DOMAIN parts = {}
  BY DEF SumInit
<1>6. 0 % prime = 0
  BY <1>3
<1>7. Sound(key, parts, prime)
  BY <1>4, <1>5, <1>6, SumOfEmpty DEF Sound, OneLarge
<1> QED BY <1>1, <1>2, <1>3, <1>4, <1>5, <1>7, Zenon DEF SumInv

LEMMA SumStep == SumInv /\ [SumNext]_sumvars => SumInv'
<1> SUFFICES ASSUME SumInv, [SumNext]_sumvars PROVE SumInv'
  OBVIOUS
<1>1. ASSUME UNCHANGED sumvars PROVE SumInv'
  BY <1>1 DEF sumvars, SumInv, Sound, Reduced, OneLarge
<1>2. ASSUME AddPart PROVE SumInv'
  <2>1. PICK y \in Numbers : key' = ModAdd(key, Binary(y, size), prime) /\ parts' = Append(parts, y)
    BY <1>2 DEF AddPart
  <2>2. size' = size /\ prime' = prime
    BY <1>2 DEF AddPart
  <2>3. PICK m \in Nat : m = 2^size
    BY PowerNat DEF SumInv
  <2>4. y \in Nat /\ y < m
    BY <2>3 DEF Numbers
  <2>5. PICK b \in Bits(size) : b = Binary(y, size) /\ Number(b) = y
    BY <2>3, <2>4, BinaryExact DEF SumInv
  <2>6. PICK r : r = ModAdd(key, b, prime)
    OBVIOUS
  <2>7. PICK K \in Nat : K = Number(key)
    BY NumberBound DEF SumInv
  <2>8. PICK p \in Nat \ {0} : p = prime /\ p < m
    BY <2>3 DEF SumInv
  <2>9. r \in Bits(size)
    BY <2>5, <2>6, ModAdds DEF SumInv
  <2>10. /\ K < p /\ y < p => Number(r) = (K + y) % p
         /\ K < p \/ y < p => Number(r) % p = (K + y) % p
    BY <2>5, <2>6, <2>7, <2>8, ModAddReduced DEF SumInv
  <2>11. PICK T \in Nat : T = SumOf(parts) /\ SumOf(Append(parts, y)) = T + y
    BY <2>4, SumOfAppend DEF SumInv
  <2>12. PICK s : s = Append(parts, y)
    OBVIOUS
  <2>13. PICK n \in Nat : n = Len(parts)
    BY DEF SumInv
  <2>14. /\ s \in Seq(Nat) /\ DOMAIN s = 1..(n + 1) /\ DOMAIN parts = 1..n /\ s[n + 1] = y
         /\ \A i \in 1..n : s[i] = parts[i]
    <3>1. parts \in Seq(Nat)
      BY DEF SumInv
    <3> QED BY <2>4, <2>12, <2>13, <3>1, AppendProperties
  <2>15. \A i : i \in 1..(n + 1) <=> i \in 1..n \/ i = n + 1
    OBVIOUS
  <2>16. \A i \in DOMAIN s : s[i] < m
    BY <2>3, <2>4, <2>14, <2>15 DEF SumInv
  <2>17. \A i \in 1..n : parts[i] \in Nat
    <3>1. parts \in Seq(Nat)
      BY DEF SumInv
    <3> QED BY <2>13, <3>1, ElementOfSeq
  <2>18. K = T % p => (K + y) % p = (T + y) % p /\ K < p
    <3>1. ASSUME K = T % p PROVE (K + y) % p = (T + y) % p /\ K < p
      <4>1. K \in 0..(p - 1)
        BY <3>1
      <4>2. K % p = T % p
        BY <3>1, <4>1
      <4>3. Congruent(K + y, T + y, p)
        <5>1. Congruent(K, T, p)
          BY <4>2 DEF Congruent
        <5> QED BY <2>4, <5>1, SumRemainder
      <4> QED BY <4>1, <4>3 DEF Congruent
    <3> QED BY <3>1
  <2>19. K % p = T % p => (K + y) % p = (T + y) % p
    <3>1. Congruent(K, T, p) => Congruent(K + y, T + y, p)
      BY <2>4, SumRemainder
    <3> QED BY <3>1 DEF Congruent
  <2>20. (Reduced(parts, p) => K = T % p) /\ (OneLarge(parts, p) => K % p = T % p)
    BY <2>7, <2>8, <2>11 DEF SumInv, Sound
  <2>21. Sound(r, s, p)
    <3>1. ASSUME Reduced(s, p) PROVE Number(r) = (T + y) % p
      <4>1. Reduced(parts, p) /\ y < p
        BY <2>14, <2>15, <3>1 DEF Reduced
      <4> QED BY <2>10, <2>18, <2>20, <4>1
    <3>2. ASSUME OneLarge(s, p) PROVE Number(r) % p = (T + y) % p
      <4>1. PICK k \in 1..(n + 1) : s[k] >= p /\ \A i \in 1..(n + 1) : s[i] >= p => i = k
        BY <2>14, <3>2 DEF OneLarge
      <4>2. CASE k = n + 1
        <5>1. ASSUME NEW i \in 1..n PROVE parts[i] < p
          <6>1. ~ (s[i] >= p)
            BY <2>15, <4>1, <4>2
          <6> QED BY <2>14, <2>17, <6>1
        <5>2. Reduced(parts, p)
          BY <2>14, <5>1 DEF Reduced
        <5> QED BY <2>10, <2>18, <2>20, <5>2
      <4>3. CASE k # n + 1
        <5>1. k \in 1..n
          BY <2>15, <4>3
        <5>2. y < p
          <6>1. ~ (s[n + 1] >= p)
            BY <2>15, <4>1, <4>3
          <6> QED BY <2>4, <2>14, <6>1
        <5>3. \A i \in 1..n : parts[i] >= p => i = k
          BY <2>14, <2>15, <4>1
        <5>4. parts[k] >= p
          BY <2>14, <4>1, <5>1
        <5>5. OneLarge(parts, p)
          BY <2>14, <5>1, <5>3, <5>4 DEF OneLarge
        <5> QED BY <2>10, <2>19, <2>20, <5>2, <5>5
      <4> QED BY <4>2, <4>3
    <3> QED BY <2>11, <2>12, <3>1, <3>2 DEF Sound
  <2>22. size' \in Nat \ {0} /\ prime' \in Nat \ {0} /\ prime' < 2^size' /\ key' \in Bits(size')
    BY <2>1, <2>2, <2>5, <2>6, <2>9 DEF SumInv
  <2>23. parts' = s /\ key' = r
    BY <2>1, <2>5, <2>6, <2>12
  <2> QED BY <2>2, <2>3, <2>8, <2>14, <2>16, <2>21, <2>22, <2>23, Zenon DEF SumInv
<1>3. Added => UNCHANGED sumvars
  BY DEF Added
<1> QED BY <1>1, <1>2, <1>3 DEF SumNext

\* And it is what SumExact says.
LEMMA SumExactHolds == SumInv => SumExact
<1> SUFFICES ASSUME SumInv PROVE SumExact
  OBVIOUS
<1> DEFINE u == {i \in DOMAIN parts : parts[i] >= prime}
<1>1. Total = SumOf(parts)
  BY Zenon DEF Total, SumOf
<1>2. \A i \in DOMAIN parts : parts[i] \in Nat /\ prime \in Nat
  BY DEF SumInv
<1>3. u = {} => Reduced(parts, prime)
  BY <1>2 DEF Reduced
<1>4. Cardinality(u) = 1 => OneLarge(parts, prime)
  <2>1. IsFiniteSet(u)
    <3>1. parts \in Seq(Nat)
      BY DEF SumInv
    <3>2. PICK n \in Nat : DOMAIN parts = 1..n
      BY <3>1
    <3>3. IsFiniteSet(1..n) /\ u \subseteq 1..n
      BY <3>2, FS_Interval
    <3> HIDE DEF u
    <3> QED BY <3>3, FS_Subset
  <2>2. ASSUME Cardinality(u) = 1 PROVE OneLarge(parts, prime)
    <3>1. PICK k : u = {k}
      <4> HIDE DEF u
      <4> QED BY <2>1, <2>2, FS_Singleton
    <3> QED BY <3>1 DEF OneLarge
  <2> QED BY <2>2
<1>5. (Reduced(parts, prime) => Number(key) = SumOf(parts) % prime)
      /\ (OneLarge(parts, prime) => Number(key) % prime = SumOf(parts) % prime)
  BY DEF SumInv, Sound
<1> HIDE DEF u
<1>6. (u = {} => Number(key) = Total % prime) /\ (Cardinality(u) = 1 => Number(key) % prime = Total % prime)
  BY <1>1, <1>3, <1>4, <1>5
<1> QED BY <1>6, Zenon DEF SumExact, u

\* The circuits of a comparison and a subtraction, for a key the sums made.
LEMMA ComparesHolds == SumInv => ComparesExact
<1> SUFFICES ASSUME SumInv, NEW n \in Numbers
             PROVE  /\ CompareGe(key, Binary(n, size)) = 1 <=> Number(key) >= n
                    /\ CompareGe(Binary(n, size), key) = 1 <=> n >= Number(key)
                    /\ CompareEq(key, Binary(n, size)) = 1 <=> Number(key) = n
                    /\ size = 2 => Comparison(key, Binary(n, 2)) = CompareEq(key, Binary(n, 2))
                    /\ Number(SubtractOrder(key, n)) = (Number(key) - n + 2^size) % 2^size
  BY DEF ComparesExact
<1>1. size \in Nat \ {0} /\ size \in Nat /\ key \in Bits(size)
  BY DEF SumInv
<1>2. PICK m \in Nat : m = 2^size
  BY <1>1, PowerNat
<1>3. n \in Nat /\ n < m
  BY <1>2 DEF Numbers
<1>4. PICK b : b = Binary(n, size)
  OBVIOUS
<1>5. b \in Bits(size) /\ Number(b) = n
  BY <1>1, <1>2, <1>3, <1>4, BinaryExact
<1>6. (CompareGe(key, b) = 1 <=> Number(key) >= n) /\ (CompareGe(b, key) = 1 <=> n >= Number(key))
  BY <1>1, <1>5, GeCompares
<1>7. CompareEq(key, b) = 1 <=> Number(key) = n
  <2>1. CompareEq(key, b) = 1 <=> key = b
    BY <1>1, <1>5, EqCompares
  <2>2. Number(key) = Number(b) => key = b
    BY <1>1, <1>5, NumberUnique
  <2> QED BY <1>5, <2>1, <2>2
<1>8. size = 2 => Comparison(key, Binary(n, 2)) = CompareEq(key, Binary(n, 2))
  <2>1. ASSUME size = 2 PROVE Comparison(key, b) = CompareEq(key, b)
    <3>1. key \in Bits(2) /\ b \in Bits(2)
      BY <1>1, <1>5, <2>1
    <3> QED BY <3>1, ComparisonIsEq
  <2> QED BY <1>4, <2>1
<1>9. PICK X \in Nat : X = Number(key) /\ X < m
  BY <1>1, <1>2, NumberBound
<1>10. Number(SubtractOrder(key, n)) = IF X >= n THEN X - n ELSE X - n + m
  BY <1>1, <1>2, <1>3, <1>9, Subtracts
<1>11. (X - n + m) % m = IF X >= n THEN X - n ELSE X - n + m
  <2>1. CASE X >= n
    <3>1. PICK d \in 0..(m - 1) : d = X - n
      BY <1>3, <1>9, <2>1
    <3>2. (1 * m + d) % m = d
      <4>1. m \in Nat \ {0} /\ 1 \in Nat
        BY <1>3
      <4> QED BY <4>1, Divided
    <3>3. X - n + m = 1 * m + d
      BY <3>1
    <3> QED BY <2>1, <3>1, <3>2, <3>3
  <2>2. CASE ~ (X >= n)
    <3>1. PICK d \in 0..(m - 1) : d = X - n + m
      BY <1>3, <1>9, <2>2
    <3>2. d % m = d
      BY <3>1, <1>3
    <3> QED BY <2>2, <3>1, <3>2
  <2> QED BY <2>1, <2>2
<1>12. Number(SubtractOrder(key, n)) = (Number(key) - n + 2^size) % 2^size
  BY <1>2, <1>9, <1>10, <1>11
<1> QED BY <1>4, <1>6, <1>7, <1>8, <1>12, Zenon

\* Every two parties gave the same part.
LEMMA SharingsAgree ==
    ASSUME NEW n \in Nat \ {0}, NEW a \in [1..3 -> Bits(n)], NEW b \in [1..3 -> Bits(n)]
    PROVE  VerifySharings(a, b) = 1 <=> a[1] = b[2] /\ a[2] = b[3] /\ a[3] = b[1]
<1>1. 1 \in 1..3 /\ 2 \in 1..3 /\ 3 \in 1..3
  OBVIOUS
<1>2. a[1] \in Bits(n) /\ a[2] \in Bits(n) /\ a[3] \in Bits(n) /\ b[1] \in Bits(n) /\ b[2] \in Bits(n) /\ b[3] \in Bits(n)
  BY <1>1
<1>3. PICK p \in {0, 1} : p = CompareEq(a[1], b[2]) /\ (p = 1 <=> a[1] = b[2])
  BY <1>2, EqCompares
<1>4. PICK q \in {0, 1} : q = CompareEq(a[2], b[3]) /\ (q = 1 <=> a[2] = b[3])
  BY <1>2, EqCompares
<1>5. PICK r \in {0, 1} : r = CompareEq(a[3], b[1]) /\ (r = 1 <=> a[3] = b[1])
  BY <1>2, EqCompares
<1>6. PICK c \in {0, 1} : c = And(p, q) /\ (c = 1 <=> p = 1 /\ q = 1)
  BY Gates
<1>7. And(c, r) = 1 <=> c = 1 /\ r = 1
  BY Gates
<1>8. VerifySharings(a, b) = And(c, r)
  BY <1>3, <1>4, <1>5, <1>6, Zenon DEF VerifySharings
<1> QED BY <1>3, <1>4, <1>5, <1>6, <1>7, <1>8, Zenon

Headed(v, s, t) == t = <<v>> \o s

LEMMA HeadTail ==
    ASSUME NEW v, NEW s \in Seq({0, 1}), NEW t, Headed(v, s, t)
    PROVE  t[1] = v /\ Tail(t) = s
  BY DEF Headed

\* rss_to_y with its verification bit.
LEMMA SharingsHold == SumInv => SharingsVerified
<1> SUFFICES ASSUME SumInv, Len(parts) = 3, NEW i \in 1..3, NEW n \in Numbers
             PROVE  LET next == [j \in 1..3 |-> Binary(parts[j], size)]
                        true == [j \in 1..3 |-> next[IF j = 1 THEN 3 ELSE j - 1]]
                        prev == [true EXCEPT ![i] = Binary(n, size)]
                        both  == RssToYVerification(next, prev, prime)
                    IN  /\ both[1] = 1 <=> prev = true
                        /\ (\A j \in 1..3 : parts[j] < prime) => Tail(both) = key
  BY Zenon DEF SharingsVerified
<1> DEFINE next == [j \in 1..3 |-> Binary(parts[j], size)]
           true == [j \in 1..3 |-> next[IF j = 1 THEN 3 ELSE j - 1]]
           prev == [true EXCEPT ![i] = Binary(n, size)]
           both  == RssToYVerification(next, prev, prime)
<1>1. size \in Nat \ {0} /\ size \in Nat /\ key \in Bits(size) /\ prime \in Nat \ {0} /\ parts \in Seq(Nat)
  BY DEF SumInv
<1>2. PICK m \in Nat : m = 2^size
  BY <1>1, PowerNat
<1>3. prime < m /\ n \in Nat /\ n < m
  BY <1>2 DEF SumInv, Numbers
<1>4. ASSUME NEW j \in 1..3
      PROVE  parts[j] \in Nat /\ parts[j] < m /\ next[j] \in Bits(size) /\ Number(next[j]) = parts[j]
  <2>1. DOMAIN parts = 1..3
    BY <1>1
  <2>2. parts[j] \in Nat /\ parts[j] < m
    <3>1. \A k \in DOMAIN parts : parts[k] < 2^size
      BY DEF SumInv
    <3>2. parts[j] \in Nat
      <4>1. parts \in Seq(Nat) /\ j \in 1..Len(parts)
        BY <1>1
      <4> QED BY <4>1, ElementOfSeq
    <3> QED BY <1>2, <2>1, <3>1, <3>2
  <2>3. next[j] = Binary(parts[j], size)
    OBVIOUS
  <2> HIDE DEF next
  <2> QED BY <1>1, <1>2, <2>2, <2>3, BinaryExact
<1>5. next \in [1..3 -> Bits(size)]
  <2>1. \A j \in 1..3 : Binary(parts[j], size) \in Bits(size)
    BY <1>1, <1>4, BinaryBits
  <2> QED BY <2>1
<1> HIDE DEF next
<1>6. true \in [1..3 -> Bits(size)] /\ true[1] = next[3] /\ true[2] = next[1] /\ true[3] = next[2]
  <2>1. \A j \in 1..3 : (IF j = 1 THEN 3 ELSE j - 1) \in 1..3
    OBVIOUS
  <2> QED BY <1>5, <2>1
<1> HIDE DEF true
<1>7. Binary(n, size) \in Bits(size)
  BY <1>1, <1>3, BinaryBits
<1>8. prev \in [1..3 -> Bits(size)]
  BY <1>6, <1>7
<1> HIDE DEF prev
<1>9. VerifySharings(next, prev) = 1 <=> prev = true
  <2>1. VerifySharings(next, prev) = 1 <=> next[1] = prev[2] /\ next[2] = prev[3] /\ next[3] = prev[1]
    BY <1>1, <1>5, <1>8, SharingsAgree
  <2>2. ASSUME prev[1] = true[1], prev[2] = true[2], prev[3] = true[3] PROVE prev = true
    <3>1. \A j \in 1..3 : j = 1 \/ j = 2 \/ j = 3
      OBVIOUS
    <3>2. \A j \in 1..3 : prev[j] = true[j]
      BY <2>2, <3>1
    <3> QED BY <1>6, <1>8, <3>2
  <2> QED BY <1>6, <2>1, <2>2
<1>10. PICK sum : sum = RssToY(next, prime)
  OBVIOUS
<1>11. PICK one : one = ModAdd(next[1], next[2], prime)
  OBVIOUS
<1>12. sum = ModAdd(one, next[3], prime)
  BY <1>10, <1>11 DEF RssToY
<1>13. one \in Bits(size) /\ sum \in Bits(size)
  <2>1. next[1] \in Bits(size) /\ next[2] \in Bits(size) /\ next[3] \in Bits(size)
    BY <1>4
  <2>2. one \in Bits(size)
    BY <1>1, <1>2, <1>3, <1>11, <2>1, ModAdds
  <2> QED BY <1>1, <1>2, <1>3, <1>12, <2>1, <2>2, ModAdds
<1>14. both[1] = VerifySharings(next, prev) /\ Tail(both) = sum
  <2>1. PICK v : v = VerifySharings(next, prev)
    OBVIOUS
  <2>2. both = <<v>> \o sum
    BY <1>10, <2>1 DEF RssToYVerification
  <2>3. sum \in Seq({0, 1}) /\ Len(sum) = size
    BY <1>1, <1>13, BitsLen
  <2> HIDE DEF both
  <2>4. Headed(v, sum, both)
    BY <2>2 DEF Headed
  <2>5. both[1] = v /\ Tail(both) = sum
    BY <2>3, <2>4, HeadTail
  <2> QED BY <2>1, <2>5
<1>15. ASSUME \A j \in 1..3 : parts[j] < prime PROVE sum = key
  <2>1. PICK a \in Nat, b \in Nat, c \in Nat : a = parts[1] /\ b = parts[2] /\ c = parts[3]
    BY <1>4
  <2>2. a < prime /\ b < prime /\ c < prime
    BY <1>15, <2>1
  <2>3. Number(next[1]) = a /\ Number(next[2]) = b /\ Number(next[3]) = c
        /\ next[1] \in Bits(size) /\ next[2] \in Bits(size) /\ next[3] \in Bits(size)
    BY <1>4, <2>1
  <2>4. Number(one) = (a + b) % prime /\ Number(one) < prime
    BY <1>1, <1>2, <1>3, <1>11, <2>2, <2>3, ModAddReduced
  <2>5. Number(sum) = (Number(one) + c) % prime
    BY <1>1, <1>2, <1>3, <1>12, <1>13, <2>2, <2>3, <2>4, ModAddReduced, ZenonT(40)
  <2>6. PICK o \in Nat : o = Number(one)
    BY <1>1, <1>13, NumberBound
  <2>7. Congruent(o, a + b, prime)
    <3>1. o = (a + b) % prime /\ o < prime
      BY <2>4, <2>6
    <3>2. o % prime = o
      BY <3>1, <1>1, SMTT(30)
    <3> QED BY <3>1, <3>2 DEF Congruent
  <2>8. Congruent(o + c, (a + b) + c, prime)
    <3>1. a + b \in Nat
      OBVIOUS
    <3> QED BY <1>1, <2>7, <3>1, SumRemainder
  <2>9. SumOf(parts) = a + b + c
    BY <1>1, <2>1, SumOfThree
  <2>10. Reduced(parts, prime)
    <3>1. DOMAIN parts = 1..3
      BY <1>1
    <3> QED BY <1>15, <3>1 DEF Reduced
  <2>11. Number(key) = SumOf(parts) % prime
    BY <2>10 DEF SumInv, Sound
  <2>12. Number(sum) = Number(key)
    BY <2>5, <2>6, <2>8, <2>9, <2>11 DEF Congruent
  <2> QED BY <1>1, <1>13, <2>12, NumberUnique
<1> HIDE DEF both
<1>16. (both[1] = 1 <=> prev = true) /\ ((\A j \in 1..3 : parts[j] < prime) => Tail(both) = key)
  BY <1>9, <1>14, <1>15
<1> QED BY <1>16, Zenon DEF both, prev, true, next

\* Whatever the bit length and the modulus, and however many parts were added,
\* the key is their sum, reduced while every part was below the modulus and
\* congruent to it when one was not (build_mod_add_circut).
THEOREM SumsAreExact == Spec => []SumExact
<1>1. Init => SumInv
  BY SumStart DEF Init
<1>2. SumInv /\ [Next]_<<subject, sumvars, hashvars, streamvars>> => SumInv'
  <2>1. [Next]_<<subject, sumvars, hashvars, streamvars>> => [SumNext]_sumvars
    BY DEF Next
  <2> QED BY <2>1, SumStep
<1> QED BY <1>1, <1>2, SumExactHolds, PTL DEF Spec

\* Comparison, equality and subtraction of numbers of every width are those of
\* integers (build_compare_ge_circuit, build_compare_eq_circuit,
\* build_comparison_circuit, build_subtract_order_circuit).
THEOREM ComparisonsAreExact == Spec => []ComparesExact
<1>1. Init => SumInv
  BY SumStart DEF Init
<1>2. SumInv /\ [Next]_<<subject, sumvars, hashvars, streamvars>> => SumInv'
  <2>1. [Next]_<<subject, sumvars, hashvars, streamvars>> => [SumNext]_sumvars
    BY DEF Next
  <2> QED BY <2>1, SumStep
<1> QED BY <1>1, <1>2, ComparesHolds, PTL DEF Spec

\* The verification bit of rss_to_y is 1 exactly when every two parties gave
\* the same part, and then the output is the sum of the sharing, for scalars of
\* every width (build_scalar_rss_to_y_verification_circuit).
THEOREM SharingsAreVerified == Spec => []SharingsVerified
<1>1. Init => SumInv
  BY SumStart DEF Init
<1>2. SumInv /\ [Next]_<<subject, sumvars, hashvars, streamvars>> => SumInv'
  <2>1. [Next]_<<subject, sumvars, hashvars, streamvars>> => [SumNext]_sumvars
    BY DEF Next
  <2> QED BY <2>1, SumStep
<1> QED BY <1>1, <1>2, SharingsHold, PTL DEF Spec

=============================================================================
