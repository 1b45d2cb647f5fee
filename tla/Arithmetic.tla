----------------------------- MODULE Arithmetic -----------------------------
(***************************************************************************)
(* The arithmetic circuits (src/arithmetic.rs, src/comparison.rs and the   *)
(* sums and comparisons crates/zcash and crates/hd-migration build from    *)
(* them).  A circuit is the function it computes, a wire the bit it        *)
(* carries: that add_circuit preserves both is CopySound of                *)
(* CircuitBuilder.  A number is the sequence of its bits, lowest first.    *)
(***************************************************************************)
EXTENDS Integers, Sequences

Xor(x, y) == (x + y) % 2
And(x, y) == x * y
Or(x, y)  == Xor(And(x, y), Xor(x, y))
Negate(x) == 1 - x

\* bytes_to_bits_le_from_le_bytes and resize, of number n in k bits.
Binary(n, k) == [i \in 1..k |-> (n \div 2^(i - 1)) % 2]

Number(x) == LET upto[i \in 0..Len(x)] == IF i = 0 THEN 0 ELSE upto[i - 1] + x[i] * 2^(i - 1)
             IN  upto[Len(x)]

-----------------------------------------------------------------------------

\* build_if_then_else_circuit.
IfThenElse(choice, gin, ein) ==
    [i \in DOMAIN gin |-> Xor(And(Xor(gin[i], ein[i]), choice[i]), ein[i])]

\* size_log2 of build_ppa_circuit, rounded up.
Log2(n) == CHOOSE k \in 0..n : 2^k >= n /\ (k > 0 => 2^(k - 1) < n)

\* One step of the prefix adder: generate and propagate bits reach d further.
Reach(w, d) ==
    [g |-> [i \in DOMAIN w.g |-> IF i <= d THEN w.g[i] ELSE Or(w.g[i], And(w.g[i - d], w.p[i]))],
     p |-> [i \in DOMAIN w.p |-> IF i <= d THEN w.p[i] ELSE And(w.p[i - d], w.p[i])]]

\* build_ppa_circuit: the sum, and the carry above it.
Ppa(x, y) ==
    LET n == Len(x)
        pc == [i \in 1..n |-> Xor(x[i], y[i])]
        after[k \in 0..Log2(n)] ==
            IF k = 0 THEN [g |-> [i \in 1..n |-> And(x[i], y[i])], p |-> pc]
            ELSE Reach(after[k - 1], 2^(k - 1))
        g == after[Log2(n)].g
    IN  [i \in 1..n |-> Xor(pc[i], IF i = 1 THEN 0 ELSE g[i - 1])] \o <<g[n]>>

\* Faulty: the loop that adds 1 stops after the first bit.
NegatedShort(p, k) ==
    LET inv == [i \in 1..k |-> Negate(Binary(p, k)[i])]
    IN  [i \in 1..k |-> IF i = 1 THEN Xor(inv[i], 1) ELSE inv[i]]

\* The two's complement of p, its carry as far as it goes.
Negated(p, k) ==
    LET inv == [i \in 1..k |-> Negate(Binary(p, k)[i])]
        carry[i \in 1..k] == IF i = 1 THEN 1 ELSE And(carry[i - 1], inv[i - 1])
    IN  [i \in 1..k |-> Xor(inv[i], carry[i])]

\* build_subtract_order_circuit.
SubtractOrder(x, p) == SubSeq(Ppa(x, Negated(p, Len(x))), 1, Len(x))

\* build_compare_ge_rec_circuit: x >= y, and whether they differ, on the bits
\* of a range; the upper half decides unless it is equal.
GeRec(x, y) ==
    LET of[r \in (1..Len(x)) \X (1..Len(x))] ==
          LET lo == r[1]
              hi == r[2]
              m  == lo + (hi - lo) \div 2
          IN  IF lo = hi
              THEN [res |-> Negate(And(Xor(x[lo], y[lo]), y[lo])), diff |-> Xor(x[lo], y[lo])]
              ELSE LET l == of[<<lo, m>>]
                       h == of[<<m + 1, hi>>]
                   IN  [res  |-> IfThenElse(<<h.diff>>, <<h.res>>, <<l.res>>)[1],
                        diff |-> Or(h.diff, l.diff)]
    IN  of

\* build_compare_ge_circuit.
CompareGe(x, y) == GeRec(x, y)[<<1, Len(x)>>].res

\* build_compare_eq_circuit.
CompareEq(x, y) ==
    LET differs[i \in 1..Len(x)] ==
          IF i = 1 THEN Xor(x[1], y[1]) ELSE Or(differs[i - 1], Xor(x[i], y[i]))
    IN  Negate(differs[Len(x)])

\* Faulty: the sum is compared without its carry.
ModAddNoCarry(x, y, p) ==
    LET n   == Len(x)
        add == Ppa(x, y)
        ge  == CompareGe(SubSeq(add, 1, n), Binary(p, n))
    IN  IfThenElse([i \in 1..n |-> ge], SubSeq(SubtractOrder(add, p), 1, n), SubSeq(add, 1, n))

\* build_mod_add_circut: the modulus is subtracted at most once.
ModAdd(x, y, p) ==
    LET n   == Len(x)
        add == Ppa(x, y)
        ge  == CompareGe(add, Binary(p, n + 1))
    IN  IfThenElse([i \in 1..n |-> ge], SubSeq(SubtractOrder(add, p), 1, n), SubSeq(add, 1, n))

\* build_comparison_circuit.
Comparison(garb, eval) ==
    LET eq0 == Xor(eval[1], garb[1])
        eq1 == Xor(eval[2], garb[2])
    IN  Xor(Xor(And(eq0, eq1), Xor(eq0, eq1)), 1)

\* Faulty: the last pair is not compared.
VerifySharingsTwo(next, prev) ==
    And(CompareEq(next[1], prev[2]), CompareEq(next[2], prev[3]))

\* build_verify_sharings_circuit: what each party gave for the part it shares
\* with the one after it agrees.
VerifySharings(next, prev) ==
    And(And(CompareEq(next[1], prev[2]), CompareEq(next[2], prev[3])), CompareEq(next[3], prev[1]))

\* build_scalar_rss_to_y_circuit, and with the verification bit
\* build_scalar_rss_to_y_verification_circuit.
RssToY(x, p) == ModAdd(ModAdd(x[1], x[2], p), x[3], p)
RssToYVerification(next, prev, p) == <<VerifySharings(next, prev)>> \o RssToY(next, p)

------------------------------------------------------------------

=============================================================================
