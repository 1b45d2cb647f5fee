--------------------------- MODULE SecretSharing ---------------------------
(***************************************************************************)
(* Shamir and replicated sharing of a scalar among three parties           *)
(* (crates/sl-secret-sharing) and the gadget that turns Yao-shared bits    *)
(* into a scalar (crates/hd-migration/src/arith_gadget.rs), over the       *)
(* integers modulo a prime.  A group element is the scalar it is the       *)
(* multiple of the generator by.                                           *)
(***************************************************************************)
EXTENDS Blocks, Integers, Sequences

CONSTANTS
    Order,      \* of the scalar field and the group: a prime above 3
    Points,     \* evaluation points of party 0, 1 and 2
    Kdf(_, _)   \* kdf: the scalar of a position and a label

Field == 0..(Order - 1)

ASSUME FieldAssumption ==
    /\ Order \in Nat /\ Order > 3
    /\ \A x \in Field \ {0} : \E y \in Field : (x * y) % Order = 1
    /\ Points \in [0..2 -> Field \ {0}]
    /\ \A i, j \in 0..2 : i # j => Points[i] # Points[j]

Invert(x) == CHOOSE y \in Field : (x * y) % Order = 1
Minus(x, y) == (x - y + Order) % Order

-----------------------------------------------------------------------------
(* shamir.rs.                                                              *)

\* pair_factor: (j - m) / (-m).
PairFactor(j, m) == (Minus(j, m) * Invert(Minus(0, m))) % Order

\* interpolate_at, for the two points x and y the code passes.
InterpolateAt(x, fx, y, fy, at) ==
    (fx * Minus(y, at) * Invert(Minus(y, x)) + fy * Minus(x, at) * Invert(Minus(x, y))) % Order

\* rss_pair_to_shamir: each part counts with the line through it that vanishes
\* at the party without it.
RssPairToShamir(prev, next, i) ==
    LET to(k) == PairFactor(Points[i], Points[k]) IN
    (IF i = 0 THEN next * to(2) + prev * to(1) ELSE
     IF i = 1 THEN prev * to(2) + next * to(0) ELSE next * to(1) + prev * to(0)) % Order

\* Faulty: the padded secret goes to parties 1 and 2.
FinalizeMisplaced(padded, rprev, rnext, i) ==
    [prev |-> Minus(IF i = 2 THEN padded ELSE 0, rprev),
     next |-> Minus(IF i = 2 THEN padded ELSE 0, rnext)]

\* finalize_shamir_to_rss: minus the random sharing, plus the padded secret in
\* the part that parties 2 and 0 have.
FinalizeShamirToRss(padded, rprev, rnext, i) ==
    [prev |-> Minus(IF i = 0 THEN padded ELSE 0, rprev),
     next |-> Minus(IF i = 2 THEN padded ELSE 0, rnext)]

\* reconstruct_shamir_share: its own and the previous party's share give the
\* secret, if the next party's is on their line.
OnLine(share, next, prev, i) ==
    next = InterpolateAt(Points[i], share, Points[(i + 2) % 3], prev, Points[(i + 1) % 3])

Reconstructed(share, prev, i) == InterpolateAt(Points[i], share, Points[(i + 2) % 3], prev, 0)

-----------------------------------------------------------------------------
(* arith_gadget.rs: bit k counts 2^(k - 1).                                *)

\* Faulty: the power of two is doubled before it is used.
WeightDoubled(a, k) == (a * 2^k) % Order

Weight(a, k) == (a * 2^(k - 1)) % Order

SumTo(f, n) == LET sum[k \in 0..n] == IF k = 0 THEN 0 ELSE (sum[k - 1] + f[k]) % Order IN sum[n]

\* b_i of garble_gadget.
GadgetOffset(f, delta, a, k) ==
    LET hk0 == Kdf(k, f)
        hk1 == Kdf(k, f \oplus delta)
    IN  IF lsb(f) = 1 THEN Minus(Minus(0, hk1), Weight(a, k)) ELSE Minus(0, hk0)

\* c_i: the one ciphertext of a bit.
GadgetRow(f, delta, a, k) ==
    LET hk0 == Kdf(k, f)
        hk1 == Kdf(k, f \oplus delta)
    IN  ((IF lsb(f) = 1 THEN hk0 ELSE hk1 + Weight(a, k)) + GadgetOffset(f, delta, a, k)) % Order

\* garble_gadget of the FALSE-labels fs.
GarbleGadget(fs, delta, a) ==
    [cvec  |-> [k \in DOMAIN fs |-> GadgetRow(fs[k], delta, a, k)],
     alpha |-> a,
     beta  |-> SumTo([k \in DOMAIN fs |-> GadgetOffset(fs[k], delta, a, k)], Len(fs))]

\* evaluate_gadget: alpha times the number, plus beta.
EvaluateGadget(cvec, labels) ==
    SumTo([k \in DOMAIN labels |->
             Minus(IF lsb(labels[k]) = 1 THEN cvec[k] ELSE 0, Kdf(k, labels[k]))], Len(labels))

=============================================================================
