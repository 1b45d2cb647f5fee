---------------------------- MODULE MCDerivation ----------------------------
(***************************************************************************)
(* Derivations over scalars modulo 5, so of three bits.                    *)
(***************************************************************************)
EXTENDS MCRelay, DerivationRelay

EvaluationPoints == [i \in 0..2 |-> i + 1]
Key(seed) == seed
ShareOfKey(key) == (3 * key + 1) % 5
KdfOf(k, x) == (7 * Number(x) + 3 * k + Number(x) \div 5) % 5
NonZeroScalar(x) == 1 + (Number(x) % 4)

\* A first half of n bits: every other one set.
OnePad(n) == {[k \in 1..n |-> k % 2]}

-----------------------------------------------------------------------------
(* Circuits: wires are added to a sequence of gates.                       *)

Gate(op, x, y) == [op |-> op, x |-> x, y |-> y]

\* Sum and carry of wires x, y and c, as wires Len(g) + 2 and Len(g) + 5.
FullAdder(g, x, y, c) ==
    LET n == Len(g) IN
    g \o <<Gate("Xor", x, y), Gate("Xor", n + 1, c), Gate("And", x, y), Gate("And", n + 1, c),
           Gate("Xor", n + 3, n + 4)>>

\* Adds the wires xs and ys: the gates, the wires of the sum and of its carry.
Adder(g, xs, ys, zero) ==
    LET upto[k \in 0..Len(xs)] ==
          IF k = 0 THEN [g |-> g, s |-> <<>>, c |-> zero]
          ELSE LET r == upto[k - 1]
                   n == Len(r.g)
               IN  [g |-> FullAdder(r.g, xs[k], ys[k], r.c), s |-> Append(r.s, n + 2), c |-> n + 5]
    IN  upto[Len(xs)]

\* xs + ys modulo 5: the sum, or the sum less 5 (plus 11 in four bits) if that
\* carries.
AddModulo5(g, xs, ys, zero, one) ==
    LET s    == Adder(g, xs, ys, zero)
        less == Adder(s.g, Append(s.s, s.c), <<one, one, zero, one>>, zero)
        n    == Len(less.g)
        pick(k) == <<Gate("Xor", s.s[k], less.s[k]), Gate("And", n + 3 * k - 2, less.c),
                     Gate("Xor", s.s[k], n + 3 * k - 1)>>
    IN  [g |-> less.g \o (pick(1) \o (pick(2) \o pick(3))), s |-> [k \in 1..3 |-> n + 3 * k]]

\* Three gates for xs = ys: bit by bit not different, and all of these.
SameBits(g, xs, ys) ==
    LET n == Len(g)
        eq(k) == <<Gate("Xor", xs[k], ys[k]), Gate("Inv", n + 2 * k - 1, 0)>>
    IN  g \o (eq(1) \o (eq(2) \o (eq(3) \o
          <<Gate("And", n + 2, n + 4), Gate("And", n + 7, n + 6)>>)))

\* build_scalar_rss_to_y_verification_circuit in small: the three pairs of
\* parts are the same, and the bits of their sum.
ImportCircuit ==
    LET ins  == [n \in 1..18 |-> Gate("Input", ((n - 1) \div 3) + 1, ((n - 1) % 3) + 1)]
        part(k) == [b \in 1..3 |-> 3 * (k - 1) + b]
        e1   == SameBits(ins, part(1), part(5))
        e2   == SameBits(e1, part(2), part(6))
        e3   == SameBits(e2, part(3), part(4))
        ver  == e3 \o <<Gate("And", Len(e1), Len(e2)), Gate("And", Len(e3) + 1, Len(e3))>>
        n    == Len(ver)
        k    == ver \o <<Gate("Constant", 0, 0), Gate("Constant", 1, 0)>>
        a    == AddModulo5(k, part(1), part(2), n + 1, n + 2)
        b    == AddModulo5(a.g, a.s, part(3), n + 1, n + 2)
    IN  [gates |-> b.g, outs |-> <<n>> \o b.s]

\* The same followed by a child key and a chain bit.
FirstCircuit ==
    LET c == ImportCircuit
        n == Len(c.gates)
        s == Tail(c.outs)
    IN  [gates |-> c.gates \o <<Gate("And", s[1], s[2]), Gate("Xor", n + 1, s[3]), Gate("Inv", s[1], 0)>>,
         outs |-> c.outs \o <<n + 2, s[2], n + 3, n + 1>>]

\* A child key and a chain bit of a key, the highest bit first.
ChildCircuit(op) ==
    [gates |-> [n \in 1..3 |-> Gate("Input", 1, n)]
                 \o <<Gate("And", 1, 2), Gate("Xor", 4, 3), Gate(op, 1, 2)>>,
     outs |-> <<5, 2, 6, 4>>]

-----------------------------------------------------------------------------

\* Shares of s on a line of slope a.
Line(s, a) == [i \in Parties |-> (s + a * (i + 1)) % 5]

\* What the hosts bring: seeds for call c, shares for call 3.
Hosts(c, n, seeds, shares) ==
    {[i \in Parties |-> [k \in 1..n |-> IF k = c THEN u[i] ELSE IF k = 3 THEN x[i] ELSE <<>>]] :
        u \in seeds, x \in shares}

SomeSeeds == {[i \in Parties |-> i], [i \in Parties |-> 4 - i]}

ZcashScript == ZcashDerivation(ImportCircuit, 3)
ZcashGivens == Hosts(2, 8, SomeSeeds, {Line(s, a) : s \in 0..4, a \in {0, 3}})

\* Shares that are on no line, seeds that two parties have in common.
OffLine == {x \in [Parties -> 0..4] : x[1] \in {0, 1} /\ x[2] = 0 /\ x[0] \in {1, 3}}
BadGivens == Hosts(2, 8, {[i \in Parties |-> i], [i \in Parties |-> IF i = 0 THEN 1 ELSE i]}, OffLine)

KeyScript == ExtendedKeyDerivation(FirstCircuit, ChildCircuit("Xor"), <<ChildCircuit("And"), ChildCircuit("Xor")>>, 1)
KeyGivens == Hosts(1, 15, SomeSeeds, {Line(s, 2) : s \in {1, 4}})

\* Replicated shares of all scalars, and some that neighbours differ on.
Rss(x) == [i \in Parties |-> [prev |-> x[i], next |-> x[NextOf(i)], bits |-> ScalarBits(x[i]) \o ScalarBits(x[NextOf(i)])]]
Torn(x) == [Rss(x) EXCEPT ![1].prev = (@ + 1) % 5, ![1].bits = ScalarBits((x[1] + 1) % 5) \o ScalarBits(x[2])]
RoundTripScript ==
    <<[op |-> "setup_yao"], [op |-> "bring"]>> \o RssToYao(2, ImportCircuit)
      \o <<[op |-> "yao_to_rss", groups |-> <<WiresOf(4, 2, 4)>>]>>
RoundTripGivens ==
    LET parts == {[i \in Parties |-> IF i = 0 THEN a ELSE 2 * i] : a \in 0..4} IN
    {[i \in Parties |-> [k \in 1..7 |-> IF k = 2 THEN x[i] ELSE <<>>]] :
        x \in {Rss(u) : u \in parts} \cup {Torn(u) : u \in parts}}

DerivationPlans ==
    [zcash     |-> Undisturbed(ZcashScript, ZcashGivens),
     misfits   |-> Undisturbed(ZcashScript, BadGivens),
     keys      |-> Undisturbed(KeyScript, KeyGivens),
     roundtrip |-> Undisturbed(RoundTripScript, RoundTripGivens)]

\* The plans as TLC takes them for the constant: by a name it computes once.
TabledDerivationPlans == LET plans == DerivationPlans IN plans

=============================================================================
