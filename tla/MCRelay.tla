------------------------------ MODULE MCRelay ------------------------------
(***************************************************************************)
(* Scripts for YaoRelay and the pseudo-random material they run on.        *)
(***************************************************************************)
EXTENDS YaoRelay

\* A block of pseudo-random bits for a number, and the number of a block.
Random(k) ==
    LET n == k % 4001 IN
    {b \in Bits : ((n * n + 7 * n + 3) * (2 * b + 5) + n * (b * b + 1)) % 31 < 15}

Number(x) == LET w == [b \in Bits |-> 2^b] IN
             Seqs!FoldLeft(+, 0, [n \in 1..Cardinality(Bits) |-> IF n - 1 \in x THEN w[n - 1] ELSE 0])

RandomStream(seed, k) == Random(101 * seed + 13 * k)
RandomOffset(seed) == Random(970 + 38 * seed)
KeyOfSeed(seed) == seed
RandomHash(k, x, t) == Random(59 * Number(x) + 401 * t + 7 * k)
IdealCommit(crs, m, w) == <<crs, m, w>>
OpeningOf(com) == <<com[2], com[3]>>

\* All halves of n bits.
AllPads(n) == [1..n -> {0, 1}]

-----------------------------------------------------------------------------
(* Circuits.                                                               *)

In(no, id) == [op |-> "Input", x |-> no, y |-> id]

\* (x and y) xor not z, and that bit once more behind a constant 1.
Majority ==
    [gates |-> <<In(1, 1), In(1, 2), In(2, 1),
                 [op |-> "And", x |-> 1, y |-> 2], [op |-> "Inv", x |-> 3, y |-> 0],
                 [op |-> "Xor", x |-> 4, y |-> 5], [op |-> "Constant", x |-> 1, y |-> 0],
                 [op |-> "And", x |-> 7, y |-> 6]>>,
     outs |-> <<6, 8>>]

\* y and (0 xor z) for inputs (z', y) and z: an input group apart, its first
\* wire read through a constant.
Masked ==
    [gates |-> <<[op |-> "Constant", x |-> 0, y |-> 0], In(1, 1), In(1, 2), In(2, 1),
                 [op |-> "Xor", x |-> 1, y |-> 3], [op |-> "And", x |-> 5, y |-> 4]>>,
     outs |-> <<6>>]

-----------------------------------------------------------------------------
(* Scripts, and what the parties can bring to their calls.  Garblers agree *)
(* on the bits that both know.                                             *)

InputScript ==
    <<[op |-> "setup_yao"],
      [op |-> "input_yao"],
      [op |-> "input_from", pid |-> 0],
      [op |-> "input_from", pid |-> 1],
      [op |-> "input_from", pid |-> 2],
      [op |-> "xor", args |-> <<<<2, 1>>, <<5, 1>>>>],
      [op |-> "validate", args |-> <<<<6, 1>>>>],
      [op |-> "batch_output_yao", args |-> <<<<2, 1>>, <<3, 1>>, <<4, 1>>, <<5, 1>>, <<6, 1>>>>]>>

InputGivens ==
    {[i \in Parties |-> [k \in 1..8 |-> IF k = 2 THEN <<x>> ELSE <<y[i]>>]] :
        x \in {0, 1}, y \in [Parties -> {0, 1}]}

\* Two bits of every party at once; each party learns some of them.
AllScript ==
    <<[op |-> "setup_yao"],
      [op |-> "input_from_all"],
      [op |-> "batch_output_yao_to", pid |-> 0, args |-> <<<<2, 3>>, <<2, 6>>>>],
      [op |-> "batch_output_yao_to", pid |-> 1, args |-> <<<<2, 2>>, <<2, 5>>>>],
      [op |-> "output_yao_to", pid |-> 2, args |-> <<<<2, 1>>>>],
      [op |-> "output_yao_to", pid |-> 0, args |-> <<<<2, 4>>>>],
      [op |-> "batch_output_yao_to", pid |-> 2, args |-> <<<<2, 1>>, <<2, 4>>>>]>>

AllGivens == {[i \in Parties |-> [k \in 1..7 |-> y[i]]] : y \in [Parties -> {<<0, 1>>, <<1, 0>>, <<1, 1>>}]}

\* The circuits one by one and in all four ways of mapping.
EvalScript ==
    LET x == <<2, 1>>
        y == <<2, 2>>
        z == <<2, 3>>
    IN
    <<[op |-> "setup_yao"],
      [op |-> "batch_input_yao"],
      [op |-> "circuit_eval", circuits |-> Scalar(Majority), inputs |-> Scalar(<<<<x, y>>, <<z>>>>)],
      [op |-> "map_circuit_eval", circuits |-> Scalar(Masked), inputs |-> Scalar(<<<<<<3, 1>>, x>>, <<z>>>>)],
      [op |-> "map_circuit_eval", circuits |-> Scalar(Majority),
       inputs |-> Vector(<<<<<<x, z>>, <<y>>>>, <<<<<<3, 2>>, <<4, 1>>>>, <<x>>>>>>)],
      [op |-> "map_circuit_eval", circuits |-> Vector(<<Masked, Majority>>),
       inputs |-> Scalar(<<<<x, <<5, 3>>>>, <<<<5, 2>>>>>>)],
      [op |-> "map_circuit_eval", circuits |-> Vector(<<Majority, Masked>>),
       inputs |-> Vector(<<<<<<z, <<6, 1>>>>, <<y>>>>, <<<<y, <<6, 2>>>>, <<<<6, 3>>>>>>>>)],
      [op |-> "output_yao", args |-> <<<<7, 3>>>>],
      [op |-> "batch_output_yao", args |-> <<<<7, 1>>, <<7, 2>>, <<5, 4>>, <<3, 1>>>>]>>

EvalGivens == {[i \in Parties |-> [k \in 1..9 |-> x]] : x \in [1..3 -> {0, 1}]}

\* A circuit without tables in every way of mapping, last the one that fails.
Free ==
    [gates |-> <<In(1, 1), In(1, 2), [op |-> "Xor", x |-> 1, y |-> 2], [op |-> "Inv", x |-> 3, y |-> 0]>>,
     outs |-> <<4>>]

FreeScript ==
    LET x == <<<<<<2, 1>>, <<2, 2>>>>>>
        y == <<<<<<2, 2>>, <<2, 3>>>>>>
        z == <<<<<<2, 2>>, <<2, 3>>>>, <<<<2, 1>>>>>>
    IN
    <<[op |-> "setup_yao"],
      [op |-> "batch_input_yao"],
      [op |-> "circuit_eval", circuits |-> Scalar(Free), inputs |-> Scalar(x)],
      [op |-> "map_circuit_eval", circuits |-> Vector(<<Free, Majority>>), inputs |-> Vector(<<x, z>>)],
      [op |-> "map_circuit_eval", circuits |-> Vector(<<Free, Free>>), inputs |-> Scalar(y)],
      [op |-> "map_circuit_eval", circuits |-> Scalar(Majority), inputs |-> Vector(<<z, z>>)],
      [op |-> "map_circuit_eval", circuits |-> Scalar(Free), inputs |-> Vector(<<x, y>>)],
      [op |-> "output_yao", args |-> <<<<7, 1>>>>]>>

FreeGivens == {[i \in Parties |-> [k \in 1..8 |-> x]] : x \in [1..3 -> {0, 1}]}

\* Bits that are shared among the parties, turned into Yao shares and back.
ConvertScript ==
    <<[op |-> "setup_yao"],
      [op |-> "bring"],
      [op |-> "binary_to_yao", args |-> <<<<2, 1>>>>],
      [op |-> "batch_binary_to_yao", args |-> <<<<2, 2>>, <<2, 1>>>>],
      [op |-> "xor", args |-> <<<<3, 1>>, <<4, 1>>>>],
      [op |-> "yao_to_binary", args |-> <<<<5, 1>>>>],
      [op |-> "batch_yao_to_binary", args |-> <<<<4, 1>>, <<3, 1>>>>],
      [op |-> "binary_to_yao", args |-> <<<<6, 1>>>>],
      [op |-> "output_yao", args |-> <<<<8, 1>>>>]>>

ConvertGivens ==
    {[i \in Parties |-> [k \in 1..9 |-> <<Replicated(u, i), Replicated(v, i)>>]] :
        u \in [Parties -> {0, 1}], v \in {[i \in Parties |-> i % 2]}}

\* Every way to make a share, for runs in which calls fail.
FaultScript ==
    <<[op |-> "setup_yao"],
      [op |-> "bring"],
      [op |-> "input_yao"],
      [op |-> "input_from", pid |-> 1],
      [op |-> "input_from", pid |-> 2],
      [op |-> "input_from_all"],
      [op |-> "binary_to_yao", args |-> <<<<2, 1>>>>],
      [op |-> "circuit_eval", circuits |-> Scalar(Majority),
       inputs |-> Scalar(<<<<<<5, 1>>, <<7, 1>>>>, <<<<6, 3>>>>>>)],
      [op |-> "yao_to_binary", args |-> <<<<8, 2>>>>],
      [op |-> "output_yao", args |-> <<<<8, 1>>>>]>>

FaultGivens ==
    {[i \in Parties |-> [k \in 1..10 |-> IF k = 2 THEN <<Replicated(u, i)>> ELSE <<1>>]] :
        u \in {[i \in Parties |-> IF i = 1 THEN 1 ELSE 0]}}

\* A few short calls, for runs in which hosts abort.
AbortScript ==
    <<[op |-> "setup_yao"],
      [op |-> "input_yao"],
      [op |-> "validate", args |-> <<<<2, 1>>>>],
      [op |-> "output_yao", args |-> <<<<2, 1>>>>],
      [op |-> "output_yao_to", pid |-> 1, args |-> <<<<2, 1>>>>]>>

AbortGivens == {[i \in Parties |-> [k \in 1..5 |-> <<1>>]]}

-----------------------------------------------------------------------------
(* Plans.                                                                  *)

\* Calls that nothing disturbs, with one commitment key and one seed.
Undisturbed(calls, givens) ==
    [calls |-> calls, givens |-> givens, crss |-> {{1}}, seeds |-> {1}, aborters |-> {}, retries |-> 0]

RelayPlans ==
    [inputs  |-> [Undisturbed(InputScript, InputGivens) EXCEPT !.crss = {{1}, {0, 2}}, !.seeds = {1, 2}],
     all     |-> Undisturbed(AllScript, AllGivens),
     eval    |-> [Undisturbed(EvalScript, EvalGivens) EXCEPT !.seeds = {1, 2}],
     free    |-> Undisturbed(FreeScript, FreeGivens),
     convert |-> Undisturbed(ConvertScript, ConvertGivens),
     faults  |-> [Undisturbed(FaultScript, FaultGivens) EXCEPT !.retries = 1],
     aborts  |-> [Undisturbed(AbortScript, AbortGivens) EXCEPT !.aborters = {0, 2}]]

\* The plans as TLC takes them for the constant: by a name it computes once.
TabledRelayPlans == LET plans == RelayPlans IN plans

=============================================================================
