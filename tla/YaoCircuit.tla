----------------------------- MODULE YaoCircuit -----------------------------
(***************************************************************************)
(* Garbling and evaluating a whole circuit in one step, as the relay       *)
(* protocols and their maps over circuits call them (garble.rs,            *)
(* evaluate.rs, the local part of circuit_eval.rs).  The step of one gate  *)
(* is the one of GarbledCircuit.                                           *)
(*                                                                         *)
(* A circuit is a record of gates as CircuitBuilder makes them, in order,  *)
(* and outs, the wires of its output gates.  An input is a sequence of     *)
(* groups of labels or bits: gate Input(no, id) reads input[no][id].       *)
(***************************************************************************)
EXTENDS Blocks, Integers, FiniteSets, Sequences

CONSTANTS
    GarbleKeys,
    Hash(_, _, _)

Seqs == INSTANCE SequencesExt

\* The gates of GarbledCircuit under an offset and a key.
Under(delta, key) == INSTANCE GarbledCircuit WITH
    MaxGates <- 1, MaxOther <- 0, MaxWidth <- 1,
    gates <- <<>>, groups <- <<>>, constWire <- <<>>, nonfree <- 0, other <- {},
    ins <- <<>>, map <- <<>>, adding <- FALSE,
    stage <- "", value <- <<>>, w0 <- <<>>, tables <- <<>>, labels <- <<>>, used <- 0

\* The gates of c of one kind before wire n.
Before(c, op, n) == {m \in DOMAIN c.gates : m < n /\ c.gates[m].op = op}

\* The entries of the tables before those of gate n.
Rows(c, n) == 2 * Cardinality(Before(c, "And", n)) + Cardinality(Before(c, "Constant", n))

\* num_nonfree_gates and num_constant_gates: the length of the tables.
Complen(c) == Rows(c, Len(c.gates) + 1)

\* What the labels drawn in garbling c are: one per constant.
Constants(c) == Cardinality(Before(c, "Constant", Len(c.gates) + 1))

-----------------------------------------------------------------------------
(* Values of the wires of a circuit, gate after gate: Gate(w, n) is the one *)
(* of wire n when w are those of the wires before it.                       *)

Wires(c, Gate(_, _)) ==
    LET upto[n \in 0..Len(c.gates)] ==
          IF n = 0 THEN <<>> ELSE LET w == upto[n - 1] IN Append(w, Gate(w, n))
    IN  upto[Len(c.gates)]

\* garble_functionality: the FALSE-label of every wire.
FLabels(c, in, delta, key, r) ==
    LET Gate(w, n) ==
          LET g == c.gates[n] IN
          CASE g.op = "Input"    -> in[g.x][g.y]
            [] g.op = "Constant" -> r[Cardinality(Before(c, "Constant", n)) + 1] \cup {Lsb}
            [] g.op = "Xor"      -> w[g.x] \oplus w[g.y]
            [] g.op = "And"      -> Under(delta, key)!AndLabel(w[g.x], w[g.y], n - 1)
            [] g.op = "Inv"      -> w[g.x] \oplus delta
    IN  Wires(c, Gate)

\* The tables it sends for those labels.
Tables(c, w, delta, key) ==
    LET rows(n) ==
          LET g == c.gates[n] IN
          CASE g.op = "Constant" -> <<w[n] \oplus If(g.x, delta)>>
            [] g.op = "And"      -> <<Under(delta, key)!Table0(w[g.x], w[g.y], n - 1),
                                      Under(delta, key)!Table1(w[g.x], w[g.y], n - 1)>>
            [] OTHER             -> <<>>
    IN  Seqs!FlattenSeq([n \in DOMAIN c.gates |-> rows(n)])

\* evaluate_functionality: the evaluator's label of every wire.
Labels(c, in, fs, key) ==
    LET Gate(e, n) ==
          LET g == c.gates[n]
              f == Rows(c, n)
          IN
          CASE g.op = "Input"    -> in[g.x][g.y]
            [] g.op = "Constant" -> fs[f + 1]
            [] g.op = "Xor"      -> e[g.x] \oplus e[g.y]
            [] g.op = "And"      -> Under({}, key)!OpenedAnd(e[g.x], e[g.y], fs[f + 1], fs[f + 2], n - 1)
            [] g.op = "Inv"      -> e[g.x]
    IN  Wires(c, Gate)

\* BinaryCircuit::evaluate: the value of every wire.
Values(c, in) ==
    LET Gate(v, n) ==
          LET g == c.gates[n] IN
          CASE g.op = "Input"    -> in[g.x][g.y]
            [] g.op = "Constant" -> g.x
            [] g.op = "Xor"      -> Flip(v[g.x], v[g.y])
            [] g.op = "And"      -> v[g.x] * v[g.y]
            [] g.op = "Inv"      -> 1 - v[g.x]
    IN  Wires(c, Gate)

\* The wires a function returns of those it has computed.
Outputs(c, w) == [k \in DOMAIN c.outs |-> w[c.outs[k]]]

=============================================================================
