--------------------------- MODULE GarbledCircuit ---------------------------
(***************************************************************************)
(* Half-gate garbling (functionality/garble.rs), evaluation of a garbled   *)
(* circuit (functionality/evaluate.rs) and decoding of an output label     *)
(* (functionality/output.rs), over a circuit from CircuitBuilder.  Each    *)
(* step of Garble and Evaluate is one iteration of the loop over gates.    *)
(*                                                                         *)
(* The hash is arbitrary.  Both garblers run the same                      *)
(* function on the same setup (GarblersAgree of DerivationSession): one    *)
(* stands for both.  Wires count from 1, the loop index i of the code is   *)
(* wire - 1.                                                               *)
(***************************************************************************)
EXTENDS CircuitBuilder, Blocks

CONSTANTS
    GarbleKeys,     \* garble keys
    Hash(_, _, _)   \* tccr_hash under a key, of a block and a tweak

ASSUME HashAssumption ==
    \A k \in GarbleKeys, x \in Block, t \in 0..(2 * MaxGates - 1) : Hash(k, x, t) \in Block

VARIABLES
    stage,    \* "build", "garble", "evaluate", "done", "error" (InvalidLength)
    value,    \* the plaintext value of every wire
    delta,    \* the offset between the two labels of every wire
    key,      \* the garble key
    w0,       \* garble: f_label of the wires so far (w)
    tables,   \* garble: f
    labels,   \* evaluate: label of the wires so far (w)
    used      \* evaluate: f_index

gvars == <<stage, value, delta, key, w0, tables, labels, used>>
vars  == <<gates, groups, constWire, nonfree, other, ins, map, adding,
           stage, value, delta, key, w0, tables, labels, used>>

-----------------------------------------------------------------------------
(* Labels.                                                                 *)

\* label_matches_wire: label is one of the two labels of a wire.
Matches(label, f) == label = f \/ label = f \oplus delta

\* The bit that the garblers read from the label of an output wire.
Decode(label, f) == IF lsb(label) = lsb(f) THEN 0 ELSE 1

-----------------------------------------------------------------------------

GInit ==
    /\ Init
    /\ stage = "build"
    /\ value = <<>> /\ delta = {} /\ key = {}
    /\ w0 = <<>> /\ tables = <<>> /\ labels = <<>> /\ used = 0

\* Faulty: the lowest bit of the offset is left as it was drawn.
OffsetAny(b) == b

\* garbler_delta_and_prf: the two labels of a wire differ in the lowest bit.
Offset(b) == b \cup {Lsb}

\* The parties agree on a finished circuit and a setup; v are the inputs.
Setup ==
    /\ stage = "build" /\ ~adding
    /\ gates # <<>>
    /\ stage' = "garble"
    /\ value' \in Valuations(gates)
    /\ \E b \in Block : delta' = Offset(b)
    /\ key' \in GarbleKeys
    /\ UNCHANGED <<bvars, w0, tables, labels, used>>

-----------------------------------------------------------------------------
(* garble_functionality.                                                   *)

\* The two half gates of an And gate on wires with FALSE-labels x and y at
\* loop index i: their table entries and the output wire's FALSE-label.
Half0(x, i) == Hash(key, x, 2 * i) \oplus Hash(key, x \oplus delta, 2 * i)
Half1(y, i) == Hash(key, y, 2 * i + 1) \oplus Hash(key, y \oplus delta, 2 * i + 1)

Table0(x, y, i) == Half0(x, i) \oplus If(lsb(y), delta)
Table1(x, y, i) == Half1(y, i) \oplus x

\* Faulty: the offset is xored in when just one label has its lowest bit set.
AndLabelEither(x, y, i) ==
    (Hash(key, IF lsb(x) = 1 THEN x \oplus delta ELSE x, 2 * i)
       \oplus Hash(key, IF lsb(y) = 1 THEN y \oplus delta ELSE y, 2 * i + 1))
      \oplus If(lsb(x) + lsb(y), delta)

AndLabel(x, y, i) ==
    (Hash(key, IF lsb(x) = 1 THEN x \oplus delta ELSE x, 2 * i)
       \oplus Hash(key, IF lsb(y) = 1 THEN y \oplus delta ELSE y, 2 * i + 1))
      \oplus If(lsb(x) * lsb(y), delta)

\* Label f for the next wire, and what it adds to the tables.
Garbled(f, rows) == w0' = Append(w0, f) /\ tables' = tables \o rows

\* The gate a loop that has handled the wires of ws comes to next.
At(ws, op) == Len(ws) < Len(gates) /\ gates[Len(ws) + 1].op = op

GarbleInput ==
    /\ At(w0, "Input")
    /\ \E f \in Block : Garbled(f, <<>>)

\* A label drawn from the stream, its lowest bit set.
GarbleConstant ==
    /\ At(w0, "Constant")
    /\ \E b \in Block : LET f == b \cup {Lsb} IN
         Garbled(f, <<f \oplus If(gates[Len(w0) + 1].x, delta)>>)

GarbleXor ==
    /\ At(w0, "Xor")
    /\ LET g == gates[Len(w0) + 1] IN Garbled(w0[g.x] \oplus w0[g.y], <<>>)

GarbleAnd ==
    /\ At(w0, "And")
    /\ LET g == gates[Len(w0) + 1]
           x == w0[g.x]
           y == w0[g.y]
           i == Len(w0)
       IN  Garbled(AndLabel(x, y, i), <<Table0(x, y, i), Table1(x, y, i)>>)

GarbleInv ==
    /\ At(w0, "Inv")
    /\ LET g == gates[Len(w0) + 1] IN Garbled(w0[g.x] \oplus delta, <<>>)

Garble ==
    /\ stage = "garble"
    /\ GarbleInput \/ GarbleConstant \/ GarbleXor \/ GarbleAnd \/ GarbleInv
    /\ UNCHANGED <<bvars, stage, value, delta, key, labels, used>>

-----------------------------------------------------------------------------
(* evaluate_functionality.                                                 *)

\* The length of one circuit's part in a vector of garbled tables.
Complen == 2 * nonfree + NumConstants(constWire)

\* The evaluator takes this circuit's part of what it received (a part that is
\* not there is an InvalidLength).
Receive ==
    /\ stage = "garble" /\ Len(w0) = Len(gates)
    /\ stage' = IF Len(tables) < Complen THEN "error" ELSE "evaluate"
    /\ UNCHANGED <<bvars, value, delta, key, w0, tables, labels, used>>

\* f.get(f_index) finds n more entries in the part.
Has(n) == used + n <= Complen

Evaluated(label, n) == labels' = Append(labels, label) /\ used' = used + n /\ UNCHANGED stage

Short == stage' = "error" /\ UNCHANGED <<labels, used>>

\* The label the input phase gave the evaluator for its wire's value.
EvaluateInput ==
    /\ At(labels, "Input")
    /\ LET i == Len(labels) + 1 IN Evaluated(w0[i] \oplus If(value[i], delta), 0)

EvaluateConstant ==
    /\ At(labels, "Constant")
    /\ IF Has(1) THEN Evaluated(tables[used + 1], 1) ELSE Short

EvaluateXor ==
    /\ At(labels, "Xor")
    /\ LET g == gates[Len(labels) + 1] IN Evaluated(labels[g.x] \oplus labels[g.y], 0)

\* Both half gates, each opened with the label its lowest bit points to.
OpenedAnd(x, y, g0, g1, i) ==
    (Hash(key, x, 2 * i) \oplus Hash(key, y, 2 * i + 1))
      \oplus (If(lsb(x), g0) \oplus If(lsb(y), x \oplus g1))

EvaluateAnd ==
    /\ At(labels, "And")
    /\ LET g == gates[Len(labels) + 1]
           i == Len(labels)
       IN  IF Has(2)
           THEN Evaluated(OpenedAnd(labels[g.x], labels[g.y],
                                    tables[used + 1], tables[used + 2], i), 2)
           ELSE Short

\* An inverter swaps the wire's two labels: the evaluator passes its label on.
EvaluateInv ==
    /\ At(labels, "Inv")
    /\ LET g == gates[Len(labels) + 1] IN Evaluated(labels[g.x], 0)

Evaluate ==
    /\ stage = "evaluate"
    /\ EvaluateInput \/ EvaluateConstant \/ EvaluateXor \/ EvaluateAnd \/ EvaluateInv
    /\ UNCHANGED <<bvars, value, delta, key, w0, tables>>

Finished ==
    /\ stage = "evaluate" /\ Len(labels) = Len(gates)
    /\ stage' = "done"
    /\ UNCHANGED <<bvars, value, delta, key, w0, tables, labels, used>>

-----------------------------------------------------------------------------

Construct == stage = "build" /\ Next /\ UNCHANGED gvars

GNext == Construct \/ Setup \/ Garble \/ Receive \/ Evaluate \/ Finished

GSpec == GInit /\ [][GNext]_vars

-----------------------------------------------------------------------------
(* Properties.                                                             *)

GTypeOK ==
    /\ stage \in {"build", "garble", "evaluate", "done", "error"}
    /\ delta \in Block /\ w0 \in Seq(Block) /\ tables \in Seq(Block) /\ labels \in Seq(Block)
    /\ used \in Nat

\* Every label the evaluator computes is the one of the two labels the garblers
\* gave that wire which stands for its plaintext value, for every circuit,
\* every hash, every offset and every setting of the lowest bits.
LabelsMatch ==
    \A i \in DOMAIN labels : labels[i] = w0[i] \oplus If(value[i], delta)

\* The bit the garblers decode from a label of the evaluator is the wire's
\* plaintext value, and the check against forged labels lets it through.
DecodesRight ==
    stage = "done" => \A i \in DOMAIN gates :
        Matches(labels[i], w0[i]) /\ Decode(labels[i], w0[i]) = value[i]

\* The length the evaluator cuts the tables by is what garbling this circuit
\* produced and what evaluating it consumes: no evaluation runs out of tables
\* or into those of the next circuit, and none stops before the last wire.
TablesFit ==
    /\ stage # "error"
    /\ stage = "evaluate" => Len(tables) = Complen
    /\ stage = "done" => used = Complen

=============================================================================
