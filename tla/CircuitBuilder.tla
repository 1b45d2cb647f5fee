--------------------------- MODULE CircuitBuilder ---------------------------
(***************************************************************************)
(* CircuitBuilder of src/circuit.rs: wires are allocated and gates         *)
(* appended one call at a time, constants are cached, and a finished       *)
(* circuit can be copied into another one under construction (add_circuit, *)
(* here one step per gate of its loop).                                    *)
(*                                                                         *)
(* get_next_ref_id is called exactly once for every gate pushed, so gate i *)
(* drives wire i: a wire is named by the position of its gate, from 1 on   *)
(* (the code counts from 0).  `id` of an And gate is written only, and     *)
(* output_gate_ids is a choice among the wires: both are left out.         *)
(***************************************************************************)
EXTENDS Naturals, Sequences

CONSTANTS
    MaxGates,   \* most gates of the circuit under construction
    MaxOther,   \* most gates of the circuit that is copied (0: none)
    MaxWidth    \* widest input group

ASSUME CircuitBounds ==
    MaxGates \in Nat \ {0} /\ MaxOther \in Nat /\ MaxWidth \in Nat \ {0}

VARIABLES
    gates,      \* gates in the order they were appended
    groups,     \* input_gate_ids: the width of every input group
    constWire,  \* false_wire and true_wire by their bit: 0 stands for None
    nonfree,    \* num_nonfree_gates
    other,      \* the finished circuits: none or one
    ins,        \* input_ids of the add_circuit that runs
    map,        \* its old_to_new_map, up to the gate it has come to
    adding      \* an add_circuit runs

builder == <<gates, groups, constWire, nonfree>>
embed   == <<ins, map, adding>>
bvars   == <<gates, groups, constWire, nonfree, other, ins, map, adding>>

-----------------------------------------------------------------------------
(* Gates and circuits.                                                     *)

Bit == {0, 1}

Gate == [op : {"Input", "Constant", "Xor", "And", "Inv"}, x : Nat, y : Nat]

Input(no, id) == [op |-> "Input", x |-> no, y |-> id]
Constant(val) == [op |-> "Constant", x |-> val, y |-> 0]
Xor(xid, yid) == [op |-> "Xor", x |-> xid, y |-> yid]
And(xid, yid) == [op |-> "And", x |-> xid, y |-> yid]
Inv(xid)      == [op |-> "Inv", x |-> xid, y |-> 0]

\* The wires gate g reads.
Operands(g) == CASE g.op \in {"Xor", "And"} -> {g.x, g.y}
                 [] g.op = "Inv" -> {g.x}
                 [] OTHER -> {}

\* num_constant_gates: the constants a circuit remembers, not those it has.
NumConstants(cw) == (IF cw[0] # 0 THEN 1 ELSE 0) + (IF cw[1] # 0 THEN 1 ELSE 0)

\* BinaryCircuit::evaluate: the value of gate g when the wires carry v.
Value(g, v) == CASE g.op = "Constant" -> g.x
                 [] g.op = "Xor" -> IF v[g.x] = v[g.y] THEN 0 ELSE 1
                 [] g.op = "And" -> IF v[g.x] = 1 /\ v[g.y] = 1 THEN 1 ELSE 0
                 [] g.op = "Inv" -> 1 - v[g.x]

\* The values the wires of a circuit can carry: every wire is written once, so
\* what the loop of evaluate computes from some input is a solution of its
\* gates' equations.
Valuation(gs, v) == \A i \in DOMAIN gs : gs[i].op # "Input" => v[i] = Value(gs[i], v)

Valuations(gs) == {v \in [DOMAIN gs -> Bit] : Valuation(gs, v)}

-----------------------------------------------------------------------------

NoConst == [val \in Bit |-> 0]

Init ==
    /\ gates = <<>> /\ groups = <<>> /\ constWire = NoConst /\ nonfree = 0
    /\ other = {}
    /\ ins = <<>> /\ map = <<>> /\ adding = FALSE

Room(n) == Len(gates) + n <= MaxGates

\* The wire the next gate drives (get_next_ref_id).
NextWire == Len(gates) + 1

\* new_input and new_inputs: a group of n wires.
NewInputs(n) ==
    /\ Room(n)
    /\ gates' = gates \o [i \in 1..n |-> Input(Len(groups) + 1, i)]
    /\ groups' = Append(groups, n)
    /\ UNCHANGED <<constWire, nonfree>>

AddXor(xid, yid) ==
    /\ Room(1)
    /\ gates' = Append(gates, Xor(xid, yid))
    /\ UNCHANGED <<groups, constWire, nonfree>>

Negate(xid) ==
    /\ Room(1)
    /\ gates' = Append(gates, Inv(xid))
    /\ UNCHANGED <<groups, constWire, nonfree>>

AddAnd(xid, yid) ==
    /\ Room(1)
    /\ gates' = Append(gates, And(xid, yid))
    /\ nonfree' = nonfree + 1
    /\ UNCHANGED <<groups, constWire>>

\* Faulty: a constant that exists already is appended again.
AddConstantAgain(val) ==
    /\ Room(1)
    /\ gates' = Append(gates, Constant(val))
    /\ constWire' = [constWire EXCEPT ![val] = NextWire]
    /\ UNCHANGED <<groups, nonfree>>

\* constant: the cached wire, if there is one.
AddConstant(val) ==
    IF constWire[val] # 0 THEN UNCHANGED builder
    ELSE /\ Room(1)
         /\ gates' = Append(gates, Constant(val))
         /\ constWire' = [constWire EXCEPT ![val] = NextWire]
         /\ UNCHANGED <<groups, nonfree>>

\* finish: the circuit is handed out, and a new builder started.
Finish ==
    /\ ~adding /\ other = {}
    /\ Len(gates) \in 1..MaxOther
    /\ other' = {[gates |-> gates, groups |-> groups]}
    /\ gates' = <<>> /\ groups' = <<>> /\ constWire' = NoConst /\ nonfree' = 0
    /\ UNCHANGED embed

-----------------------------------------------------------------------------
(* add_circuit.                                                            *)

InputIds(c) == {<<no, id>> : no \in DOMAIN c.groups, id \in 1..MaxWidth}

\* The assertions on the shape of input_ids hold: one wire for every input.
BeginAddCircuit ==
    /\ ~adding
    /\ \E c \in other : \E f \in [{u \in InputIds(c) : u[2] <= c.groups[u[1]]} -> DOMAIN gates] :
         ins' = f
    /\ map' = <<>> /\ adding' = TRUE
    /\ UNCHANGED <<builder, other>>

\* Faulty: the operands are those of the other circuit, not of the map.
CopyGateUnmapped(g) ==
    \/ g.op = "Xor" /\ AddXor(map[g.x], g.y) /\ map' = Append(map, NextWire)
    \/ g.op = "And" /\ AddAnd(map[g.x], map[g.y]) /\ map' = Append(map, NextWire)
    \/ g.op = "Inv" /\ Negate(map[g.x]) /\ map' = Append(map, NextWire)
    \/ g.op = "Input" /\ UNCHANGED builder /\ map' = Append(map, ins[<<g.x, g.y>>])
    \/ g.op = "Constant" /\ AddConstant(g.x) /\ map' = Append(map, constWire'[g.x])

\* One gate of the other circuit: a gate of this one with its operands mapped,
\* the wire given for an input, or the cached constant.
CopyGate(g) ==
    \/ g.op = "Xor" /\ AddXor(map[g.x], map[g.y]) /\ map' = Append(map, NextWire)
    \/ g.op = "And" /\ AddAnd(map[g.x], map[g.y]) /\ map' = Append(map, NextWire)
    \/ g.op = "Inv" /\ Negate(map[g.x]) /\ map' = Append(map, NextWire)
    \/ g.op = "Input" /\ UNCHANGED builder /\ map' = Append(map, ins[<<g.x, g.y>>])
    \/ g.op = "Constant" /\ AddConstant(g.x) /\ map' = Append(map, constWire'[g.x])

EmbedGate ==
    /\ adding
    /\ \E c \in other : Len(map) < Len(c.gates) /\ CopyGate(c.gates[Len(map) + 1])
    /\ UNCHANGED <<other, ins, adding>>

\* The wires of the other circuit's outputs are returned.
EndAddCircuit ==
    /\ adding
    /\ \E c \in other : Len(map) = Len(c.gates)
    /\ ins' = <<>> /\ map' = <<>> /\ adding' = FALSE
    /\ UNCHANGED <<builder, other>>

-----------------------------------------------------------------------------

Build ==
    /\ ~adding
    /\ \/ \E n \in 1..MaxWidth : NewInputs(n)
       \/ \E xid, yid \in DOMAIN gates : AddXor(xid, yid) \/ AddAnd(xid, yid)
       \/ \E xid \in DOMAIN gates : Negate(xid)
       \/ \E val \in Bit : AddConstant(val)
    /\ UNCHANGED <<other, embed>>

Next == Build \/ Finish \/ BeginAddCircuit \/ EmbedGate \/ EndAddCircuit

Spec == Init /\ [][Next]_bvars

-----------------------------------------------------------------------------
(* Properties.                                                             *)

\* A gate reads only wires driven by earlier gates: one pass over the gates in
\* order (evaluate, garble, the copy of add_circuit) never reads a wire that
\* has not been written, which the code would silently take for 0.
Topological(gs) == \A i \in DOMAIN gs : Operands(gs[i]) \subseteq 1..(i - 1)

\* The wires a constant is remembered under are the gates of that constant and
\* the only ones, so num_constant_gates is what garbling will push for them.
ConstantsOnce ==
    /\ \A val \in Bit : constWire[val] # 0 =>
         constWire[val] \in DOMAIN gates /\ gates[constWire[val]] = Constant(val)
    /\ \A i \in DOMAIN gates : gates[i].op = "Constant" =>
         gates[i].x \in Bit /\ i = constWire[gates[i].x]

\* A circuit is in topological order and remembers its constants at any point
\* of its construction, also while another circuit is copied into it, and the
\* copied one was finished so.
CircuitOK ==
    /\ gates \in Seq(Gate)
    /\ Topological(gates)
    /\ ConstantsOnce
    /\ \A c \in other : c.gates \in Seq(Gate) /\ Topological(c.gates)

\* Whatever values this circuit's wires carry, the wires that a copied circuit
\* has been mapped to carry a valuation of it: the copy computes what the
\* original does, though it shares constants with its surroundings.
CopySound ==
    \A c \in other : adding => \A v \in Valuations(gates) :
        \A j \in DOMAIN map :
            IF c.gates[j].op = "Input" THEN map[j] = ins[<<c.gates[j].x, c.gates[j].y>>]
            ELSE v[map[j]] = Value(c.gates[j], [k \in DOMAIN map |-> v[map[k]]])

=============================================================================
