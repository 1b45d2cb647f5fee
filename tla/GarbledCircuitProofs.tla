------------------------ MODULE GarbledCircuitProofs ------------------------
(***************************************************************************)
(* Proofs about CircuitBuilder and GarbledCircuit.                         *)
(*                                                                         *)
(* The builder: circuits are in topological order with their constants     *)
(* remembered, and a copied circuit computes what the original does.  The  *)
(* second is not inductive as stated: it quantifies over valuations, which *)
(* tell nothing about how the copy was made.  The invariant says it of the *)
(* gates themselves (Copied).                                              *)
(*                                                                         *)
(* Garbling: for every circuit a builder can make, every hash, offset and  *)
(* label, the evaluator ends with the label of the plaintext value of every*)
(* wire, the garblers decode it, and the tables have the length that is cut*)
(* out and used.  Prefix sums (row, Counted) are witnesses of an           *)
(* existential that grow with the sequence they count, so no induction over*)
(* the circuit is needed: that of the invariant over steps does it.        *)
(***************************************************************************)
EXTENDS GarbledCircuit, SequenceTheorems, TLAPS

-----------------------------------------------------------------------------
(* The builder.                                                            *)

\* Every input gate names a position of a group.
InputsNamed(gs, grs) ==
    \A i \in DOMAIN gs : gs[i].op = "Input" =>
        gs[i].x \in DOMAIN grs /\ gs[i].y \in 1..grs[gs[i].x]

ConstantBits(gs) == \A i \in DOMAIN gs : gs[i].op = "Constant" => gs[i].x \in Bit

Wired(gs, grs) ==
    /\ gs \in Seq(Gate) /\ grs \in Seq(1..MaxWidth)
    /\ Topological(gs) /\ InputsNamed(gs, grs) /\ ConstantBits(gs)

GraphInv ==
    /\ Wired(gates, groups)
    /\ constWire \in [Bit -> Nat]
    /\ ConstantsOnce

OtherInv ==
    /\ \A c \in other : Wired(c.gates, c.groups)
    /\ \A c, d \in other : c = d

LEMMA OperandsOf ==
    ASSUME NEW g \in Gate
    PROVE  /\ g.op \in {"Xor", "And"} => Operands(g) = {g.x, g.y}
           /\ g.op = "Inv" => Operands(g) = {g.x}
           /\ g.op \in {"Input", "Constant"} => Operands(g) = {}
  BY DEF Operands, Gate

\* The gate of this circuit at w is the copy of gate g of the other one.
Copied(g, w) ==
    /\ g.op = "Xor" => gates[w] = Xor(map[g.x], map[g.y])
    /\ g.op = "And" => gates[w] = And(map[g.x], map[g.y])
    /\ g.op = "Inv" => gates[w] = Inv(map[g.x])
    /\ g.op = "Constant" => gates[w] = Constant(g.x)
    /\ g.op = "Input" => w = ins[<<g.x, g.y>>]

CopyInv ==
    /\ adding \in BOOLEAN
    /\ adding => \A c \in other :
         /\ map \in Seq(Nat) /\ Len(map) <= Len(c.gates)
         /\ \A j \in DOMAIN map : map[j] \in DOMAIN gates /\ Copied(c.gates[j], map[j])
         /\ \A j \in DOMAIN c.gates : c.gates[j].op = "Input" =>
              ins[<<c.gates[j].x, c.gates[j].y>>] \in DOMAIN gates

BuilderInv == GraphInv /\ OtherInv /\ CopyInv

-----------------------------------------------------------------------------
(* One more gate.                                                          *)

\* This circuit keeps the gates it has.
Grows == \A i \in DOMAIN gates : i \in DOMAIN gates' /\ gates'[i] = gates[i]

LEMMA PushedGate ==
    ASSUME gates \in Seq(Gate), NEW g \in Gate, gates' = Append(gates, g)
    PROVE  /\ gates' \in Seq(Gate)
           /\ DOMAIN gates = 1..Len(gates)
           /\ Len(gates) \in Nat
           /\ DOMAIN gates' = 1..NextWire
           /\ gates'[NextWire] = g
           /\ Grows
  BY DEF NextWire, Grows

LEMMA PushedIsWired ==
    ASSUME Wired(gates, groups), NEW g \in Gate, gates' = Append(gates, g),
           groups' = groups, g.op # "Input", Operands(g) \subseteq DOMAIN gates,
           g.op = "Constant" => g.x \in Bit
    PROVE  Wired(gates, groups)' /\ Grows
<1>1. gates \in Seq(Gate) BY DEF Wired
<1>2. /\ gates' \in Seq(Gate)
      /\ DOMAIN gates = 1..Len(gates)
      /\ Len(gates) \in Nat
      /\ DOMAIN gates' = 1..NextWire
      /\ gates'[NextWire] = g
      /\ Grows
  BY <1>1, PushedGate
<1>3. \A i \in DOMAIN gates' : i \in DOMAIN gates \/ i = Len(gates) + 1
  BY <1>2 DEF NextWire
<1>4. Topological(gates')
  <2> SUFFICES ASSUME NEW i \in DOMAIN gates' PROVE Operands(gates'[i]) \subseteq 1..(i - 1)
    BY DEF Topological
  <2>1. CASE i \in DOMAIN gates
    BY <2>1, <1>2 DEF Wired, Topological, Grows
  <2>2. CASE i = Len(gates) + 1
    BY <2>2, <1>2 DEF NextWire
  <2> QED BY <2>1, <2>2, <1>3
<1>5. InputsNamed(gates', groups') /\ ConstantBits(gates')
  BY <1>2, <1>3 DEF InputsNamed, ConstantBits, Wired, Grows, NextWire
<1> QED BY <1>2, <1>4, <1>5 DEF Wired

\* A gate that is not a constant leaves the constants where they are.
LEMMA PushedKeepsConstants ==
    ASSUME GraphInv, NEW g \in Gate, gates' = Append(gates, g), constWire' = constWire,
           g.op # "Constant"
    PROVE  ConstantsOnce'
<1>1. gates \in Seq(Gate) BY DEF GraphInv, Wired
<1>2. /\ DOMAIN gates = 1..Len(gates)
      /\ Len(gates) \in Nat
      /\ DOMAIN gates' = 1..NextWire
      /\ gates'[NextWire] = g
      /\ Grows
  BY <1>1, PushedGate
<1> QED BY <1>2 DEF GraphInv, ConstantsOnce, Grows, NextWire

LEMMA AddXorGraph ==
    ASSUME GraphInv, NEW xid \in DOMAIN gates, NEW yid \in DOMAIN gates, AddXor(xid, yid)
    PROVE  GraphInv' /\ Grows /\ gates' = Append(gates, Xor(xid, yid)) /\ NextWire \in DOMAIN gates'
<1>1. Xor(xid, yid) \in Gate /\ Operands(Xor(xid, yid)) \subseteq DOMAIN gates
  BY DEF Xor, Gate, Operands, GraphInv, Wired
<1>2. Xor(xid, yid).op = "Xor" BY DEF Xor
<1>3. Wired(gates, groups)' /\ Grows
  BY <1>1, <1>2, PushedIsWired DEF AddXor, GraphInv
<1>4. ConstantsOnce'
  BY <1>1, <1>2, PushedKeepsConstants DEF AddXor
<1>5. NextWire \in DOMAIN gates'
  BY <1>1, PushedGate DEF AddXor, GraphInv, Wired, NextWire
<1> QED BY <1>3, <1>4, <1>5 DEF AddXor, GraphInv

LEMMA AddAndGraph ==
    ASSUME GraphInv, NEW xid \in DOMAIN gates, NEW yid \in DOMAIN gates, AddAnd(xid, yid)
    PROVE  GraphInv' /\ Grows /\ gates' = Append(gates, And(xid, yid)) /\ NextWire \in DOMAIN gates'
<1>1. And(xid, yid) \in Gate /\ Operands(And(xid, yid)) \subseteq DOMAIN gates
  BY DEF And, Gate, Operands, GraphInv, Wired
<1>2. And(xid, yid).op = "And" BY DEF And
<1>3. Wired(gates, groups)' /\ Grows
  BY <1>1, <1>2, PushedIsWired DEF AddAnd, GraphInv
<1>4. ConstantsOnce'
  BY <1>1, <1>2, PushedKeepsConstants DEF AddAnd
<1>5. NextWire \in DOMAIN gates'
  BY <1>1, PushedGate DEF AddAnd, GraphInv, Wired, NextWire
<1> QED BY <1>3, <1>4, <1>5 DEF AddAnd, GraphInv

LEMMA NegateGraph ==
    ASSUME GraphInv, NEW xid \in DOMAIN gates, Negate(xid)
    PROVE  GraphInv' /\ Grows /\ gates' = Append(gates, Inv(xid)) /\ NextWire \in DOMAIN gates'
<1>1. Inv(xid) \in Gate /\ Operands(Inv(xid)) \subseteq DOMAIN gates
  BY DEF Inv, Gate, Operands, GraphInv, Wired
<1>2. Inv(xid).op = "Inv" BY DEF Inv
<1>3. Wired(gates, groups)' /\ Grows
  BY <1>1, <1>2, PushedIsWired DEF Negate, GraphInv
<1>4. ConstantsOnce'
  BY <1>1, <1>2, PushedKeepsConstants DEF Negate
<1>5. NextWire \in DOMAIN gates'
  BY <1>1, PushedGate DEF Negate, GraphInv, Wired, NextWire
<1> QED BY <1>3, <1>4, <1>5 DEF Negate, GraphInv

\* The wire that AddConstant answers with carries the constant.
LEMMA AddConstantGraph ==
    ASSUME GraphInv, NEW val \in Bit, AddConstant(val)
    PROVE  /\ GraphInv' /\ Grows
           /\ constWire'[val] \in DOMAIN gates' /\ gates'[constWire'[val]] = Constant(val)
<1>1. CASE constWire[val] # 0
  BY <1>1 DEF AddConstant, builder, GraphInv, ConstantsOnce, Grows, Wired, Topological,
              InputsNamed, ConstantBits
<1>2. CASE constWire[val] = 0
  <2>1. Constant(val) \in Gate /\ Operands(Constant(val)) \subseteq DOMAIN gates
        /\ Constant(val).op = "Constant" /\ Constant(val).x = val
    BY DEF Constant, Gate, Operands, Bit
  <2>2. gates' = Append(gates, Constant(val)) /\ constWire' = [constWire EXCEPT ![val] = NextWire]
        /\ groups' = groups
    BY <1>2 DEF AddConstant
  <2>3. Wired(gates, groups)' /\ Grows
    BY <2>1, <2>2, PushedIsWired DEF GraphInv
  <2>4. /\ DOMAIN gates = 1..Len(gates)
        /\ Len(gates) \in Nat
        /\ DOMAIN gates' = 1..NextWire
        /\ gates'[NextWire] = Constant(val)
    BY <2>1, <2>2, PushedGate DEF GraphInv, Wired
  <2>5. constWire' \in [Bit -> Nat] /\ constWire'[val] = NextWire
        /\ \A b \in Bit : b # val => constWire'[b] = constWire[b]
    BY <2>2, <2>4 DEF GraphInv, NextWire
  <2>6. \A b \in Bit : constWire'[b] # 0 =>
            constWire'[b] \in DOMAIN gates' /\ gates'[constWire'[b]] = Constant(b)
    <3> SUFFICES ASSUME NEW b \in Bit, constWire'[b] # 0
                 PROVE  constWire'[b] \in DOMAIN gates' /\ gates'[constWire'[b]] = Constant(b)
      OBVIOUS
    <3>1. CASE b = val BY <3>1, <2>4, <2>5 DEF NextWire
    <3>2. CASE b # val BY <3>2, <2>3, <2>4, <2>5 DEF GraphInv, ConstantsOnce, Grows
    <3> QED BY <3>1, <3>2
  <2>7. \A i \in DOMAIN gates' : gates'[i].op = "Constant" =>
            gates'[i].x \in Bit /\ i = constWire'[gates'[i].x]
    <3> SUFFICES ASSUME NEW i \in DOMAIN gates', gates'[i].op = "Constant"
                 PROVE  gates'[i].x \in Bit /\ i = constWire'[gates'[i].x]
      OBVIOUS
    <3>1. CASE i = NextWire BY <3>1, <2>1, <2>4, <2>5
    <3>2. CASE i # NextWire
      <4>1. i \in DOMAIN gates /\ gates'[i] = gates[i]
        BY <3>2, <2>3, <2>4 DEF Grows, NextWire
      <4>2. gates[i].x \in Bit /\ i = constWire[gates[i].x]
        BY <4>1 DEF GraphInv, ConstantsOnce
      <4>3. gates[i].x # val
        BY <4>1, <4>2, <1>2, <2>4
      <4> QED BY <4>1, <4>2, <4>3, <2>5
    <3> QED BY <3>1, <3>2
  <2>8. ConstantsOnce' BY <2>6, <2>7 DEF ConstantsOnce
  <2> QED BY <2>3, <2>4, <2>5, <2>8 DEF GraphInv, NextWire
<1> QED BY <1>1, <1>2

\* A new group of inputs.
LEMMA NewInputsGraph ==
    ASSUME GraphInv, NEW n \in 1..MaxWidth, NewInputs(n)
    PROVE  GraphInv' /\ Grows
<1> DEFINE new == [i \in 1..n |-> Input(Len(groups) + 1, i)]
<1>1. gates \in Seq(Gate) /\ groups \in Seq(1..MaxWidth) /\ n \in Nat
  BY CircuitBounds DEF GraphInv, Wired
<1>2. Len(groups) + 1 \in Nat /\ Len(gates) \in Nat
  BY <1>1
<1>3. \A i \in 1..n : /\ Input(Len(groups) + 1, i) \in Gate
                      /\ Input(Len(groups) + 1, i).op = "Input"
                      /\ Input(Len(groups) + 1, i).x = Len(groups) + 1
                      /\ Input(Len(groups) + 1, i).y = i
  BY <1>1, <1>2 DEF Input, Gate
<1>4. new \in Seq(Gate) /\ Len(new) = n
  BY <1>1, <1>3
<1>5. gates' = gates \o new /\ groups' = Append(groups, n) /\ constWire' = constWire
  BY DEF NewInputs
<1> HIDE DEF new
<1>5a. /\ gates' \in Seq(Gate) /\ Len(gates') = Len(gates) + Len(new)
      /\ \A i \in 1..Len(gates') :
            gates'[i] = IF i <= Len(gates) THEN gates[i] ELSE new[i - Len(gates)]
  <2>1. /\ gates \o new \in Seq(Gate) /\ Len(gates \o new) = Len(gates) + Len(new)
        /\ \A i \in 1..(Len(gates) + Len(new)) : (gates \o new)[i] =
              IF i <= Len(gates) THEN gates[i] ELSE new[i - Len(gates)]
    BY <1>1, <1>4, ConcatProperties
  <2> QED BY <2>1, <1>5
<1>6. gates' \in Seq(Gate) /\ DOMAIN gates = 1..Len(gates) /\ DOMAIN gates' = 1..(Len(gates) + n)
  BY <1>1, <1>2, <1>4, <1>5a
<1>7. /\ \A i \in 1..Len(gates) : gates'[i] = gates[i]
      /\ \A i \in 1..n : gates'[Len(gates) + i] = new[i]
  BY <1>1, <1>2, <1>4, <1>5a
<1>8. Grows
  BY <1>1, <1>2, <1>6, <1>7 DEF Grows
<1>9. \A i \in DOMAIN gates' : i \in DOMAIN gates \/
          /\ gates'[i].op = "Input" /\ gates'[i].x = Len(groups) + 1
          /\ gates'[i].y \in 1..n
  <2> SUFFICES ASSUME NEW i \in DOMAIN gates', i \notin DOMAIN gates
               PROVE  /\ gates'[i].op = "Input" /\ gates'[i].x = Len(groups) + 1
                      /\ gates'[i].y \in 1..n
    OBVIOUS
  <2>1. i - Len(gates) \in 1..n /\ i = Len(gates) + (i - Len(gates))
    BY <1>1, <1>2, <1>6
  <2>2. gates'[i] = new[i - Len(gates)]
    BY <2>1, <1>7
  <2>3. new[i - Len(gates)] = Input(Len(groups) + 1, i - Len(gates))
    BY <2>1 DEF new
  <2> QED BY <2>1, <2>2, <2>3, <1>3
<1>10. /\ groups' \in Seq(1..MaxWidth) /\ DOMAIN groups \subseteq DOMAIN groups'
       /\ Len(groups) + 1 \in DOMAIN groups' /\ groups'[Len(groups) + 1] = n
       /\ \A i \in DOMAIN groups : groups'[i] = groups[i]
  BY <1>1, <1>5
<1>11. Topological(gates')
  <2> SUFFICES ASSUME NEW i \in DOMAIN gates' PROVE Operands(gates'[i]) \subseteq 1..(i - 1)
    BY DEF Topological
  <2>1. CASE i \in DOMAIN gates
    BY <2>1, <1>8 DEF Grows, GraphInv, Wired, Topological
  <2>2. CASE i \notin DOMAIN gates
    BY <2>2, <1>9 DEF Operands
  <2> QED BY <2>1, <2>2
<1>12. InputsNamed(gates', groups')
  <2> SUFFICES ASSUME NEW i \in DOMAIN gates', gates'[i].op = "Input"
               PROVE  gates'[i].x \in DOMAIN groups' /\ gates'[i].y \in 1..groups'[gates'[i].x]
    BY DEF InputsNamed
  <2>1. CASE i \in DOMAIN gates
    BY <2>1, <1>8, <1>10 DEF Grows, GraphInv, Wired, InputsNamed
  <2>2. CASE i \notin DOMAIN gates
    BY <2>2, <1>9, <1>10
  <2> QED BY <2>1, <2>2
<1>13. ConstantBits(gates')
  BY <1>8, <1>9 DEF Grows, GraphInv, Wired, ConstantBits
<1>14. ConstantsOnce'
  BY <1>5, <1>8, <1>9 DEF Grows, GraphInv, ConstantsOnce
<1> QED BY <1>5, <1>6, <1>8, <1>10, <1>11, <1>12, <1>13, <1>14 DEF GraphInv, Wired

-----------------------------------------------------------------------------
(* Copying a circuit.                                                      *)

\* A copy stays a copy while its circuit grows.
LEMMA CopiesStay ==
    ASSUME BuilderInv, Grows, map' = map, ins' = ins, other' = other, adding' = adding
    PROVE  CopyInv'
<1> SUFFICES ASSUME adding, NEW c \in other
             PROVE  /\ map \in Seq(Nat) /\ Len(map) <= Len(c.gates)
                    /\ \A j \in DOMAIN map : map[j] \in DOMAIN gates' /\ Copied(c.gates[j], map[j])'
                    /\ \A j \in DOMAIN c.gates : c.gates[j].op = "Input" =>
                         ins[<<c.gates[j].x, c.gates[j].y>>] \in DOMAIN gates'
  BY DEF CopyInv, BuilderInv
<1>1. map \in Seq(Nat) /\ Len(map) <= Len(c.gates)
  BY DEF BuilderInv, CopyInv
<1>2. ASSUME NEW j \in DOMAIN map
      PROVE  map[j] \in DOMAIN gates' /\ Copied(c.gates[j], map[j])'
  <2>1. map[j] \in DOMAIN gates /\ Copied(c.gates[j], map[j])
    BY DEF BuilderInv, CopyInv
  <2>2. map[j] \in DOMAIN gates' /\ gates'[map[j]] = gates[map[j]]
    BY <2>1 DEF Grows
  <2> QED BY <2>1, <2>2 DEF Copied
<1>3. \A j \in DOMAIN c.gates : c.gates[j].op = "Input" =>
         ins[<<c.gates[j].x, c.gates[j].y>>] \in DOMAIN gates'
  BY DEF BuilderInv, CopyInv, Grows
<1> QED BY <1>1, <1>2, <1>3

\* The copy of one more gate: w is the wire the loop puts into its map.
LEMMA OneMoreCopied ==
    ASSUME BuilderInv, GraphInv', adding, NEW c \in other, Len(map) < Len(c.gates), Grows,
           NEW w \in DOMAIN gates', map' = Append(map, w),
           ins' = ins, other' = other, adding' = adding,
           LET g == c.gates[Len(map) + 1] IN
             /\ g.op = "Xor" => gates'[w] = Xor(map[g.x], map[g.y])
             /\ g.op = "And" => gates'[w] = And(map[g.x], map[g.y])
             /\ g.op = "Inv" => gates'[w] = Inv(map[g.x])
             /\ g.op = "Constant" => gates'[w] = Constant(g.x)
             /\ g.op = "Input" => w = ins[<<g.x, g.y>>]
    PROVE  CopyInv'
<1>1. map \in Seq(Nat) /\ Len(map) \in Nat /\ DOMAIN map = 1..Len(map)
  BY DEF BuilderInv, CopyInv
<1>2. c.gates \in Seq(Gate) /\ Topological(c.gates) /\ Len(c.gates) \in Nat
      /\ DOMAIN c.gates = 1..Len(c.gates)
  BY DEF BuilderInv, OtherInv, Wired
<1>3. w \in Nat
  BY DEF GraphInv, Wired
<1>4. /\ map' \in Seq(Nat) /\ Len(map') = Len(map) + 1 /\ DOMAIN map' = 1..(Len(map) + 1)
      /\ map'[Len(map) + 1] = w /\ \A j \in DOMAIN map : map'[j] = map[j]
  BY <1>1, <1>3
<1>5. other' = {c}
  BY DEF BuilderInv, OtherInv
\* The gates copied so far read only wires copied before them.
<1>6. \A j \in DOMAIN map' : \A k \in Operands(c.gates[j]) :
          k \in DOMAIN map /\ map'[k] = map[k]
  <2> SUFFICES ASSUME NEW j \in DOMAIN map', NEW k \in Operands(c.gates[j])
               PROVE  k \in DOMAIN map /\ map'[k] = map[k]
    OBVIOUS
  <2>1. j \in DOMAIN c.gates /\ j \in 1..(Len(map) + 1)
    BY <1>1, <1>2, <1>4
  <2>2. k \in 1..(j - 1)
    BY <2>1, <1>2 DEF Topological
  <2> QED BY <2>1, <2>2, <1>1, <1>4
<1>7. ASSUME NEW j \in DOMAIN map
      PROVE  map'[j] \in DOMAIN gates' /\ Copied(c.gates[j], map[j])'
  <2>1. map[j] \in DOMAIN gates /\ Copied(c.gates[j], map[j])
    BY DEF BuilderInv, CopyInv
  <2>2. map[j] \in DOMAIN gates' /\ gates'[map[j]] = gates[map[j]] /\ map'[j] = map[j]
    BY <2>1, <1>4 DEF Grows
  <2>3. j \in DOMAIN map'
    BY <1>1, <1>4
  <2>4. \A k \in Operands(c.gates[j]) : map'[k] = map[k]
    BY <2>3, <1>6
  <2> QED BY <2>1, <2>2, <2>4 DEF Copied, Operands
<1>8. ASSUME NEW j, j = Len(map) + 1
      PROVE  map'[j] \in DOMAIN gates' /\ Copied(c.gates[j], map[j])'
  <2>1. j \in DOMAIN map' /\ c.gates[j] \in Gate /\ map'[j] = w
    BY <1>1, <1>2, <1>4, <1>8
  <2>2. \A k \in Operands(c.gates[j]) : map'[k] = map[k]
    BY <2>1, <1>6
  <2>3. c.gates[j].op \in {"Xor", "And"} =>
            map'[c.gates[j].x] = map[c.gates[j].x] /\ map'[c.gates[j].y] = map[c.gates[j].y]
    BY <2>1, <2>2, OperandsOf
  <2>4. c.gates[j].op = "Inv" => map'[c.gates[j].x] = map[c.gates[j].x]
    BY <2>1, <2>2, OperandsOf
  <2> QED BY <2>1, <2>3, <2>4, <1>8 DEF Copied
<1>9. \A j \in DOMAIN map' : map'[j] \in DOMAIN gates' /\ Copied(c.gates[j], map[j])'
  <2> SUFFICES ASSUME NEW j \in DOMAIN map'
               PROVE  map'[j] \in DOMAIN gates' /\ Copied(c.gates[j], map[j])'
    OBVIOUS
  <2>1. CASE j \in DOMAIN map BY <2>1, <1>7
  <2>2. CASE j = Len(map) + 1 BY <2>2, <1>8
  <2> QED BY <2>1, <2>2, <1>1, <1>4
<1>10. \A j \in DOMAIN c.gates : c.gates[j].op = "Input" =>
          ins'[<<c.gates[j].x, c.gates[j].y>>] \in DOMAIN gates'
  BY DEF BuilderInv, CopyInv, Grows
<1>11. Len(map') <= Len(c.gates)
  BY <1>1, <1>2, <1>4
<1> QED BY <1>4, <1>5, <1>9, <1>10, <1>11 DEF BuilderInv, CopyInv

-----------------------------------------------------------------------------
(* The inductive invariant.                                                *)

LEMMA InitBuilder == Init => BuilderInv
<1> SUFFICES ASSUME Init PROVE BuilderInv OBVIOUS
<1>1. GraphInv
  BY DEF Init, GraphInv, Wired, NoConst, Topological, InputsNamed, ConstantBits, ConstantsOnce, Bit
<1>2. OtherInv /\ CopyInv
  BY DEF Init, OtherInv, CopyInv
<1> QED BY <1>1, <1>2 DEF BuilderInv

LEMMA BuildKeeps ==
    ASSUME BuilderInv, Build
    PROVE  BuilderInv'
<1>1. GraphInv /\ other' = other /\ ins' = ins /\ map' = map /\ adding' = adding
  BY DEF BuilderInv, Build, embed
<1>2. GraphInv' /\ Grows
  <2>1. ASSUME NEW n \in 1..MaxWidth, NewInputs(n) PROVE GraphInv' /\ Grows
    BY <1>1, <2>1, NewInputsGraph
  <2>2. ASSUME NEW xid \in DOMAIN gates, NEW yid \in DOMAIN gates, AddXor(xid, yid)
        PROVE  GraphInv' /\ Grows
    BY <1>1, <2>2, AddXorGraph
  <2>3. ASSUME NEW xid \in DOMAIN gates, NEW yid \in DOMAIN gates, AddAnd(xid, yid)
        PROVE  GraphInv' /\ Grows
    BY <1>1, <2>3, AddAndGraph
  <2>4. ASSUME NEW xid \in DOMAIN gates, Negate(xid) PROVE GraphInv' /\ Grows
    BY <1>1, <2>4, NegateGraph
  <2>5. ASSUME NEW val \in Bit, AddConstant(val) PROVE GraphInv' /\ Grows
    BY <1>1, <2>5, AddConstantGraph
  <2> QED BY <2>1, <2>2, <2>3, <2>4, <2>5 DEF Build
<1>3. OtherInv'
  BY <1>1 DEF BuilderInv, OtherInv
<1>4. CopyInv'
  BY <1>1, <1>2, CopiesStay
<1> QED BY <1>2, <1>3, <1>4 DEF BuilderInv

LEMMA FinishKeeps ==
    ASSUME BuilderInv, Finish
    PROVE  BuilderInv'
<1>1. GraphInv'
  BY DEF Finish, GraphInv, Wired, NoConst, Topological, InputsNamed, ConstantBits, ConstantsOnce, Bit
<1>2. OtherInv'
  BY DEF Finish, BuilderInv, GraphInv, OtherInv
<1>3. CopyInv'
  BY DEF Finish, embed, BuilderInv, CopyInv
<1> QED BY <1>1, <1>2, <1>3 DEF BuilderInv

LEMMA BeginAddKeeps ==
    ASSUME BuilderInv, BeginAddCircuit
    PROVE  BuilderInv'
<1>1. GraphInv' /\ OtherInv'
  BY DEF BeginAddCircuit, builder, BuilderInv, GraphInv, OtherInv, Wired, ConstantsOnce
<1>2. PICK c \in other :
        ins' \in [{u \in InputIds(c) : u[2] <= c.groups[u[1]]} -> DOMAIN gates]
  BY DEF BeginAddCircuit
<1>3. /\ other' = other /\ gates' = gates /\ map' = <<>> /\ adding' = TRUE
      /\ \A d \in other : d = c
  BY DEF BeginAddCircuit, builder, BuilderInv, OtherInv
<1>4. Wired(c.gates, c.groups)
  BY DEF BuilderInv, OtherInv
<1>5. ASSUME NEW j \in DOMAIN c.gates, c.gates[j].op = "Input"
      PROVE  ins'[<<c.gates[j].x, c.gates[j].y>>] \in DOMAIN gates
  <2> DEFINE no == c.gates[j].x
             id == c.gates[j].y
  <2>1. no \in DOMAIN c.groups /\ id \in 1..c.groups[no]
    BY <1>4, <1>5 DEF Wired, InputsNamed
  <2>2. c.groups[no] \in 1..MaxWidth /\ MaxWidth \in Nat
    BY <2>1, <1>4, CircuitBounds DEF Wired
  <2>3. id \in 1..MaxWidth /\ id <= c.groups[no]
    BY <2>1, <2>2
  <2> HIDE DEF no, id
  <2>4. <<no, id>> \in {u \in InputIds(c) : u[2] <= c.groups[u[1]]}
    BY <2>1, <2>3 DEF InputIds
  <2>5. ins'[<<no, id>>] \in DOMAIN gates
    BY <2>4, <1>2
  <2> QED BY <2>5 DEF no, id
<1>6. Len(c.gates) \in Nat
  BY <1>4 DEF Wired
<1>7. CopyInv'
  BY <1>3, <1>5, <1>6 DEF CopyInv
<1> QED BY <1>1, <1>7 DEF BuilderInv

LEMMA EmbedGateKeeps ==
    ASSUME BuilderInv, EmbedGate
    PROVE  BuilderInv'
<1> PICK c \in other : Len(map) < Len(c.gates) /\ CopyGate(c.gates[Len(map) + 1])
  BY DEF EmbedGate
<1> DEFINE g == c.gates[Len(map) + 1]
<1>1. GraphInv /\ adding /\ other' = other /\ ins' = ins /\ adding' = adding
  BY DEF EmbedGate, BuilderInv
<1>2. Len(map) + 1 \in DOMAIN c.gates /\ g \in Gate /\ DOMAIN map = 1..Len(map)
      /\ Operands(g) \subseteq DOMAIN map
  <2>1. map \in Seq(Nat) /\ c.gates \in Seq(Gate) /\ Topological(c.gates)
    BY <1>1 DEF BuilderInv, CopyInv, OtherInv, Wired
  <2>2. Len(map) \in Nat /\ DOMAIN map = 1..Len(map) /\ Len(map) + 1 \in DOMAIN c.gates
    BY <2>1
  <2>3. Operands(g) \subseteq 1..((Len(map) + 1) - 1)
    BY <2>1, <2>2 DEF Topological
  <2> QED BY <2>1, <2>2, <2>3
<1>3. \A k \in DOMAIN map : map[k] \in DOMAIN gates
  BY <1>1 DEF BuilderInv, CopyInv
<1>4. g.op \in {"Input", "Constant", "Xor", "And", "Inv"}
  BY <1>2 DEF Gate
<1>5. OtherInv'
  BY <1>1 DEF BuilderInv, OtherInv
<1>6. CASE g.op = "Xor"
  <2>1. g.x \in DOMAIN map /\ g.y \in DOMAIN map
    BY <1>2, <1>6 DEF Operands
  <2>2. AddXor(map[g.x], map[g.y]) /\ map' = Append(map, NextWire)
    BY <1>6 DEF CopyGate
  <2>3. /\ GraphInv' /\ Grows /\ gates' = Append(gates, Xor(map[g.x], map[g.y]))
        /\ NextWire \in DOMAIN gates'
    BY <1>1, <1>3, <2>1, <2>2, AddXorGraph
  <2>4. gates'[NextWire] = Xor(map[g.x], map[g.y])
    <3>1. gates \in Seq(Gate)
      BY <1>1 DEF GraphInv, Wired
    <3>2. NextWire = Len(gates) + 1
      BY DEF NextWire
    <3> QED BY <2>3, <3>1, <3>2
  <2>5. CopyInv'
    BY <1>1, <1>6, <2>2, <2>3, <2>4, OneMoreCopied
  <2> QED BY <1>5, <2>3, <2>5 DEF BuilderInv
<1>7. CASE g.op = "And"
  <2>1. g.x \in DOMAIN map /\ g.y \in DOMAIN map
    BY <1>2, <1>7 DEF Operands
  <2>2. AddAnd(map[g.x], map[g.y]) /\ map' = Append(map, NextWire)
    BY <1>7 DEF CopyGate
  <2>3. /\ GraphInv' /\ Grows /\ gates' = Append(gates, And(map[g.x], map[g.y]))
        /\ NextWire \in DOMAIN gates'
    BY <1>1, <1>3, <2>1, <2>2, AddAndGraph
  <2>4. gates'[NextWire] = And(map[g.x], map[g.y])
    <3>1. gates \in Seq(Gate)
      BY <1>1 DEF GraphInv, Wired
    <3>2. NextWire = Len(gates) + 1
      BY DEF NextWire
    <3> QED BY <2>3, <3>1, <3>2
  <2>5. CopyInv'
    BY <1>1, <1>7, <2>2, <2>3, <2>4, OneMoreCopied
  <2> QED BY <1>5, <2>3, <2>5 DEF BuilderInv
<1>8. CASE g.op = "Inv"
  <2>1. g.x \in DOMAIN map
    BY <1>2, <1>8 DEF Operands
  <2>2. Negate(map[g.x]) /\ map' = Append(map, NextWire)
    BY <1>8 DEF CopyGate
  <2>3. /\ GraphInv' /\ Grows /\ gates' = Append(gates, Inv(map[g.x]))
        /\ NextWire \in DOMAIN gates'
    BY <1>1, <1>3, <2>1, <2>2, NegateGraph
  <2>4. gates'[NextWire] = Inv(map[g.x])
    <3>1. gates \in Seq(Gate)
      BY <1>1 DEF GraphInv, Wired
    <3>2. NextWire = Len(gates) + 1
      BY DEF NextWire
    <3> QED BY <2>3, <3>1, <3>2
  <2>5. CopyInv'
    BY <1>1, <1>8, <2>2, <2>3, <2>4, OneMoreCopied
  <2> QED BY <1>5, <2>3, <2>5 DEF BuilderInv
<1>9. CASE g.op = "Constant"
  <2>1. g.x \in Bit
    BY <1>2, <1>9 DEF BuilderInv, OtherInv, Wired, ConstantBits
  <2>2. AddConstant(g.x) /\ map' = Append(map, constWire'[g.x])
    BY <1>9 DEF CopyGate
  <2>3. /\ GraphInv' /\ Grows
        /\ constWire'[g.x] \in DOMAIN gates' /\ gates'[constWire'[g.x]] = Constant(g.x)
    BY <1>1, <2>1, <2>2, AddConstantGraph
  <2>4. CopyInv'
    BY <1>1, <1>9, <2>2, <2>3, OneMoreCopied
  <2> QED BY <1>5, <2>3, <2>4 DEF BuilderInv
<1>10. CASE g.op = "Input"
  <2>1. UNCHANGED builder /\ map' = Append(map, ins[<<g.x, g.y>>])
    BY <1>10 DEF CopyGate
  <2>2. GraphInv' /\ Grows
    BY <2>1, <1>1 DEF builder, GraphInv, Wired, ConstantsOnce, Grows
  <2>3. ins[<<g.x, g.y>>] \in DOMAIN gates'
    BY <2>1, <1>1, <1>2, <1>10 DEF builder, BuilderInv, CopyInv
  <2>4. CopyInv'
    BY <1>1, <1>10, <2>1, <2>2, <2>3, OneMoreCopied
  <2> QED BY <1>5, <2>2, <2>4 DEF BuilderInv
<1> QED BY <1>4, <1>6, <1>7, <1>8, <1>9, <1>10

LEMMA EndAddKeeps ==
    ASSUME BuilderInv, EndAddCircuit
    PROVE  BuilderInv'
  BY DEF EndAddCircuit, builder, BuilderInv, GraphInv, OtherInv, CopyInv, Wired, ConstantsOnce

LEMMA BuilderStep ==
    ASSUME BuilderInv, [Next]_bvars
    PROVE  BuilderInv'
<1>1. CASE Next
  BY <1>1, BuildKeeps, FinishKeeps, BeginAddKeeps, EmbedGateKeeps, EndAddKeeps DEF Next
<1>2. CASE UNCHANGED bvars
  BY <1>2, SMTT(30) DEF bvars, BuilderInv, GraphInv, OtherInv, CopyInv, Copied, Wired, ConstantsOnce
<1> QED BY <1>1, <1>2

-----------------------------------------------------------------------------
(* Theorems.                                                               *)

\* The circuit under construction and the one handed out are always in
\* topological order, and the remembered constants are the constant gates.
THEOREM WellBuilt == Spec => []CircuitOK
<1>1. BuilderInv => CircuitOK
  BY DEF BuilderInv, GraphInv, OtherInv, Wired, CircuitOK
<1>2. Init => BuilderInv BY InitBuilder
<1>3. BuilderInv /\ [Next]_bvars => BuilderInv' BY BuilderStep
<1> QED BY <1>1, <1>2, <1>3, PTL DEF Spec

\* add_circuit is correct: the copy of every gate carries the value that the
\* gate has in the copied circuit, in every valuation of the surroundings.
THEOREM CopiesCompute == Spec => []CopySound
<1>1. BuilderInv => CopySound
  <2> SUFFICES ASSUME BuilderInv, NEW c \in other, adding, NEW v \in Valuations(gates),
                      NEW j \in DOMAIN map
               PROVE  IF c.gates[j].op = "Input"
                      THEN map[j] = ins[<<c.gates[j].x, c.gates[j].y>>]
                      ELSE v[map[j]] = Value(c.gates[j], [k \in DOMAIN map |-> v[map[k]]])
    BY DEF CopySound
  <2> DEFINE g == c.gates[j]
             u == [k \in DOMAIN map |-> v[map[k]]]
  <2>1. map[j] \in DOMAIN gates /\ Copied(g, map[j])
    BY DEF BuilderInv, CopyInv
  <2>2. g \in Gate /\ Operands(g) \subseteq DOMAIN map
    <3>1. /\ map \in Seq(Nat) /\ Len(map) <= Len(c.gates)
          /\ c.gates \in Seq(Gate) /\ Topological(c.gates)
      BY DEF BuilderInv, CopyInv, OtherInv, Wired
    <3>2. j \in DOMAIN c.gates /\ j \in 1..Len(map) /\ DOMAIN map = 1..Len(map)
      BY <3>1
    <3>3. Operands(g) \subseteq 1..(j - 1)
      BY <3>1, <3>2 DEF Topological
    <3> QED BY <3>1, <3>2, <3>3
  <2>3. gates[map[j]].op # "Input" => v[map[j]] = Value(gates[map[j]], v)
    BY <2>1 DEF Valuations, Valuation
  <2>4. \A k \in Operands(g) : u[k] = v[map[k]]
    BY <2>2
  <2> HIDE DEF u
  <2>5. g.op = "Input" => map[j] = ins[<<g.x, g.y>>]
    BY <2>1 DEF Copied
  <2>6. g.op = "Xor" => v[map[j]] = Value(g, u)
    BY <2>1, <2>3, <2>4 DEF Copied, Operands, Value, Xor
  <2>7. g.op = "And" => v[map[j]] = Value(g, u)
    BY <2>1, <2>3, <2>4 DEF Copied, Operands, Value, And
  <2>8. g.op = "Inv" => v[map[j]] = Value(g, u)
    BY <2>1, <2>3, <2>4 DEF Copied, Operands, Value, Inv
  <2>9. g.op = "Constant" => v[map[j]] = Value(g, u)
    BY <2>1, <2>3 DEF Copied, Value, Constant
  <2> QED BY <2>2, <2>5, <2>6, <2>7, <2>8, <2>9 DEF Gate, u
<1>2. Init => BuilderInv BY InitBuilder
<1>3. BuilderInv /\ [Next]_bvars => BuilderInv' BY BuilderStep
<1> QED BY <1>1, <1>2, <1>3, PTL DEF Spec

-----------------------------------------------------------------------------
(* Blocks.                                                                 *)

LEMMA XorBlock == ASSUME NEW a \in Block, NEW b \in Block PROVE a \oplus b \in Block
  BY DEF Block, \oplus

LEMMA IfBlock == ASSUME NEW b, NEW x \in Block PROVE If(b, x) \in Block
  BY DEF If, Block

\* The lowest bit tells the two labels of a wire apart.
LEMMA OtherLsb ==
    ASSUME NEW x, NEW d, Lsb \in d
    PROVE  lsb(x \oplus d) = 1 - lsb(x) /\ lsb(x) \in Bit
  BY DEF lsb, \oplus, Bit

\* Free xor: the labels of two wires give that of their sum.
LEMMA FreeXor ==
    ASSUME NEW x, NEW y, NEW d, NEW b \in Bit, NEW c \in Bit
    PROVE  (x \oplus If(b, d)) \oplus (y \oplus If(c, d))
             = (x \oplus y) \oplus If(IF b = c THEN 0 ELSE 1, d)
<1>1. CASE b = 0 /\ c = 0 BY <1>1 DEF If, \oplus
<1>2. CASE b = 0 /\ c = 1 BY <1>2 DEF If, \oplus
<1>3. CASE b = 1 /\ c = 0 BY <1>3 DEF If, \oplus
<1>4. CASE b = 1 /\ c = 1 BY <1>4 DEF If, \oplus
<1> QED BY <1>1, <1>2, <1>3, <1>4 DEF Bit

\* Free inversion: the same label stands for the other value.
LEMMA FreeInv ==
    ASSUME NEW x, NEW d, NEW b \in Bit
    PROVE  x \oplus If(b, d) = (x \oplus d) \oplus If(1 - b, d)
<1>1. CASE b = 0 BY <1>1 DEF If, \oplus
<1>2. CASE b = 1 BY <1>2 DEF If, \oplus
<1> QED BY <1>1, <1>2 DEF Bit

\* The two half gates, with a0, a1, b0, b1 for the hashes of the two labels of
\* each operand and p, q for the lowest bits of their FALSE-labels.
LEMMA HalfGates ==
    ASSUME NEW a0, NEW a1, NEW b0, NEW b1, NEW x, NEW d,
           NEW p \in Bit, NEW q \in Bit, NEW b \in Bit, NEW c \in Bit
    PROVE  ((IF b = 1 THEN a1 ELSE a0) \oplus (IF c = 1 THEN b1 ELSE b0))
             \oplus (If(IF b = 1 THEN 1 - p ELSE p, (a0 \oplus a1) \oplus If(q, d))
                       \oplus If(IF c = 1 THEN 1 - q ELSE q,
                                 (x \oplus If(b, d)) \oplus ((b0 \oplus b1) \oplus x)))
           = (((IF p = 1 THEN a1 ELSE a0) \oplus (IF q = 1 THEN b1 ELSE b0))
                \oplus If(p * q, d))
               \oplus If(IF b = 1 /\ c = 1 THEN 1 ELSE 0, d)
<1>1. CASE p = 0 /\ q = 0
  <2>1. CASE b = 0 /\ c = 0 BY <1>1, <2>1 DEF If, \oplus
  <2>2. CASE b = 0 /\ c = 1 BY <1>1, <2>2 DEF If, \oplus
  <2>3. CASE b = 1 /\ c = 0 BY <1>1, <2>3 DEF If, \oplus
  <2>4. CASE b = 1 /\ c = 1 BY <1>1, <2>4 DEF If, \oplus
  <2> QED BY <2>1, <2>2, <2>3, <2>4 DEF Bit
<1>2. CASE p = 0 /\ q = 1
  <2>1. CASE b = 0 /\ c = 0 BY <1>2, <2>1 DEF If, \oplus
  <2>2. CASE b = 0 /\ c = 1 BY <1>2, <2>2 DEF If, \oplus
  <2>3. CASE b = 1 /\ c = 0 BY <1>2, <2>3 DEF If, \oplus
  <2>4. CASE b = 1 /\ c = 1 BY <1>2, <2>4 DEF If, \oplus
  <2> QED BY <2>1, <2>2, <2>3, <2>4 DEF Bit
<1>3. CASE p = 1 /\ q = 0
  <2>1. CASE b = 0 /\ c = 0 BY <1>3, <2>1 DEF If, \oplus
  <2>2. CASE b = 0 /\ c = 1 BY <1>3, <2>2 DEF If, \oplus
  <2>3. CASE b = 1 /\ c = 0 BY <1>3, <2>3 DEF If, \oplus
  <2>4. CASE b = 1 /\ c = 1 BY <1>3, <2>4 DEF If, \oplus
  <2> QED BY <2>1, <2>2, <2>3, <2>4 DEF Bit
<1>4. CASE p = 1 /\ q = 1
  <2>1. CASE b = 0 /\ c = 0 BY <1>4, <2>1 DEF If, \oplus
  <2>2. CASE b = 0 /\ c = 1 BY <1>4, <2>2 DEF If, \oplus
  <2>3. CASE b = 1 /\ c = 0 BY <1>4, <2>3 DEF If, \oplus
  <2>4. CASE b = 1 /\ c = 1 BY <1>4, <2>4 DEF If, \oplus
  <2> QED BY <2>1, <2>2, <2>3, <2>4 DEF Bit
<1> QED BY <1>1, <1>2, <1>3, <1>4 DEF Bit

\* What evaluate opens from the tables garble made is the output label of the
\* conjunction.
LEMMA AndOpens ==
    ASSUME Lsb \in delta, NEW x \in Block, NEW y \in Block, NEW i \in Nat,
           NEW b \in Bit, NEW c \in Bit
    PROVE  OpenedAnd(x \oplus If(b, delta), y \oplus If(c, delta),
                     Table0(x, y, i), Table1(x, y, i), i)
             = AndLabel(x, y, i) \oplus If(IF b = 1 /\ c = 1 THEN 1 ELSE 0, delta)
<1> DEFINE a0 == Hash(key, x, 2 * i)
           a1 == Hash(key, x \oplus delta, 2 * i)
           b0 == Hash(key, y, 2 * i + 1)
           b1 == Hash(key, y \oplus delta, 2 * i + 1)
           p == lsb(x)
           q == lsb(y)
           X == x \oplus If(b, delta)
           Y == y \oplus If(c, delta)
<1>1. X = IF b = 1 THEN x \oplus delta ELSE x
  BY DEF If, \oplus
<1>2. Y = IF c = 1 THEN y \oplus delta ELSE y
  BY DEF If, \oplus
<1>3. Hash(key, X, 2 * i) = IF b = 1 THEN a1 ELSE a0
  BY <1>1
<1>4. Hash(key, Y, 2 * i + 1) = IF c = 1 THEN b1 ELSE b0
  BY <1>2
<1>5. lsb(X) = IF b = 1 THEN 1 - p ELSE p
  BY <1>1, OtherLsb
<1>6. lsb(Y) = IF c = 1 THEN 1 - q ELSE q
  BY <1>2, OtherLsb
<1>7. Hash(key, IF lsb(x) = 1 THEN x \oplus delta ELSE x, 2 * i) = IF p = 1 THEN a1 ELSE a0
  OBVIOUS
<1>8. Hash(key, IF lsb(y) = 1 THEN y \oplus delta ELSE y, 2 * i + 1) = IF q = 1 THEN b1 ELSE b0
  OBVIOUS
<1>9. p \in Bit /\ q \in Bit
  BY DEF lsb, Bit
<1>10. OpenedAnd(X, Y, Table0(x, y, i), Table1(x, y, i), i)
         = ((IF b = 1 THEN a1 ELSE a0) \oplus (IF c = 1 THEN b1 ELSE b0))
             \oplus (If(IF b = 1 THEN 1 - p ELSE p, (a0 \oplus a1) \oplus If(q, delta))
                       \oplus If(IF c = 1 THEN 1 - q ELSE q,
                                 (x \oplus If(b, delta)) \oplus ((b0 \oplus b1) \oplus x)))
  BY <1>3, <1>4, <1>5, <1>6 DEF OpenedAnd, Table0, Table1, Half0, Half1
<1>11. AndLabel(x, y, i)
         = ((IF p = 1 THEN a1 ELSE a0) \oplus (IF q = 1 THEN b1 ELSE b0)) \oplus If(p * q, delta)
  BY <1>7, <1>8 DEF AndLabel
<1> HIDE DEF a0, a1, b0, b1, p, q
<1> QED BY <1>9, <1>10, <1>11, HalfGates

-----------------------------------------------------------------------------
(* The inductive invariant: how garbling has laid out labels and tables,   *)
(* and how far evaluation has consumed them.                               *)

\* The table entries of gate g.
Rows(g) == IF g.op = "And" THEN 2 ELSE IF g.op = "Constant" THEN 1 ELSE 0

\* Gate i was garbled from the labels of its operands, its entries after
\* the first r.
GarbledAt(i, r) ==
    /\ gates[i].op = "Constant" => tables[r + 1] = w0[i] \oplus If(gates[i].x, delta)
    /\ gates[i].op = "Xor" => w0[i] = w0[gates[i].x] \oplus w0[gates[i].y]
    /\ gates[i].op = "Inv" => w0[i] = w0[gates[i].x] \oplus delta
    /\ gates[i].op = "And" =>
         /\ w0[i] = AndLabel(w0[gates[i].x], w0[gates[i].y], i - 1)
         /\ tables[r + 1] = Table0(w0[gates[i].x], w0[gates[i].y], i - 1)
         /\ tables[r + 2] = Table1(w0[gates[i].x], w0[gates[i].y], i - 1)

\* row[i] is the number of entries before those of gate i.
Layout(row) ==
    /\ row \in [1..(Len(w0) + 1) -> Nat]
    /\ row[1] = 0 /\ row[Len(w0) + 1] = Len(tables)
    /\ \A i \in 1..Len(w0) :
         /\ row[i + 1] = row[i] + Rows(gates[i]) /\ row[i + 1] <= Len(tables)
         /\ GarbledAt(i, row[i])
    /\ used = row[Len(labels) + 1]

GarbleTypes ==
    /\ delta \in Block
    /\ w0 \in Seq(Block) /\ tables \in Seq(Block) /\ labels \in Seq(Block)
    /\ Len(w0) <= Len(gates) /\ Len(labels) <= Len(w0)

Stages ==
    /\ stage = "build" => w0 = <<>> /\ tables = <<>> /\ labels = <<>> /\ used = 0
    /\ stage # "build" => Lsb \in delta /\ value \in Valuations(gates) /\ key \in GarbleKeys
    /\ stage = "garble" => labels = <<>>
    /\ stage \in {"evaluate", "done"} => Len(w0) = Len(gates)
    /\ stage = "done" => Len(labels) = Len(gates)

GInv ==
    /\ BuilderInv /\ Len(gates) <= MaxGates
    /\ GarbleTypes /\ Stages
    /\ \E row : Layout(row)
    /\ LabelsMatch

\* Construction keeps to the bound on gates.
LEMMA SizeStep ==
    ASSUME BuilderInv, Len(gates) <= MaxGates, Next
    PROVE  Len(gates') <= MaxGates
<1>1. gates \in Seq(Gate) /\ MaxGates \in Nat
  BY CircuitBounds DEF BuilderInv, GraphInv, Wired
<1>2. ASSUME NEW n \in 1..MaxWidth, NewInputs(n) PROVE Len(gates') <= MaxGates
  <2> DEFINE new == [i \in 1..n |-> Input(Len(groups) + 1, i)]
  <2>0. n \in Nat /\ Len(groups) + 1 \in Nat
    BY CircuitBounds DEF BuilderInv, GraphInv, Wired
  <2>1. new \in Seq(Gate) /\ Len(new) = n
    BY <2>0 DEF Input, Gate
  <2>2. gates' = gates \o new /\ Len(gates) + n <= MaxGates
    BY <1>2 DEF NewInputs, Room
  <2> HIDE DEF new
  <2>3. Len(gates') = Len(gates) + n
    BY <1>1, <2>1, <2>2, ConcatProperties
  <2> QED BY <2>2, <2>3
<1>3. ASSUME NEW g, gates' = Append(gates, g), Room(1) PROVE Len(gates') <= MaxGates
  <2>1. Len(gates') = Len(gates) + 1
    BY <1>1, <1>3
  <2> QED BY <2>1, <1>3 DEF Room
<1>4. ASSUME NEW val, AddConstant(val) PROVE Len(gates') <= MaxGates
  BY <1>3, <1>4 DEF AddConstant, builder
<1>5. CASE Build
  BY <1>2, <1>3, <1>4, <1>5 DEF Build, AddXor, AddAnd, Negate
<1>6. CASE Finish
  BY <1>1, <1>6 DEF Finish
<1>7. CASE BeginAddCircuit \/ EndAddCircuit
  BY <1>7 DEF BeginAddCircuit, EndAddCircuit, builder
<1>8. CASE EmbedGate
  BY <1>3, <1>4, <1>8 DEF EmbedGate, CopyGate, AddXor, AddAnd, Negate, builder
<1> QED BY <1>5, <1>6, <1>7, <1>8 DEF Next

\* While a circuit is garbled and evaluated it does not change.
LEMMA BuilderStays ==
    ASSUME BuilderInv, UNCHANGED bvars
    PROVE  BuilderInv'
  BY BuilderStep

LEMMA InitGarbled ==
    ASSUME GInit
    PROVE  GInv
<1>1. BuilderInv
  BY InitBuilder DEF GInit
<1>2. Layout([i \in 1..1 |-> 0])
  BY DEF GInit, Layout
<1>3. Len(gates) <= MaxGates
  BY CircuitBounds DEF GInit, Init
<1>4. GarbleTypes
  BY DEF GInit, Init, GarbleTypes, Block
<1>5. Stages /\ LabelsMatch
  BY DEF GInit, Stages, LabelsMatch
<1> QED BY <1>1, <1>2, <1>3, <1>4, <1>5 DEF GInv

-----------------------------------------------------------------------------
(* Garbling one gate.                                                      *)

\* Label f and entries rows are a garbling of gate g.
Made(g, f, rows) ==
    /\ Len(rows) = Rows(g)
    /\ g.op = "Constant" => rows[1] = f \oplus If(g.x, delta)
    /\ g.op = "Xor" => f = w0[g.x] \oplus w0[g.y]
    /\ g.op = "Inv" => f = w0[g.x] \oplus delta
    /\ g.op = "And" =>
         /\ f = AndLabel(w0[g.x], w0[g.y], Len(w0))
         /\ rows[1] = Table0(w0[g.x], w0[g.y], Len(w0))
         /\ rows[2] = Table1(w0[g.x], w0[g.y], Len(w0))

\* The operands of a gate come before it.
LEMMA OperandsBefore ==
    ASSUME BuilderInv, NEW i \in DOMAIN gates
    PROVE  /\ i \in Nat \ {0} /\ gates[i] \in Gate /\ i <= Len(gates)
           /\ gates[i].op \in {"Xor", "And"} =>
                gates[i].x \in 1..(i - 1) /\ gates[i].y \in 1..(i - 1)
           /\ gates[i].op = "Inv" => gates[i].x \in 1..(i - 1)
           /\ gates[i].op = "Constant" => gates[i].x \in Bit
<1>1. gates \in Seq(Gate) /\ Operands(gates[i]) \subseteq 1..(i - 1)
  BY DEF BuilderInv, GraphInv, Wired, Topological
<1>2. i \in Nat \ {0} /\ gates[i] \in Gate /\ i <= Len(gates)
  BY <1>1
<1>3. gates[i].op = "Constant" => gates[i].x \in Bit
  BY DEF BuilderInv, GraphInv, Wired, ConstantBits
<1> QED BY <1>1, <1>2, <1>3, OperandsOf

LEMMA GarbleStep ==
    ASSUME GInv, stage = "garble", NEW f \in Block, NEW rows \in Seq(Block),
           Len(w0) < Len(gates), Made(gates[Len(w0) + 1], f, rows), Garbled(f, rows),
           UNCHANGED <<bvars, stage, value, delta, key, labels, used>>
    PROVE  GInv'
<1> DEFINE n == Len(w0)
           t == Len(tables)
<1>1. w0 \in Seq(Block) /\ tables \in Seq(Block) /\ gates \in Seq(Gate)
  BY DEF GInv, GarbleTypes, BuilderInv, GraphInv, Wired
<1>2. /\ n \in Nat /\ t \in Nat /\ Len(rows) \in Nat
      /\ w0' = Append(w0, f) /\ tables' = tables \o rows
  BY <1>1 DEF Garbled
<1>3. /\ w0' \in Seq(Block) /\ Len(w0') = n + 1 /\ w0'[n + 1] = f
      /\ \A i \in 1..n : w0'[i] = w0[i]
  BY <1>1, <1>2
<1>4. /\ tables' \in Seq(Block) /\ Len(tables') = t + Len(rows)
      /\ \A i \in 1..t : tables'[i] = tables[i]
      /\ \A i \in 1..Len(rows) : tables'[t + i] = rows[i]
  <2>1. /\ tables \o rows \in Seq(Block) /\ Len(tables \o rows) = t + Len(rows)
        /\ \A i \in 1..(t + Len(rows)) : (tables \o rows)[i] =
              IF i <= t THEN tables[i] ELSE rows[i - t]
    BY <1>1, ConcatProperties
  <2> HIDE DEF t
  <2> QED BY <2>1, <1>2, SMTT(30)
<1>5. /\ gates' = gates /\ stage' = stage /\ value' = value /\ delta' = delta /\ key' = key
      /\ labels' = labels /\ used' = used
  BY DEF bvars
<1>6. BuilderInv' /\ Len(gates') <= MaxGates
  BY <1>5, BuilderStays DEF GInv
<1>7. labels = <<>>
  BY DEF GInv, Stages
<1>8. n + 1 \in DOMAIN gates /\ gates[n + 1] \in Gate
  BY <1>1, <1>2
<1> PICK row : Layout(row) BY DEF GInv
<1>9. Rows(gates[n + 1]) = Len(rows) /\ row[n + 1] = t /\ row[1] = 0
      /\ row \in [1..(n + 1) -> Nat] /\ used = 0
  BY <1>7 DEF Made, Layout
<1> HIDE DEF n, t
<1>10. PICK more \in [1..(n + 2) -> Nat] :
         more[n + 2] = t + Len(rows) /\ (\A i \in 1..(n + 1) : more[i] = row[i])
  <2> DEFINE m == [i \in 1..(n + 2) |-> IF i = n + 2 THEN t + Len(rows) ELSE row[i]]
  <2>1. /\ m \in [1..(n + 2) -> Nat] /\ m[n + 2] = t + Len(rows)
        /\ (\A i \in 1..(n + 1) : m[i] = row[i])
    BY <1>2, <1>9
  <2> QED BY <2>1
<1>11. ASSUME NEW i \in 1..n
       PROVE  /\ more[i + 1] = more[i] + Rows(gates[i]) /\ more[i + 1] <= t + Len(rows)
              /\ GarbledAt(i, more[i])'
  <2>1. i \in DOMAIN gates /\ i \in 1..(n + 1) /\ i + 1 \in 1..(n + 1)
    BY <1>1, <1>2, <1>8
  <2>2. /\ row[i + 1] = row[i] + Rows(gates[i]) /\ row[i + 1] <= t /\ GarbledAt(i, row[i])
    BY DEF Layout, n, t
  <2>3. more[i] = row[i] /\ more[i + 1] = row[i + 1] /\ row[i] \in Nat
    BY <2>1, <1>9, <1>10
  <2>4. /\ gates[i].op = "Constant" => row[i] + 1 \in 1..t
        /\ gates[i].op = "And" => row[i] + 1 \in 1..t /\ row[i] + 2 \in 1..t
    <3>1. t \in Nat /\ row[i] \in Nat /\ row[i] + Rows(gates[i]) <= t
      BY <2>2, <2>3, <1>2
    <3>2. /\ gates[i].op = "Constant" => Rows(gates[i]) = 1
          /\ gates[i].op = "And" => Rows(gates[i]) = 2
      BY DEF Rows
    <3> QED BY <3>1, <3>2, SMTT(30)
  <2>5. /\ gates[i].op = "Constant" => tables'[row[i] + 1] = tables[row[i] + 1]
        /\ gates[i].op = "And" => /\ tables'[row[i] + 1] = tables[row[i] + 1]
                                  /\ tables'[row[i] + 2] = tables[row[i] + 2]
    BY <2>4, <1>4
  <2>6. /\ w0'[i] = w0[i]
        /\ gates[i].op \in {"Xor", "And"} =>
             w0'[gates[i].x] = w0[gates[i].x] /\ w0'[gates[i].y] = w0[gates[i].y]
        /\ gates[i].op = "Inv" => w0'[gates[i].x] = w0[gates[i].x]
    <3>1. i \in Nat /\ i <= n
      BY <1>2
    <3>2. 1..(i - 1) \subseteq 1..n
      BY <3>1, <1>2
    <3> QED BY <3>2, <1>3, <2>1, OperandsBefore DEF GInv
  <2>7. GarbledAt(i, row[i])'
    <3>1. /\ gates[i].op = "Constant" => tables'[row[i] + 1] = w0'[i] \oplus If(gates[i].x, delta)
          /\ gates[i].op = "Xor" => w0'[i] = w0'[gates[i].x] \oplus w0'[gates[i].y]
          /\ gates[i].op = "Inv" => w0'[i] = w0'[gates[i].x] \oplus delta
      BY <2>2, <2>5, <2>6 DEF GarbledAt
    <3>2. ASSUME gates[i].op = "And"
          PROVE  /\ w0'[i] = AndLabel(w0[gates[i].x], w0[gates[i].y], i - 1)
                 /\ tables'[row[i] + 1] = Table0(w0[gates[i].x], w0[gates[i].y], i - 1)
                 /\ tables'[row[i] + 2] = Table1(w0[gates[i].x], w0[gates[i].y], i - 1)
      BY <3>2, <2>2, <2>5, <2>6 DEF GarbledAt
    <3>3. gates[i].op = "And" =>
            w0'[gates[i].x] = w0[gates[i].x] /\ w0'[gates[i].y] = w0[gates[i].y]
      BY <2>6
    <3> QED BY <3>1, <3>2, <3>3, <1>5
            DEF GarbledAt, AndLabel, Table0, Table1, Half0, Half1
  <2> QED BY <2>2, <2>3, <2>7, <1>2
<1>10a. PICK k \in Nat : k = n + 1
  BY <1>2
<1>12. /\ more[k + 1] = more[k] + Rows(gates[k]) /\ more[k + 1] = t + Len(rows)
       /\ GarbledAt(k, more[k])'
  <2> DEFINE g == gates[n + 1]
             m == n + 1
  <2>1. more[n + 1] = t /\ more[n + 2] = t + Rows(g)
    BY <1>2, <1>9, <1>10
  <2>2. /\ g.op \in {"Xor", "And"} => w0'[g.x] = w0[g.x] /\ w0'[g.y] = w0[g.y]
        /\ g.op = "Inv" => w0'[g.x] = w0[g.x]
    <3>1. (n + 1) - 1 = n
      BY <1>2
    <3> QED BY <3>1, <1>3, <1>8, OperandsBefore DEF GInv
  <2>3. /\ g.op = "Constant" => tables'[t + 1] = rows[1]
        /\ g.op = "And" => tables'[t + 1] = rows[1] /\ tables'[t + 2] = rows[2]
    BY <1>4, <1>9 DEF Rows
  <2>4. Made(g, f, rows) /\ n = Len(w0)
    BY DEF n
  <2>5. /\ g.op = "Constant" => tables'[t + 1] = w0'[m] \oplus If(g.x, delta)
        /\ g.op = "Xor" => w0'[m] = w0'[g.x] \oplus w0'[g.y]
        /\ g.op = "Inv" => w0'[m] = w0'[g.x] \oplus delta
    BY <2>2, <2>3, <2>4, <1>3 DEF Made
  <2>6. g.op = "And" => /\ w0'[m] = AndLabel(w0[g.x], w0[g.y], n)
                        /\ tables'[t + 1] = Table0(w0[g.x], w0[g.y], n)
                        /\ tables'[t + 2] = Table1(w0[g.x], w0[g.y], n)
    BY <2>2, <2>3, <2>4, <1>3 DEF Made
  <2>7. g.op = "And" => w0'[g.x] = w0[g.x] /\ w0'[g.y] = w0[g.y]
    BY <2>2
  <2>8. k = m /\ k - 1 = n /\ k + 1 = n + 2
    BY <1>2, <1>10a
  <2>9. PICK r \in Nat : r = t
    BY <1>2
  <2>10. GarbledAt(k, r)'
    BY <2>5, <2>6, <2>7, <2>8, <2>9, <1>5, SMTT(30)
       DEF GarbledAt, AndLabel, Table0, Table1, Half0, Half1
  <2>11. GarbledAt(k, more[k])'
    BY <2>1, <2>10, <2>8, <2>9
  <2> QED BY <2>1, <2>11, <2>8, <1>10
<1>13. Layout(more)'
  <2>1. ASSUME NEW i \in 1..(n + 1)
        PROVE  /\ more[i + 1] = more[i] + Rows(gates[i]) /\ more[i + 1] <= t + Len(rows)
               /\ GarbledAt(i, more[i])'
    <3>1. CASE i \in 1..n
      BY <3>1, <1>11
    <3>2. CASE i = k
      <4>1. t \in Nat /\ Len(rows) \in Nat
        BY <1>2
      <4> QED BY <4>1, <3>2, <1>12
    <3> QED BY <3>1, <3>2, <1>2, <1>10a
  <2>2. Len(w0') + 1 = n + 2 /\ more[1] = 0 /\ more[Len(labels) + 1] = used
    BY <1>2, <1>3, <1>7, <1>9, <1>10
  <2> QED BY <2>1, <2>2, <1>2, <1>3, <1>4, <1>5, <1>10 DEF Layout, Rows
<1>14. GarbleTypes'
  BY <1>1, <1>2, <1>3, <1>4, <1>5, <1>7 DEF GInv, GarbleTypes, n
<1>15. Stages' /\ LabelsMatch'
  BY <1>5, <1>7 DEF GInv, Stages, LabelsMatch
<1> QED BY <1>6, <1>13, <1>14, <1>15 DEF GInv

LEMMA HashBlock ==
    ASSUME GInv, stage = "garble", Len(w0) < Len(gates), NEW x \in Block
    PROVE  Hash(key, x, 2 * Len(w0)) \in Block /\ Hash(key, x, 2 * Len(w0) + 1) \in Block
<1>1. Len(w0) \in Nat /\ Len(gates) \in Nat /\ Len(gates) <= MaxGates /\ MaxGates \in Nat
  BY CircuitBounds DEF GInv, GarbleTypes, BuilderInv, GraphInv, Wired
<1>2. 2 * Len(w0) \in 0..(2 * MaxGates - 1) /\ 2 * Len(w0) + 1 \in 0..(2 * MaxGates - 1)
  BY <1>1
<1>3. key \in GarbleKeys
  BY DEF GInv, Stages
<1> QED BY <1>2, <1>3, HashAssumption

\* Whatever gate comes next, garbling makes a label and entries for it.
LEMMA GarbleMakes ==
    ASSUME GInv, Garble
    PROVE  /\ Len(w0) < Len(gates)
           /\ \E f \in Block, rows \in Seq(Block) :
                Garbled(f, rows) /\ Made(gates[Len(w0) + 1], f, rows)
<1> DEFINE g == gates[Len(w0) + 1]
<1>1. /\ stage = "garble" /\ UNCHANGED <<bvars, stage, value, delta, key, labels, used>>
      /\ delta \in Block /\ w0 \in Seq(Block) /\ gates \in Seq(Gate)
  BY DEF Garble, GInv, GarbleTypes, BuilderInv, GraphInv, Wired
<1>2. /\ <<>> \in Seq(Block) /\ Len(<<>>) = 0
      /\ \A u \in Block : <<u>> \in Seq(Block) /\ Len(<<u>>) = 1 /\ <<u>>[1] = u
      /\ \A u, z \in Block : /\ <<u, z>> \in Seq(Block) /\ Len(<<u, z>>) = 2
                             /\ <<u, z>>[1] = u /\ <<u, z>>[2] = z
  OBVIOUS
<1>3. ASSUME Len(w0) < Len(gates)
      PROVE  /\ g.op \in {"Xor", "And"} => w0[g.x] \in Block /\ w0[g.y] \in Block
             /\ g.op = "Inv" => w0[g.x] \in Block
  <2>1. Len(w0) + 1 \in DOMAIN gates /\ (Len(w0) + 1) - 1 = Len(w0)
    BY <1>1, <1>3
  <2>2. \A i \in 1..Len(w0) : w0[i] \in Block
    BY <1>1
  <2> QED BY <2>1, <2>2, OperandsBefore DEF GInv
<1>4. CASE GarbleInput
  <2>1. PICK f \in Block : Garbled(f, <<>>)
    BY <1>4 DEF GarbleInput
  <2>2. Len(w0) < Len(gates) /\ g.op = "Input"
    BY <1>4 DEF GarbleInput, At
  <2>3. Made(g, f, <<>>)
    BY <2>2, <1>2 DEF Made, Rows
  <2> QED BY <2>1, <2>2, <2>3, <1>1, <1>2
<1>5. CASE GarbleConstant
  <2>1. PICK b \in Block : Garbled(b \cup {Lsb}, <<(b \cup {Lsb}) \oplus If(g.x, delta)>>)
    BY <1>5 DEF GarbleConstant
  <2>2. Len(w0) < Len(gates) /\ g.op = "Constant"
    BY <1>5 DEF GarbleConstant, At
  <2> DEFINE f == b \cup {Lsb}
             e == f \oplus If(g.x, delta)
  <2>3. f \in Block
    BY LsbAssumption DEF Block
  <2> HIDE DEF f
  <2>4. e \in Block
    BY <2>3, <1>1, XorBlock, IfBlock
  <2>5. Made(g, f, <<e>>) /\ <<e>> \in Seq(Block)
    BY <2>2, <2>4, <1>2 DEF Made, Rows
  <2>6. Garbled(f, <<e>>)
    BY <2>1 DEF f
  <2> HIDE DEF e
  <2> QED BY <2>2, <2>3, <2>5, <2>6, <1>1
<1>6. CASE GarbleXor
  <2>1. Garbled(w0[g.x] \oplus w0[g.y], <<>>)
    BY <1>6 DEF GarbleXor
  <2>2. Len(w0) < Len(gates) /\ g.op = "Xor"
    BY <1>6 DEF GarbleXor, At
  <2>3. w0[g.x] \oplus w0[g.y] \in Block
    BY <2>2, <1>3, XorBlock
  <2>4. Made(g, w0[g.x] \oplus w0[g.y], <<>>)
    BY <2>2, <1>2 DEF Made, Rows
  <2> QED BY <2>1, <2>2, <2>3, <2>4, <1>1, <1>2
<1>7. CASE GarbleInv
  <2>1. Garbled(w0[g.x] \oplus delta, <<>>)
    BY <1>7 DEF GarbleInv
  <2>2. Len(w0) < Len(gates) /\ g.op = "Inv"
    BY <1>7 DEF GarbleInv, At
  <2>3. w0[g.x] \oplus delta \in Block
    BY <2>2, <1>1, <1>3, XorBlock
  <2>4. Made(g, w0[g.x] \oplus delta, <<>>)
    BY <2>2, <1>2 DEF Made, Rows
  <2> QED BY <2>1, <2>2, <2>3, <2>4, <1>1, <1>2
<1>8. CASE GarbleAnd
  <2> DEFINE x == w0[g.x]
             y == w0[g.y]
             i == Len(w0)
             f == AndLabel(x, y, i)
             t0 == Table0(x, y, i)
             t1 == Table1(x, y, i)
  <2>1. Garbled(f, <<t0, t1>>)
    BY <1>8 DEF GarbleAnd
  <2>2. Len(w0) < Len(gates) /\ g.op = "And"
    BY <1>8 DEF GarbleAnd, At
  <2>3. x \in Block /\ y \in Block
    BY <2>2, <1>3
  <2>4. /\ x \oplus delta \in Block /\ y \oplus delta \in Block
        /\ (IF lsb(x) = 1 THEN x \oplus delta ELSE x) \in Block
        /\ (IF lsb(y) = 1 THEN y \oplus delta ELSE y) \in Block
    BY <2>3, <1>1, XorBlock
  <2>5. \A u \in Block : Hash(key, u, 2 * i) \in Block /\ Hash(key, u, 2 * i + 1) \in Block
    BY <2>2, <1>1, HashBlock
  <2> HIDE DEF x, y, i
  <2>6. f \in Block
    BY <2>4, <2>5, <1>1, XorBlock, IfBlock DEF AndLabel
  <2>7. Half0(x, i) \in Block /\ Half1(y, i) \in Block
    BY <2>3, <2>4, <2>5, XorBlock DEF Half0, Half1
  <2>8. t0 \in Block /\ t1 \in Block
    BY <2>3, <2>7, <1>1, XorBlock, IfBlock DEF Table0, Table1
  <2> HIDE DEF f, t0, t1
  <2>9. <<t0, t1>> \in Seq(Block) /\ Made(g, f, <<t0, t1>>)
    BY <2>2, <2>8, <1>2 DEF Made, Rows, f, t0, t1, x, y, i
  <2> QED BY <2>1, <2>2, <2>6, <2>9, <1>1
<1> QED BY <1>4, <1>5, <1>6, <1>7, <1>8 DEF Garble

LEMMA GarbleKeeps ==
    ASSUME GInv, Garble
    PROVE  GInv'
  BY GarbleMakes, GarbleStep DEF Garble

-----------------------------------------------------------------------------
(* Evaluating one gate.                                                    *)

LEMMA EvaluateStep ==
    ASSUME GInv, stage = "evaluate", NEW l, Len(labels) < Len(gates),
           l = w0[Len(labels) + 1] \oplus If(value[Len(labels) + 1], delta),
           Evaluated(l, Rows(gates[Len(labels) + 1])),
           UNCHANGED <<bvars, value, delta, key, w0, tables>>
    PROVE  GInv'
<1>1. /\ gates' = gates /\ stage' = stage /\ value' = value /\ delta' = delta /\ key' = key
      /\ w0' = w0 /\ tables' = tables
  BY DEF bvars, Evaluated
<1>2. /\ w0 \in Seq(Block) /\ labels \in Seq(Block) /\ Len(w0) = Len(gates) /\ delta \in Block
      /\ Len(labels) \in Nat /\ Len(w0) \in Nat
  BY DEF GInv, GarbleTypes, Stages
<1>3. Len(labels) + 1 \in 1..Len(w0) /\ w0[Len(labels) + 1] \in Block
  BY <1>2
<1>4. l \in Block
  BY <1>2, <1>3, XorBlock, IfBlock
<1>5. /\ labels' = Append(labels, l) /\ labels' \in Seq(Block) /\ Len(labels') = Len(labels) + 1
      /\ labels'[Len(labels) + 1] = l /\ \A i \in DOMAIN labels : labels'[i] = labels[i]
  BY <1>2, <1>4 DEF Evaluated
<1>6. BuilderInv' /\ Len(gates') <= MaxGates
  BY <1>1, BuilderStays DEF GInv
<1>7. GarbleTypes'
  BY <1>1, <1>2, <1>3, <1>5 DEF GInv, GarbleTypes
<1>8. Stages'
  BY <1>1 DEF GInv, Stages
<1>9. LabelsMatch'
  <2>1. ASSUME NEW i \in DOMAIN labels'
        PROVE  labels'[i] = w0[i] \oplus If(value[i], delta)
    <3>1. i \in DOMAIN labels \/ i = Len(labels) + 1
      BY <1>2, <1>5
    <3> QED BY <3>1, <1>5 DEF GInv, LabelsMatch
  <2> QED BY <2>1, <1>1 DEF LabelsMatch
<1> PICK row : Layout(row) BY DEF GInv
<1>10. used' = row[Len(labels) + 1 + 1]
  BY <1>3 DEF Layout, Evaluated
<1>11. \A i \in 1..Len(w0) : GarbledAt(i, row[i]) => GarbledAt(i, row[i])'
  BY <1>1, SMTT(30) DEF GarbledAt, AndLabel, Table0, Table1, Half0, Half1
<1>12. Layout(row)'
  BY <1>1, <1>5, <1>10, <1>11 DEF Layout
<1> QED BY <1>6, <1>7, <1>8, <1>9, <1>12 DEF GInv

\* A step that changes only the stage, to one whose claims hold already.
LEMMA StageStep ==
    ASSUME GInv, UNCHANGED <<bvars, value, delta, key, w0, tables, labels, used>>,
           Stages'
    PROVE  GInv'
<1>1. /\ gates' = gates /\ value' = value /\ delta' = delta /\ key' = key
      /\ w0' = w0 /\ tables' = tables /\ labels' = labels /\ used' = used
  BY DEF bvars
<1>2. BuilderInv' /\ Len(gates') <= MaxGates
  BY <1>1, BuilderStays DEF GInv
<1>3. GarbleTypes' /\ LabelsMatch'
  BY <1>1 DEF GInv, GarbleTypes, LabelsMatch
<1> PICK row : Layout(row) BY DEF GInv
<1>4. \A i \in 1..Len(w0) : GarbledAt(i, row[i]) => GarbledAt(i, row[i])'
  BY <1>1 DEF GarbledAt, AndLabel, Table0, Table1, Half0, Half1
<1>5. Layout(row)'
  BY <1>1, <1>4 DEF Layout
<1> QED BY <1>2, <1>3, <1>5 DEF GInv

LEMMA ShortKeeps ==
    ASSUME GInv, stage = "evaluate", Short, UNCHANGED <<bvars, value, delta, key, w0, tables>>
    PROVE  GInv'
<1>1. Stages'
  BY DEF GInv, Stages, Short, bvars
<1> QED BY <1>1, StageStep DEF Short

LEMMA EvaluateKeeps ==
    ASSUME GInv, Evaluate
    PROVE  GInv'
<1> DEFINE n == Len(labels)
           g == gates[n + 1]
           v == value
<1>1. stage = "evaluate" /\ UNCHANGED <<bvars, value, delta, key, w0, tables>>
  BY DEF Evaluate
<1>2. /\ labels \in Seq(Block) /\ w0 \in Seq(Block) /\ tables \in Seq(Block)
      /\ gates \in Seq(Gate) /\ n \in Nat
      /\ Len(w0) = Len(gates) /\ Lsb \in delta /\ v \in Valuations(gates)
  BY <1>1 DEF GInv, GarbleTypes, Stages, BuilderInv, GraphInv, Wired
<1>3. SUFFICES ASSUME n < Len(gates) PROVE GInv'
  BY DEF Evaluate, EvaluateInput, EvaluateConstant, EvaluateXor, EvaluateAnd, EvaluateInv, At
<1>4. n + 1 \in DOMAIN gates /\ n + 1 \in 1..Len(w0) /\ (n + 1) - 1 = n /\ DOMAIN labels = 1..n
  BY <1>2, <1>3
<1>5. /\ g \in Gate
      /\ g.op \in {"Xor", "And"} => g.x \in DOMAIN labels /\ g.y \in DOMAIN labels
      /\ g.op = "Inv" => g.x \in DOMAIN labels
      /\ g.op = "Constant" => g.x \in Bit
  BY <1>4, OperandsBefore DEF GInv
<1>6. /\ g.op # "Input" => v[n + 1] = Value(g, v)
      /\ \A j \in DOMAIN labels : v[j] \in Bit /\ labels[j] = w0[j] \oplus If(v[j], delta)
  <2>1. \A j \in DOMAIN labels : j \in DOMAIN gates
    BY <1>2, <1>3, <1>4
  <2> QED BY <2>1, <1>2, <1>4 DEF Valuations, Valuation, GInv, LabelsMatch
<1> PICK row : Layout(row) BY DEF GInv
<1>7. GarbledAt(n + 1, used)
  BY <1>4 DEF Layout
<1> DEFINE l == w0[n + 1] \oplus If(v[n + 1], delta)
<1>8. SUFFICES ASSUME ~ Short PROVE Evaluated(l, Rows(g))
  BY <1>1, <1>3, ShortKeeps, EvaluateStep
<1>9. CASE EvaluateInput
  <2>1. Evaluated(l, 0) /\ g.op = "Input"
    BY <1>9 DEF EvaluateInput, At
  <2> QED BY <2>1 DEF Rows
<1>10. CASE EvaluateConstant
  <2>1. Evaluated(tables[used + 1], 1) /\ g.op = "Constant"
    BY <1>10, <1>8 DEF EvaluateConstant, At
  <2>2. tables[used + 1] = l
    BY <2>1, <1>6, <1>7 DEF GarbledAt, Value
  <2> QED BY <2>1, <2>2 DEF Rows
<1>11. CASE EvaluateXor
  <2>1. Evaluated(labels[g.x] \oplus labels[g.y], 0) /\ g.op = "Xor"
    BY <1>11 DEF EvaluateXor, At
  <2>2. v[n + 1] = IF v[g.x] = v[g.y] THEN 0 ELSE 1
    BY <2>1, <1>6 DEF Value
  <2>3. w0[n + 1] = w0[g.x] \oplus w0[g.y]
    BY <2>1, <1>7 DEF GarbledAt
  <2>4. labels[g.x] \oplus labels[g.y] = l
    BY <2>1, <2>2, <2>3, <1>5, <1>6, FreeXor
  <2> QED BY <2>1, <2>4 DEF Rows
<1>12. CASE EvaluateInv
  <2>1. Evaluated(labels[g.x], 0) /\ g.op = "Inv"
    BY <1>12 DEF EvaluateInv, At
  <2>2. v[n + 1] = 1 - v[g.x]
    BY <2>1, <1>6 DEF Value
  <2>3. w0[n + 1] = w0[g.x] \oplus delta
    BY <2>1, <1>7 DEF GarbledAt
  <2>4. labels[g.x] = l
    BY <2>1, <2>2, <2>3, <1>5, <1>6, FreeInv
  <2> QED BY <2>1, <2>4 DEF Rows
<1>13. CASE EvaluateAnd
  <2> DEFINE x == w0[g.x]
             y == w0[g.y]
  <2>1. /\ Evaluated(OpenedAnd(labels[g.x], labels[g.y], tables[used + 1], tables[used + 2], n), 2)
        /\ g.op = "And"
    BY <1>13, <1>8 DEF EvaluateAnd, At
  <2>2. v[n + 1] = IF v[g.x] = 1 /\ v[g.y] = 1 THEN 1 ELSE 0
    BY <2>1, <1>6 DEF Value
  <2>3. /\ w0[n + 1] = AndLabel(x, y, n)
        /\ tables[used + 1] = Table0(x, y, n) /\ tables[used + 2] = Table1(x, y, n)
    BY <2>1, <1>4, <1>7 DEF GarbledAt
  <2>4. /\ labels[g.x] = x \oplus If(v[g.x], delta) /\ v[g.x] \in Bit
        /\ labels[g.y] = y \oplus If(v[g.y], delta) /\ v[g.y] \in Bit
    BY <2>1, <1>5, <1>6
  <2>5. x \in Block /\ y \in Block
    <3>1. 1..n \subseteq 1..Len(w0)
      BY <1>2, <1>3
    <3> QED BY <3>1, <2>1, <1>2, <1>4, <1>5
  <2>6. OpenedAnd(labels[g.x], labels[g.y], tables[used + 1], tables[used + 2], n) = l
    BY <2>2, <2>3, <2>4, <2>5, <1>2, AndOpens, SMTT(30)
  <2> QED BY <2>1, <2>6 DEF Rows
<1> QED BY <1>9, <1>10, <1>11, <1>12, <1>13 DEF Evaluate

-----------------------------------------------------------------------------
(* The other steps.                                                        *)

LEMMA ConstructKeeps ==
    ASSUME GInv, Construct
    PROVE  GInv'
<1>1. /\ stage = "build" /\ Next /\ UNCHANGED gvars
      /\ w0 = <<>> /\ tables = <<>> /\ labels = <<>> /\ used = 0
  BY DEF Construct, GInv, Stages
<1>2. BuilderInv' /\ Len(gates') <= MaxGates
  BY <1>1, BuilderStep, SizeStep DEF GInv
<1>3. GarbleTypes'
  <2>1. Len(gates') \in Nat
    BY <1>2 DEF BuilderInv, GraphInv, Wired
  <2> QED BY <2>1, <1>1 DEF GInv, GarbleTypes, gvars
<1>4. Stages' /\ LabelsMatch'
  BY <1>1 DEF Stages, LabelsMatch, gvars
<1>5. PICK row : row = [i \in 1..1 |-> 0]
  OBVIOUS
<1>6. Layout(row)'
  BY <1>1, <1>5 DEF Layout, gvars
<1> QED BY <1>2, <1>3, <1>4, <1>6 DEF GInv

LEMMA SetupKeeps ==
    ASSUME GInv, Setup
    PROVE  GInv'
<1>1. /\ UNCHANGED <<bvars, w0, tables, labels, used>>
      /\ w0 = <<>> /\ tables = <<>> /\ labels = <<>> /\ used = 0
      /\ stage' = "garble" /\ gates' = gates
  BY DEF Setup, GInv, Stages, bvars
<1>2. BuilderInv' /\ Len(gates') <= MaxGates
  BY <1>1, BuilderStays DEF GInv
<1>3. delta' \in Block /\ Lsb \in delta'
  BY LsbAssumption DEF Setup, Offset, Block
<1>4. GarbleTypes'
  BY <1>1, <1>3 DEF GInv, GarbleTypes
<1>5. Stages' /\ LabelsMatch'
  BY <1>1, <1>3 DEF Setup, Stages, LabelsMatch
<1>6. PICK row : row = [i \in 1..1 |-> 0]
  OBVIOUS
<1>7. Layout(row)'
  BY <1>1, <1>6 DEF Layout
<1> QED BY <1>2, <1>4, <1>5, <1>7 DEF GInv

LEMMA GarbledStep ==
    ASSUME GInv, [GNext]_vars
    PROVE  GInv'
<1>1. CASE Receive
  <2>1. Stages'
    BY <1>1 DEF Receive, GInv, Stages, bvars
  <2> QED BY <1>1, <2>1, StageStep DEF Receive
<1>2. CASE Finished
  <2>1. Stages'
    BY <1>2 DEF Finished, GInv, Stages, bvars
  <2> QED BY <1>2, <2>1, StageStep DEF Finished
<1>3. CASE UNCHANGED vars
  <2>1. Stages' /\ UNCHANGED <<bvars, value, delta, key, w0, tables, labels, used>>
    BY <1>3 DEF vars, bvars, GInv, Stages
  <2> QED BY <2>1, StageStep
<1> QED BY <1>1, <1>2, <1>3, ConstructKeeps, SetupKeeps, GarbleKeeps, EvaluateKeeps DEF GNext

-----------------------------------------------------------------------------
(* Theorems.                                                               *)

\* Half gates, free xor and free inversion are correct together: whatever the
\* circuit, the hash and the labels drawn, evaluation yields for every wire
\* the label of its plaintext value.
THEOREM LabelsCorrect == GSpec => []LabelsMatch
<1>1. GInv => LabelsMatch BY DEF GInv
<1>2. GInit => GInv BY InitGarbled
<1>3. GInv /\ [GNext]_vars => GInv' BY GarbledStep
<1> QED BY <1>1, <1>2, <1>3, PTL DEF GSpec

\* The garblers accept and decode an evaluated circuit: the lowest bit of the
\* offset is what makes decoding by the lowest bits of two labels right.
THEOREM Decoding == GSpec => []DecodesRight
<1>1. GInv => DecodesRight
  <2> SUFFICES ASSUME GInv, stage = "done", NEW i \in DOMAIN gates
               PROVE  Matches(labels[i], w0[i]) /\ Decode(labels[i], w0[i]) = value[i]
    BY DEF DecodesRight
  <2>1. Lsb \in delta /\ value[i] \in Bit /\ labels[i] = w0[i] \oplus If(value[i], delta)
    <3>1. /\ labels \in Seq(Block) /\ gates \in Seq(Gate) /\ Len(labels) = Len(gates)
          /\ value \in Valuations(gates) /\ Lsb \in delta
      BY DEF GInv, GarbleTypes, Stages, BuilderInv, GraphInv, Wired
    <3>2. i \in DOMAIN labels
      BY <3>1
    <3> QED BY <3>1, <3>2 DEF GInv, LabelsMatch, Valuations
  <2>2. CASE value[i] = 0
    <3>1. labels[i] = w0[i]
      BY <2>1, <2>2 DEF If, \oplus
    <3> QED BY <3>1, <2>2 DEF Matches, Decode
  <2>3. CASE value[i] = 1
    <3>1. labels[i] = w0[i] \oplus delta
      BY <2>1, <2>3 DEF If
    <3>2. lsb(w0[i] \oplus delta) = 1 - lsb(w0[i]) /\ lsb(w0[i]) \in Bit
      BY <2>1, OtherLsb
    <3>3. lsb(labels[i]) # lsb(w0[i])
      BY <3>1, <3>2 DEF Bit
    <3> QED BY <3>1, <3>3, <2>3 DEF Matches, Decode
  <2> QED BY <2>1, <2>2, <2>3 DEF Bit
<1>2. GInit => GInv BY InitGarbled
<1>3. GInv /\ [GNext]_vars => GInv' BY GarbledStep
<1> QED BY <1>1, <1>2, <1>3, PTL DEF GSpec

-----------------------------------------------------------------------------
(* The length of the tables.                                               *)

\* row[i] is the number of entries before those of gate i of gs, total that
\* of all its gates.
Counted(row, gs, total) ==
    /\ row \in [1..(Len(gs) + 1) -> 0..total]
    /\ row[1] = 0 /\ row[Len(gs) + 1] = total
    /\ \A i \in 1..Len(gs) : row[i + 1] = row[i] + Rows(gs[i])

FitInv ==
    /\ nonfree \in Nat /\ stage # "error"
    /\ \E row : /\ Counted(row, gates, Complen)
                /\ Len(tables) = row[Len(w0) + 1]
                /\ used = row[Len(labels) + 1]

LEMMA CountMore ==
    ASSUME NEW gs \in Seq(Gate), NEW g \in Gate, NEW total \in Nat,
           NEW row, Counted(row, gs, total)
    PROVE  \E more : Counted(more, Append(gs, g), total + Rows(g)) /\ more[1] = 0
<1> DEFINE n == Len(gs)
           hs == Append(gs, g)
           new == total + Rows(g)
           more == [i \in 1..(n + 2) |-> IF i = n + 2 THEN new ELSE row[i]]
<1>1. n \in Nat /\ Rows(g) \in Nat /\ new \in Nat
  BY DEF Rows
<1>2. Len(hs) = n + 1 /\ hs[n + 1] = g /\ \A i \in 1..n : hs[i] = gs[i]
  OBVIOUS
<1>3. /\ row \in [1..(n + 1) -> 0..total] /\ row[1] = 0 /\ row[n + 1] = total
      /\ \A i \in 1..n : row[i + 1] = row[i] + Rows(gs[i])
  BY DEF Counted
<1> HIDE DEF n, hs
<1>4. 0..total \subseteq 0..new
  BY <1>1
<1> HIDE DEF new
<1>5. \A i \in 1..(n + 2) : i = n + 2 \/ (i \in 1..(n + 1) /\ i # n + 2)
  BY <1>1
<1>6. more \in [1..(n + 2) -> 0..new]
  <2>1. \A i \in 1..(n + 1) : row[i] \in 0..new
    BY <1>3, <1>4
  <2>2. new \in 0..new
    BY <1>1
  <2> QED BY <1>5, <2>1, <2>2
<1>7. /\ more[1] = 0 /\ more[n + 2] = new
      /\ \A i \in 1..(n + 1) : more[i] = row[i]
  BY <1>1, <1>3
<1> HIDE DEF more
<1>8. ASSUME NEW i \in 1..(n + 1) PROVE more[i + 1] = more[i] + Rows(hs[i])
  <2>1. CASE i \in 1..n
    <3>1. i + 1 \in 1..(n + 1)
      BY <2>1, <1>1
    <3> QED BY <3>1, <2>1, <1>2, <1>3, <1>7
  <2>2. CASE i = n + 1
    <3>1. i + 1 = n + 2
      BY <2>2, <1>1
    <3> QED BY <3>1, <2>2, <1>2, <1>3, <1>7 DEF new
  <2> QED BY <2>1, <2>2, <1>1
<1>9. Len(hs) + 1 = n + 2
  BY <1>1, <1>2
<1>10. Counted(more, hs, new)
  BY <1>2, <1>6, <1>7, <1>8, <1>9 DEF Counted
<1> QED BY <1>7, <1>10 DEF hs, new

\* Inputs have no entries.
LEMMA CountInputs ==
    ASSUME NEW gs \in Seq(Gate), NEW inputs \in Seq(Gate), NEW total \in Nat,
           \A i \in 1..Len(inputs) : inputs[i].op = "Input",
           NEW row, Counted(row, gs, total)
    PROVE  \E more : Counted(more, gs \o inputs, total) /\ more[1] = 0
<1> DEFINE n == Len(gs)
           k == Len(inputs)
           hs == gs \o inputs
           more == [i \in 1..(n + k + 1) |-> IF i <= n THEN row[i] ELSE total]
<1>1. n \in Nat /\ k \in Nat
  OBVIOUS
<1>2. Len(hs) = n + k /\ \A i \in 1..(n + k) : hs[i] = IF i <= n THEN gs[i] ELSE inputs[i - n]
  BY ConcatProperties
<1>3. /\ row \in [1..(n + 1) -> 0..total] /\ row[1] = 0 /\ row[n + 1] = total
      /\ \A i \in 1..n : row[i + 1] = row[i] + Rows(gs[i])
  BY DEF Counted
<1> HIDE DEF n, k, hs
<1>4. more \in [1..(n + k + 1) -> 0..total]
  <2>1. \A i \in 1..(n + k + 1) : i <= n => i \in 1..(n + 1)
    BY <1>1
  <2> QED BY <2>1, <1>3
<1>5. /\ more[1] = 0 /\ more[n + k + 1] = total
      /\ \A i \in 1..(n + 1) : more[i] = row[i]
      /\ \A i \in (n + 1)..(n + k + 1) : more[i] = total
  BY <1>1, <1>3
<1> HIDE DEF more
<1>6. ASSUME NEW i \in 1..(n + k) PROVE more[i + 1] = more[i] + Rows(hs[i])
  <2>1. CASE i <= n
    <3>1. i \in 1..n /\ i \in 1..(n + 1) /\ i + 1 \in 1..(n + 1)
      BY <2>1, <1>1
    <3> QED BY <3>1, <2>1, <1>2, <1>3, <1>5
  <2>2. CASE i > n
    <3>1. i \in (n + 1)..(n + k + 1) /\ i + 1 \in (n + 1)..(n + k + 1) /\ i - n \in 1..k
      BY <2>2, <1>1
    <3>2. hs[i] = inputs[i - n] /\ ~(i <= n)
      BY <2>2, <1>1, <1>2
    <3>3. Rows(hs[i]) = 0
      BY <3>1, <3>2 DEF Rows, k
    <3>4. more[i] = total /\ more[i + 1] = total
      BY <3>1, <1>5
    <3> QED BY <3>3, <3>4
  <2> QED BY <2>1, <2>2, <1>1
<1>7. Counted(more, hs, total)
  BY <1>2, <1>4, <1>5, <1>6 DEF Counted
<1> QED BY <1>5, <1>7 DEF hs

\* The builder counts the gates it appends.
CountInv == nonfree \in Nat /\ \E row : Counted(row, gates, Complen) /\ row[1] = 0

LEMMA PushCounts ==
    ASSUME BuilderInv, CountInv, NEW g \in Gate, gates' = Append(gates, g),
           nonfree' \in Nat, Complen' = Complen + Rows(g)
    PROVE  CountInv'
<1>1. gates \in Seq(Gate) /\ Complen \in Nat
  BY DEF BuilderInv, GraphInv, Wired, CountInv, Complen, NumConstants
<1>2. PICK row : Counted(row, gates, Complen)
  BY DEF CountInv
<1>3. PICK more : Counted(more, Append(gates, g), Complen + Rows(g)) /\ more[1] = 0
  BY <1>1, <1>2, CountMore
<1>4. Counted(more, gates, Complen)'
  BY <1>3 DEF Counted
<1> QED BY <1>3, <1>4 DEF CountInv

LEMMA XorCounts ==
    ASSUME BuilderInv, CountInv, NEW xid \in DOMAIN gates, NEW yid \in DOMAIN gates,
           AddXor(xid, yid)
    PROVE  CountInv'
<1>1. Xor(xid, yid) \in Gate /\ Rows(Xor(xid, yid)) = 0
  BY DEF Xor, Gate, Rows, BuilderInv, GraphInv, Wired
<1>2. Complen' = Complen + 0 /\ nonfree' \in Nat
  BY DEF AddXor, Complen, NumConstants, CountInv
<1> QED BY <1>1, <1>2, PushCounts DEF AddXor

LEMMA AndCounts ==
    ASSUME BuilderInv, CountInv, NEW xid \in DOMAIN gates, NEW yid \in DOMAIN gates,
           AddAnd(xid, yid)
    PROVE  CountInv'
<1>1. And(xid, yid) \in Gate /\ Rows(And(xid, yid)) = 2
  BY DEF And, Gate, Rows, BuilderInv, GraphInv, Wired
<1>2. Complen' = Complen + 2 /\ nonfree' \in Nat
  BY DEF AddAnd, Complen, NumConstants, CountInv
<1> QED BY <1>1, <1>2, PushCounts DEF AddAnd

LEMMA NegateCounts ==
    ASSUME BuilderInv, CountInv, NEW xid \in DOMAIN gates, Negate(xid)
    PROVE  CountInv'
<1>1. Inv(xid) \in Gate /\ Rows(Inv(xid)) = 0
  BY DEF Inv, Gate, Rows, BuilderInv, GraphInv, Wired
<1>2. Complen' = Complen + 0 /\ nonfree' \in Nat
  BY DEF Negate, Complen, NumConstants, CountInv
<1> QED BY <1>1, <1>2, PushCounts DEF Negate

LEMMA SameCounts ==
    ASSUME CountInv, gates' = gates, constWire' = constWire, nonfree' = nonfree
    PROVE  CountInv'
<1>1. Complen' = Complen
  BY DEF Complen, NumConstants
<1> PICK row : Counted(row, gates, Complen) /\ row[1] = 0
  BY DEF CountInv
<1>2. Counted(row, gates, Complen)'
  BY <1>1 DEF Counted
<1> QED BY <1>2 DEF CountInv

LEMMA ConstantCounts ==
    ASSUME BuilderInv, CountInv, NEW val \in Bit, AddConstant(val)
    PROVE  CountInv'
<1>1. CASE constWire[val] # 0
  BY <1>1, SameCounts DEF AddConstant, builder
<1>2. CASE constWire[val] = 0
  <2>1. Constant(val) \in Gate /\ Rows(Constant(val)) = 1
    BY DEF Constant, Gate, Rows, Bit
  <2>2. /\ gates' = Append(gates, Constant(val)) /\ nonfree' = nonfree
        /\ constWire' = [constWire EXCEPT ![val] = NextWire]
    BY <1>2 DEF AddConstant
  <2>3. constWire \in [Bit -> Nat] /\ NextWire \in Nat \ {0} /\ nonfree \in Nat
    BY DEF BuilderInv, GraphInv, Wired, NextWire, CountInv
  <2>4. /\ constWire'[val] # 0 /\ constWire[val] = 0
        /\ \A b \in Bit : b # val => constWire'[b] = constWire[b]
    BY <1>2, <2>2, <2>3
  <2>5. NumConstants(constWire') = NumConstants(constWire) + 1
    <3>1. CASE val = 0 BY <3>1, <2>4 DEF NumConstants, Bit
    <3>2. CASE val = 1 BY <3>2, <2>4 DEF NumConstants, Bit
    <3> QED BY <3>1, <3>2 DEF Bit
  <2>6. NumConstants(constWire) \in Nat
    BY DEF NumConstants
  <2>7. Complen' = Complen + 1
    BY <2>2, <2>3, <2>5, <2>6 DEF Complen
  <2> QED BY <2>1, <2>2, <2>3, <2>7, PushCounts
<1> QED BY <1>1, <1>2

LEMMA InputCounts ==
    ASSUME BuilderInv, CountInv, NEW n \in 1..MaxWidth, NewInputs(n)
    PROVE  CountInv'
<1> DEFINE new == [i \in 1..n |-> Input(Len(groups) + 1, i)]
<1>1. /\ gates \in Seq(Gate) /\ Complen \in Nat /\ nonfree \in Nat
      /\ n \in Nat /\ Len(groups) + 1 \in Nat
  BY CircuitBounds DEF BuilderInv, GraphInv, Wired, CountInv, Complen, NumConstants
<1>2. new \in Seq(Gate) /\ Len(new) = n /\ \A i \in 1..n : new[i].op = "Input"
  BY <1>1 DEF Input, Gate
<1>3. gates' = gates \o new /\ constWire' = constWire /\ nonfree' = nonfree
  BY DEF NewInputs
<1> HIDE DEF new
<1>4. Complen' = Complen
  BY <1>3 DEF Complen, NumConstants
<1>5. PICK row : Counted(row, gates, Complen)
  BY DEF CountInv
<1>6. PICK more : Counted(more, gates \o new, Complen) /\ more[1] = 0
  BY <1>1, <1>2, <1>5, CountInputs
<1>7. Counted(more, gates, Complen)'
  BY <1>3, <1>4, <1>6 DEF Counted
<1> QED BY <1>1, <1>3, <1>6, <1>7 DEF CountInv

LEMMA InitCounts ==
    ASSUME gates = <<>>, constWire = NoConst, nonfree = 0
    PROVE  CountInv
<1>1. Complen = 0
  BY DEF Complen, NumConstants, NoConst, Bit
<1>2. Counted([i \in 1..1 |-> 0], gates, Complen) /\ [i \in 1..1 |-> 0][1] = 0
  BY <1>1 DEF Counted
<1> QED BY <1>2 DEF CountInv

LEMMA NextCounts ==
    ASSUME BuilderInv, CountInv, Next
    PROVE  CountInv'
<1>1. CASE Build
  BY <1>1, XorCounts, AndCounts, NegateCounts, ConstantCounts, InputCounts DEF Build
<1>2. CASE Finish
  <2>1. (gates = <<>> /\ constWire = NoConst /\ nonfree = 0)'
    BY <1>2 DEF Finish, NoConst
  <2>2. Complen' = 0
    BY <2>1 DEF Complen, NumConstants, NoConst, Bit
  <2>3. PICK row : row = [i \in 1..1 |-> 0]
    OBVIOUS
  <2>4. Counted(row, gates, Complen)' /\ row[1] = 0
    BY <2>1, <2>2, <2>3 DEF Counted
  <2> QED BY <2>1, <2>4 DEF CountInv
<1>3. CASE BeginAddCircuit \/ EndAddCircuit
  BY <1>3, SameCounts DEF BeginAddCircuit, EndAddCircuit, builder
<1>4. CASE EmbedGate
  <2> PICK c \in other : Len(map) < Len(c.gates) /\ CopyGate(c.gates[Len(map) + 1])
    BY <1>4 DEF EmbedGate
  <2> DEFINE g == c.gates[Len(map) + 1]
  <2>1. /\ map \in Seq(Nat) /\ c.gates \in Seq(Gate) /\ Topological(c.gates)
        /\ \A k \in DOMAIN map : map[k] \in DOMAIN gates
    BY <1>4 DEF EmbedGate, BuilderInv, CopyInv, OtherInv, Wired
  <2>2. /\ Len(map) \in Nat /\ DOMAIN map = 1..Len(map) /\ Len(map) + 1 \in DOMAIN c.gates
        /\ (Len(map) + 1) - 1 = Len(map)
    BY <2>1
  <2>3. g \in Gate /\ Operands(g) \subseteq DOMAIN map
    <3>1. Operands(g) \subseteq 1..((Len(map) + 1) - 1)
      BY <2>1, <2>2 DEF Topological
    <3> QED BY <3>1, <2>1, <2>2
  <2>4. g.op = "Constant" => g.x \in Bit
    BY <2>2 DEF BuilderInv, OtherInv, Wired, ConstantBits
  <2>5. /\ g.op \in {"Xor", "And"} => map[g.x] \in DOMAIN gates /\ map[g.y] \in DOMAIN gates
        /\ g.op = "Inv" => map[g.x] \in DOMAIN gates
    BY <2>1, <2>3, OperandsOf
  <2> HIDE DEF g
  <2>6. CopyGate(g)
    BY DEF g
  <2>7. g.op = "Input" /\ UNCHANGED builder => CountInv'
    BY SameCounts DEF builder
  <2> QED BY <2>4, <2>5, <2>6, <2>7, XorCounts, AndCounts, NegateCounts, ConstantCounts
          DEF CopyGate
<1> QED BY <1>1, <1>2, <1>3, <1>4 DEF Next

LEMMA FitStep ==
    ASSUME GInv, FitInv, [GNext]_vars
    PROVE  FitInv'
<1>1. /\ labels \in Seq(Block) /\ w0 \in Seq(Block) /\ tables \in Seq(Block)
      /\ gates \in Seq(Gate) /\ Len(w0) <= Len(gates) /\ Complen \in Nat /\ nonfree \in Nat
  BY DEF GInv, GarbleTypes, BuilderInv, GraphInv, Wired, FitInv, Complen, NumConstants
<1> PICK row : /\ Counted(row, gates, Complen)
               /\ Len(tables) = row[Len(w0) + 1] /\ used = row[Len(labels) + 1]
  BY DEF FitInv
<1>2. /\ row \in [1..(Len(gates) + 1) -> 0..Complen] /\ row[1] = 0
      /\ row[Len(gates) + 1] = Complen
      /\ \A i \in 1..Len(gates) : row[i + 1] = row[i] + Rows(gates[i])
  BY DEF Counted
<1>3. UNCHANGED bvars =>
        nonfree' \in Nat /\ Complen' = Complen /\ Counted(row, gates, Complen)'
  BY <1>1 DEF bvars, Counted, Complen, NumConstants
<1>4. CASE Construct
  <2>1. /\ w0 = <<>> /\ tables = <<>> /\ labels = <<>> /\ used = 0 /\ Next
        /\ UNCHANGED <<stage, w0, tables, labels, used>>
    BY <1>4 DEF Construct, gvars, GInv, Stages
  <2>2. CountInv
    BY <1>1, <1>2 DEF CountInv
  <2>3. CountInv'
    BY <2>1, <2>2, NextCounts DEF GInv
  <2>4. PICK more : Counted(more, gates, Complen)' /\ more[1] = 0
    BY <2>3 DEF CountInv
  <2> QED BY <2>1, <2>3, <2>4 DEF CountInv, FitInv
<1>5. CASE Setup \/ Finished \/ UNCHANGED vars
  <2>1. UNCHANGED <<bvars, w0, tables, labels, used>> /\ stage' # "error"
    BY <1>5 DEF Setup, Finished, vars, bvars, FitInv
  <2> QED BY <2>1, <1>3 DEF FitInv
<1>6. CASE Receive
  <2>1. UNCHANGED <<bvars, w0, tables, labels, used>>
    BY <1>6 DEF Receive
  <2>2. Len(tables) = Complen
    BY <1>6, <1>2 DEF Receive
  <2>3. stage' = "evaluate"
    BY <1>6, <2>2, <1>1 DEF Receive
  <2> QED BY <2>1, <2>3, <1>3 DEF FitInv
<1>7. CASE Garble
  <2> DEFINE g == gates[Len(w0) + 1]
  <2>1. /\ UNCHANGED <<bvars, stage, labels, used>> /\ Len(w0) < Len(gates)
    BY <1>7 DEF Garble, GarbleInput, GarbleConstant, GarbleXor, GarbleAnd, GarbleInv, At
  <2>2. PICK f \in Block, rows \in Seq(Block) : Garbled(f, rows) /\ Len(rows) = Rows(g)
    BY <1>7, GarbleMakes DEF Made
  <2>3. Len(w0') = Len(w0) + 1
    BY <2>2, <1>1 DEF Garbled
  <2>4. Len(tables') = Len(tables) + Rows(g)
    <3>1. Len(tables \o rows) = Len(tables) + Len(rows)
      BY <2>2, <1>1, ConcatProperties
    <3>2. tables' = tables \o rows
      BY <2>2 DEF Garbled
    <3> QED BY <3>1, <3>2, <2>2
  <2>5. row[Len(w0) + 1 + 1] = row[Len(w0) + 1] + Rows(g)
    <3>1. Len(w0) + 1 \in 1..Len(gates)
      BY <1>1, <2>1
    <3> QED BY <3>1, <1>2
  <2>6. Len(tables)' = row[Len(w0)' + 1]
    BY <2>3, <2>4, <2>5
  <2> QED BY <2>1, <2>6, <1>3 DEF FitInv
<1>8. CASE Evaluate
  <2> DEFINE n == Len(labels)
             g == gates[n + 1]
  <2>1. UNCHANGED <<bvars, w0, tables>> /\ n < Len(gates) /\ stage = "evaluate"
    BY <1>8 DEF Evaluate, EvaluateInput, EvaluateConstant, EvaluateXor, EvaluateAnd,
                EvaluateInv, At
  <2>2. /\ n + 1 \in 1..Len(gates) /\ n + 2 \in 1..(Len(gates) + 1) /\ n + 1 + 1 = n + 2
        /\ n \in Nat
    BY <1>1, <2>1
  <2>3. row[n + 2] = used + Rows(g) /\ row[n + 2] <= Complen
    BY <1>1, <1>2, <2>2
  <2>4. \E l : Evaluated(l, Rows(g))
    <3>1. CASE g.op = "And"
      <4>1. Rows(g) = 2 /\ Has(2)
        BY <2>3, <3>1 DEF Rows, Has
      <4>2. EvaluateAnd
        BY <1>8, <3>1 DEF Evaluate, EvaluateInput, EvaluateConstant, EvaluateXor, EvaluateInv, At
      <4> QED BY <4>1, <4>2 DEF EvaluateAnd
    <3>2. CASE g.op = "Constant"
      <4>1. Rows(g) = 1 /\ Has(1)
        BY <2>3, <3>2 DEF Rows, Has
      <4>2. EvaluateConstant
        BY <1>8, <3>2 DEF Evaluate, EvaluateInput, EvaluateAnd, EvaluateXor, EvaluateInv, At
      <4> QED BY <4>1, <4>2 DEF EvaluateConstant
    <3>3. CASE g.op # "And" /\ g.op # "Constant"
      <4>1. Rows(g) = 0
        BY <3>3 DEF Rows
      <4>2. EvaluateInput \/ EvaluateXor \/ EvaluateInv
        BY <1>8, <3>3 DEF Evaluate, EvaluateConstant, EvaluateAnd, At
      <4> QED BY <4>1, <4>2 DEF EvaluateInput, EvaluateXor, EvaluateInv
    <3> QED BY <3>1, <3>2, <3>3
  <2>5. PICK l : Evaluated(l, Rows(g))
    BY <2>4
  <2>6. used' = row[n + 2] /\ stage' = stage /\ labels' = Append(labels, l)
    BY <2>3, <2>5 DEF Evaluated
  <2>7. Len(labels') = n + 1
    BY <2>6, <1>1
  <2>8. used' = row[Len(labels)' + 1]
    BY <2>2, <2>6, <2>7
  <2> QED BY <2>1, <2>6, <2>8, <1>3 DEF FitInv
<1> QED BY <1>4, <1>5, <1>6, <1>7, <1>8 DEF GNext

\* The evaluator cuts exactly the entries that garbling made for the circuit,
\* uses every one of them, and never finds one missing.
THEOREM Fitting == GSpec => []TablesFit
<1>1. GInv /\ FitInv => TablesFit
  <2> SUFFICES ASSUME GInv, FitInv PROVE TablesFit
    OBVIOUS
  <2> PICK row : /\ Counted(row, gates, Complen)
                 /\ Len(tables) = row[Len(w0) + 1] /\ used = row[Len(labels) + 1]
    BY DEF FitInv
  <2> QED BY DEF TablesFit, FitInv, Counted, GInv, Stages
<1>2. GInit => GInv /\ FitInv
  <2> SUFFICES ASSUME GInit PROVE FitInv
    BY InitGarbled
  <2>1. CountInv
    BY InitCounts DEF GInit, Init
  <2> QED BY <2>1 DEF CountInv, FitInv, GInit
<1>3. GInv /\ FitInv /\ [GNext]_vars => (GInv /\ FitInv)'
  BY GarbledStep, FitStep
<1> QED BY <1>1, <1>2, <1>3, PTL DEF GSpec
=============================================================================
