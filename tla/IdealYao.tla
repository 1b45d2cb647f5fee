------------------------------ MODULE IdealYao ------------------------------
(***************************************************************************)
(* What the calls of a Script promise the three parties together: one call *)
(* after the other, every bit is the one the plain values give, whoever    *)
(* holds a share of it or learns it.  No labels, no messages, no parties   *)
(* that are ahead of others.                                               *)
(***************************************************************************)
EXTENDS YaoCircuit

CONSTANT Plans

VARIABLES
    plan,    \* what the hosts run
    given,   \* what the parties bring: given[i][k] is party i's for call k
    plain    \* plain[k]: the bits of call k

Script == Plans[plan].calls

Plain(a) == plain[a[1]][a[2]]

PlainArgs(call) == [n \in DOMAIN call.args |-> Plain(call.args[n])]

\* The values of the wires of the k-th circuit of a call.
PlainWires(call, k) ==
    LET c  == call.circuits.of[IF call.circuits.vector THEN k ELSE 1]
        in == call.inputs.of[IF call.inputs.vector THEN k ELSE 1]
    IN  Outputs(c, Values(c, [g \in DOMAIN in |-> [n \in DOMAIN in[g] |-> Plain(in[g][n])]]))

PlainRounds(call) ==
    Len(IF call.circuits.vector THEN call.circuits.of ELSE call.inputs.of)

\* The bits of call k.
Promised(call, k) ==
    CASE call.op = "setup_yao" -> <<>>
      [] call.op \in {"input_yao", "batch_input_yao"} -> given[0][k]
      [] call.op = "input_from" -> given[call.pid][k]
      [] call.op = "input_from_all" -> (given[0][k] \o given[1][k]) \o given[2][k]
      [] call.op \in {"circuit_eval", "map_circuit_eval"} ->
           Seqs!FlattenSeq([n \in 1..PlainRounds(call) |-> PlainWires(call, n)])
      [] call.op = "bring" ->
           [n \in DOMAIN given[0][k] |->
              Flip(Flip(given[0][k][n].value2, given[1][k][n].value2), given[2][k][n].value2)]
      [] call.op = "xor" -> <<Flip(Plain(call.args[1]), Plain(call.args[2]))>>
      [] call.op = "validate" -> <<TRUE>>
      [] OTHER -> PlainArgs(call)

Init == plan \in DOMAIN Plans /\ given \in Plans[plan].givens /\ plain = <<>>

Next ==
    /\ Len(plain) < Len(Script)
    /\ plain' = Append(plain, Promised(Script[Len(plain) + 1], Len(plain) + 1))
    /\ UNCHANGED <<plan, given>>

Spec == Init /\ [][Next]_<<plan, given, plain>>

=============================================================================
