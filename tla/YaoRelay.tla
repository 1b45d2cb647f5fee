------------------------------ MODULE YaoRelay ------------------------------
(***************************************************************************)
(* The relay Yao protocols (functionality/setup.rs, input.rs,              *)
(* circuit_eval.rs, output.rs, b_to_y.rs, y_to_b.rs): garblers 0 and 1 and *)
(* evaluator 2 each run the same Script of calls, in their own time.  A    *)
(* step of a party runs from one await of a function to the next.  What    *)
(* the hosts run, and what may go wrong with it, is a plan.                *)
(*                                                                         *)
(* A call names its arguments by where they were made: <<k, n>> is the     *)
(* n-th value of call k.  What a party brings to call k itself is          *)
(* given[i][k], or the bits of its own value of call mine.  A batch        *)
(* function and the one for a single value are two operations with the     *)
(* same steps where the code has the same steps twice.                     *)
(***************************************************************************)
EXTENDS PartyRelay, YaoCircuit, YaoShares

CONSTANTS
    Plans,           \* what hosts may run: a function from names to records of
                     \*   calls           the Script
                     \*   givens          what the parties may bring
                     \*   crss, seeds     comm_crs and prf_key a setup may draw
                     \*   aborters        parties whose host may abort
                     \*   retries         how often hosts may start the rest over
    Stream(_, _),    \* k-th draw from the label stream of a seed
    DeltaOf(_),      \* delta of a seed before its lowest bit is set
    GarbleKey(_),    \* garble_key of a seed
    Masks,           \* wyr a y_to_b may draw
    Pads(_)          \* halves of n bits the evaluator may draw

\* A script is a list of calls, a party a call names is one of the three, and
\* the offset a seed gives is a block.
ASSUME PlansAssumption ==
    \A p \in DOMAIN Plans :
        /\ Plans[p].calls \in Seq({Plans[p].calls[k] : k \in DOMAIN Plans[p].calls})
        /\ \A k \in DOMAIN Plans[p].calls :
             Plans[p].calls[k].op \in {"input_from", "output_yao_to", "batch_output_yao_to"} =>
                 Plans[p].calls[k].pid \in Parties
        /\ \A seed \in Plans[p].seeds : DeltaOf(seed) \in Block

VARIABLES
    plan,      \* what the hosts run
    given,     \* what the parties bring to the calls
    at,        \* the call a party runs
    step,      \* the awaits of that call it has passed
    loc,       \* the local values it keeps over an await
    result,    \* the values of its calls so far
    yao,       \* its YaoSetup; pos is the position of the label stream
    fail,      \* the error its call returned, "" while none
    retries

hosts == <<plan, given>>
own   == <<at, step, loc, result>>
vars  == <<relayvars, hosts, own, yao, fail, retries>>

NoSetup == [crs |-> {}, key |-> 0, seed |-> 0, delta |-> {}, pos |-> 0]

Init ==
    /\ RelayInit
    /\ plan \in DOMAIN Plans /\ given \in Plans[plan].givens
    /\ at = [i \in Parties |-> 1] /\ step = [i \in Parties |-> 0]
    /\ loc = [i \in Parties |-> <<>>] /\ result = [i \in Parties |-> <<>>]
    /\ yao = [i \in Parties |-> NoSetup]
    /\ fail = [i \in Parties |-> ""] /\ retries = 0

Script == Plans[plan].calls

Call(i)   == Script[at[i]]
Mine(i)   == IF "mine" \in DOMAIN Call(i) THEN result[i][Call(i).mine].bits ELSE given[i][at[i]]
Arg(i, a) == result[i][a[1]][a[2]]
Args(i)   == [n \in DOMAIN Call(i).args |-> Arg(i, Call(i).args[n])]
Garbler(i) == i # 2

Running(i) == fail[i] = "" /\ at[i] <= Len(Script)

\* Party i has passed s awaits of a call of op, the last one completely.
On(i, op, s) == Running(i) /\ Call(i).op = op /\ step[i] = s /\ Complete(i)

-----------------------------------------------------------------------------
(* How a step ends.                                                        *)

Await(i, out, wanted, keep) ==
    /\ Exchange(i, out) /\ AsksFor(i, wanted)
    /\ step' = [step EXCEPT ![i] = @ + 1]
    /\ loc' = [loc EXCEPT ![i] = keep]
    /\ UNCHANGED <<counter, aborted, hosts, at, result, fail, retries>>

Return(i, out, tags, value) ==
    /\ Exchange(i, out) /\ AsksFor(i, {}) /\ TakeTags(i, tags)
    /\ step' = [step EXCEPT ![i] = 0]
    /\ loc' = [loc EXCEPT ![i] = <<>>]
    /\ at' = [at EXCEPT ![i] = @ + 1]
    /\ result' = [result EXCEPT ![i] = Append(@, value)]
    /\ UNCHANGED <<aborted, hosts, fail, retries>>

Throw(i, error) ==
    /\ Exchange(i, <<>>) /\ AsksFor(i, {})
    /\ fail' = [fail EXCEPT ![i] = error]
    /\ UNCHANGED <<counter, aborted, hosts, own, retries>>

Finish(i, error, out, tags, value) ==
    IF error # "" THEN Throw(i, error) ELSE Return(i, out, tags, value)

\* The next draws of garbler i (a tuple: TLC computes every draw once), and the
\* step taking n of them.
Draws(i, n) == <<>> \o [k \in 1..n |-> Stream(yao[i].seed, yao[i].pos + k)]
Drew(i, n)  == yao' = [yao EXCEPT ![i].pos = @ + n]

Shares(i, fs)  == [n \in DOMAIN fs |-> [delta |-> yao[i].delta, f |-> fs[n]]]
EShares(labels) == [n \in DOMAIN labels |-> [label |-> labels[n]]]

-----------------------------------------------------------------------------
(* setup_yao_functionality.                                                *)

\* garbler_delta_and_prf: the offset, the stream and the key of a seed.
GarblerSetup(seed, crs) ==
    [crs |-> crs, key |-> GarbleKey(seed), seed |-> seed,
     delta |-> DeltaOf(seed) \cup {Lsb}, pos |-> 0]

SetupTag(i, k) == Tag(i, k, <<"SETUP_YAO_FUNC_MSG1", "SETUP_YAO_FUNC_MSG2", "SETUP_YAO_FUNC_MSG3">>[k])

SetupEvaluator(i) ==
    /\ i = 2
    /\ \/ /\ On(i, "setup_yao", 0)
          /\ \E crs \in Plans[plan].crss :
               Await(i, Both(Sent(2, 0, SetupTag(i, 1), crs), Sent(2, 1, SetupTag(i, 1), crs)),
                     Ask(i, {0}, SetupTag(i, 3)), crs)
          /\ UNCHANGED yao
       \/ /\ On(i, "setup_yao", 1)
          /\ Return(i, <<>>, 3, <<>>)
          /\ yao' = [yao EXCEPT ![i] = [NoSetup EXCEPT !.crs = loc[i],
                                                       !.key = Got(i, 0, SetupTag(i, 3))]]

SetupGarbler0(i) ==
    /\ i = 0
    /\ On(i, "setup_yao", 1)
    /\ \E seed \in Plans[plan].seeds :
         LET crs == Got(i, 2, SetupTag(i, 1)) IN
         /\ Return(i, Both(Sent(0, 1, SetupTag(i, 2), <<seed, crs>>),
                           Sent(0, 2, SetupTag(i, 3), GarbleKey(seed))), 3, <<>>)
         /\ yao' = [yao EXCEPT ![i] = GarblerSetup(seed, crs)]

SetupGarbler1(i) ==
    /\ i = 1
    /\ \/ /\ On(i, "setup_yao", 1)
          /\ Await(i, <<>>, Ask(i, {0}, SetupTag(i, 2)), Got(i, 2, SetupTag(i, 1)))
          /\ UNCHANGED yao
       \/ /\ On(i, "setup_yao", 2)
          /\ LET m == Got(i, 0, SetupTag(i, 2)) IN
             /\ Finish(i, IF m[2] # loc[i] THEN "InconsistentMessage" ELSE "", <<>>, 3, <<>>)
             /\ yao' = [yao EXCEPT ![i] = GarblerSetup(m[1], loc[i])]

\* Both garblers first wait for the commitment key.
SetupYao(i) ==
    \/ SetupEvaluator(i) \/ SetupGarbler0(i) \/ SetupGarbler1(i)
    \/ /\ Garbler(i) /\ On(i, "setup_yao", 0)
       /\ Await(i, <<>>, Ask(i, {2}, SetupTag(i, 1)), <<>>)
       /\ UNCHANGED yao

-----------------------------------------------------------------------------
(* Input that both garblers know.                                          *)

SameInput(i, op) ==
    LET tag == Tag(i, 1, "INPUT_YAO_FUNC_MSG1") IN
    \/ /\ Garbler(i) /\ On(i, op, 0)
       /\ LET x == Mine(i)
              w == Draws(i, Len(x))
          IN  /\ Return(i, Sent(i, 2, tag, [n \in DOMAIN x |-> LabelOf(x[n], w[n], yao[i].delta)]),
                        1, Shares(i, w))
              /\ Drew(i, Len(x))
    \/ /\ i = 2 /\ On(i, op, 0)
       /\ Await(i, <<>>, Ask(i, {0, 1}, tag), <<>>)
       /\ UNCHANGED yao
    \/ /\ i = 2 /\ On(i, op, 1)
       /\ Finish(i, IF \/ Got(i, 0, tag) # Got(i, 1, tag)
                       \/ Len(Got(i, 0, tag)) # Len(Mine(i)) THEN "InconsistentMessage" ELSE "",
                 <<>>, 1, EShares(Got(i, 0, tag)))
       /\ UNCHANGED yao

InputYao(i)      == SameInput(i, "input_yao")
BatchInputYao(i) == SameInput(i, "batch_input_yao")

-----------------------------------------------------------------------------
(* Input of one party: input_yao_from_functionality.                       *)

FromTag(i, k) == Tag(i, k, <<"INPUT_YAO_FROM_FUNC_MSG1", "INPUT_YAO_FROM_FUNC_MSG2">>[k])

\* pid is a garbler: it opens the commitment to its label, the other one sends
\* the commitments alone.
InputFromGarbler(i) ==
    \/ /\ Garbler(i) /\ On(i, "input_from", 0) /\ Call(i).pid # 2
       /\ LET m == From12Msg1(yao[i].crs, yao[i].delta, Draws(i, 4)) IN
          /\ Return(i, Sent(i, 2, FromTag(i, 1),
                            [coms |-> m.coms,
                             open |-> IF i = Call(i).pid THEN m.open[Mine(i)[1]] ELSE ZBlocks]),
                    2, Shares(i, <<m.f>>))
          /\ Drew(i, 4)
    \/ /\ i = 2 /\ On(i, "input_from", 0) /\ Call(i).pid # 2
       /\ Await(i, <<>>, Ask(i, {0, 1}, FromTag(i, 1)), <<>>)
       /\ UNCHANGED yao
    \/ /\ i = 2 /\ On(i, "input_from", 1) /\ Call(i).pid # 2
       /\ LET m == [j \in {0, 1} |-> Got(i, j, FromTag(i, 1))]
              pid == Call(i).pid
          IN  Finish(i, From12Error(yao[i].crs, m, pid), <<>>, 2, EShares(<<m[pid].open[1]>>))
       /\ UNCHANGED yao

\* pid is the evaluator: it sends each garbler one of two halves of its bit and
\* gets the labels of both.
InputFromEvaluator(i) ==
    \/ /\ i = 2 /\ On(i, "input_from", 0) /\ Call(i).pid = 2
       /\ \E x1 \in {0, 1} :
            LET x2 == Flip(x1, Mine(i)[1]) IN
            Await(i, Both(Sent(2, 0, FromTag(i, 1), x1), Sent(2, 1, FromTag(i, 1), x2)),
                  Ask(i, {0, 1}, FromTag(i, 2)), <<x1, x2>>)
       /\ UNCHANGED yao
    \/ /\ Garbler(i) /\ On(i, "input_from", 0) /\ Call(i).pid = 2
       /\ Await(i, <<>>, Ask(i, {2}, FromTag(i, 1)), <<>>)
       /\ UNCHANGED yao
    \/ /\ Garbler(i) /\ On(i, "input_from", 1) /\ Call(i).pid = 2
       /\ LET m == From3Msg2(yao[i].crs, yao[i].delta, Draws(i, 6)) IN
          Return(i, Sent(i, 2, FromTag(i, 2),
                         [coms |-> m.coms, open |-> m.open[i + 1][Got(i, 2, FromTag(i, 1))]]),
                 2, Shares(i, <<m.f>>))
       /\ Drew(i, 6)
    \/ /\ i = 2 /\ On(i, "input_from", 1) /\ Call(i).pid = 2
       /\ LET m == [j \in {0, 1} |-> Got(i, j, FromTag(i, 2))] IN
          Finish(i, From3Error(yao[i].crs, m, loc[i], "CommitmentVerificationFailed"), <<>>, 2,
                 EShares(<<m[0].open[1] \oplus m[1].open[1]>>))
       /\ UNCHANGED yao

-----------------------------------------------------------------------------
(* run_batch_input_from_all_yao: n bits of every party.                    *)

AllTag(i, k) ==
    Tag(i, k, <<"INPUT_YAO_FROM_ALL_MSG1", "INPUT_YAO_FROM_ALL_MSG2", "INPUT_YAO_FROM_ALL_MSG3">>[k])

\* Garbler 1 sends its first message under another tag than garbler 0.
InputFromAllGarbler(i) ==
    LET n == Len(Mine(i)) IN
    /\ Garbler(i)
    /\ \/ /\ On(i, "input_from_all", 0)
          /\ LET m == AllMsg1(yao[i].crs, yao[i].delta, Draws(i, 8 * n), n, i, Mine(i)) IN
             Await(i, Sent(i, 2, AllTag(i, IF i = 0 THEN 1 ELSE 3), [coms |-> m.coms, open |-> m.open]),
                   Ask(i, {2}, AllTag(i, 1)), m.f)
          /\ Drew(i, 8 * n)
       \/ /\ On(i, "input_from_all", 1)
          /\ LET m == AllMsg2(yao[i].crs, yao[i].delta, Draws(i, 6 * n), n, i, Got(i, 2, AllTag(i, 1))) IN
             Return(i, Sent(i, 2, AllTag(i, 2), [coms |-> m.coms, open |-> m.open]), 3,
                    Shares(i, (loc[i][0] \o loc[i][1]) \o m.f))
          /\ Drew(i, 6 * n)

InputFromAllEvaluator(i) ==
    LET n == Len(Mine(i)) IN
    /\ i = 2
    /\ UNCHANGED yao
    /\ \/ /\ On(i, "input_from_all", 0)
          /\ \E h \in Pads(n) :
               LET half == <<h, [k \in 1..n |-> Flip(h[k], Mine(i)[k])]>> IN
               Await(i, Both(Sent(2, 0, AllTag(i, 1), half[1]), Sent(2, 1, AllTag(i, 1), half[2])),
                     Ask(i, {0}, AllTag(i, 1)), [half |-> half])
       \/ /\ On(i, "input_from_all", 1)
          /\ Await(i, <<>>, Ask(i, {1}, AllTag(i, 3)),
                   [half |-> loc[i].half, m |-> Got(i, 0, AllTag(i, 1))])
       \/ /\ On(i, "input_from_all", 2)
          /\ LET m == [j \in {0, 1} |-> IF j = 0 THEN loc[i].m ELSE Got(i, 1, AllTag(i, 3))]
                 error == AllMsg1Error(yao[i].crs, m, n)
             IN  IF error # "" THEN Throw(i, error)
                 ELSE Await(i, <<>>, Ask(i, {0, 1}, AllTag(i, 2)),
                            [half |-> loc[i].half,
                             labels |-> [k \in 1..(2 * n) |->
                                 IF k <= n THEN m[0].open[k][1] ELSE m[1].open[k - n][1]]])
       \/ /\ On(i, "input_from_all", 3)
          /\ LET m == [j \in {0, 1} |-> Got(i, j, AllTag(i, 2))] IN
             Finish(i, AllMsg2Error(yao[i].crs, m, n, loc[i].half), <<>>, 3,
                    EShares(loc[i].labels \o [k \in 1..n |-> m[0].open[k][1] \oplus m[1].open[k][1]]))

InputFromAll(i) == InputFromAllGarbler(i) \/ InputFromAllEvaluator(i)

-----------------------------------------------------------------------------
(* Circuit evaluation (circuit_eval.rs).                                   *)

EvalTag(i, k) == Tag(i, k, <<"YAO_CIRC_EVAL_FUNC_MSG1", "YAO_CIRC_EVAL_FUNC_MSG2">>[k])

\* MapArg: one circuit or input, or several.
Scalar(v) == [vector |-> FALSE, of |-> <<v>>]
Vector(v) == [vector |-> TRUE, of |-> v]

\* The circuits a call evaluates: a Scalar circuit or input goes with every
\* input or circuit of a Vector, two Vectors go together.
Rounds(call) ==
    IF call.circuits.vector THEN Len(call.circuits.of)
    ELSE IF call.inputs.vector THEN Len(call.inputs.of) ELSE 1

Circuit(call, k)      == call.circuits.of[IF call.circuits.vector THEN k ELSE 1]
CircuitInput(call, k) == call.inputs.of[IF call.inputs.vector THEN k ELSE 1]

Mismatch(call) ==
    /\ call.circuits.vector /\ call.inputs.vector
    /\ Len(call.circuits.of) # Len(call.inputs.of)

\* What the first k circuits of a call take: entries of the tables by what
\* Complen says of each, and draws.
Upto(call, k) ==
    LET sum[j \in 0..k] ==
          IF j = 0 THEN [rows |-> 0, draws |-> 0]
          ELSE [rows  |-> sum[j - 1].rows + Complen(Circuit(call, j)),
                draws |-> sum[j - 1].draws + Constants(Circuit(call, j))]
    IN  sum[k]

\* The labels party i has of the inputs of the k-th circuit.
InputLabels(i, k) ==
    LET in == CircuitInput(Call(i), k)
        label(share) == IF Garbler(i) THEN share.f ELSE share.label
    IN  [g \in DOMAIN in |-> [n \in DOMAIN in[g] |-> label(Arg(i, in[g][n]))]]

GarbledLabels(i, k, draws) ==
    FLabels(Circuit(Call(i), k), InputLabels(i, k), yao[i].delta, yao[i].key,
            From(draws, Upto(Call(i), k - 1).draws))

EvaluatedLabels(i, k, fs) ==
    Labels(Circuit(Call(i), k), InputLabels(i, k),
           From(fs, Upto(Call(i), k - 1).rows), yao[i].key)

\* The output wires of all circuits of a call, one after the other, of the
\* labels w[k] of the wires of the k-th.
AllOutputs(call, w) ==
    Seqs!FlattenSeq([k \in 1..Rounds(call) |-> Outputs(Circuit(call, k), w[k])])

\* Both garblers garble; garbler 0 sends a hash of the tables, garbler 1 the
\* tables.  (The hash is the tables themselves.)
EvalGarbler(i, op) ==
    /\ Garbler(i) /\ On(i, op, 0)
    /\ IF Mismatch(Call(i)) THEN Throw(i, "InvalidLength") /\ UNCHANGED yao
       ELSE LET rounds == Rounds(Call(i))
                n      == Upto(Call(i), rounds).draws
                draws  == Draws(i, n)
                w      == <<>> \o [k \in 1..rounds |-> GarbledLabels(i, k, draws)]
                fs     == Seqs!FlattenSeq([k \in 1..rounds |->
                             Tables(Circuit(Call(i), k), w[k], yao[i].delta, yao[i].key)])
            IN  /\ Return(i, Sent(i, 2, EvalTag(i, IF i = 0 THEN 2 ELSE 1), fs), 2,
                          Shares(i, AllOutputs(Call(i), w)))
                /\ Drew(i, n)

\* Faulty: the parts are cut in the same way for several circuits.
UnsplittableAny(call) == call.inputs.vector /\ Complen(Circuit(call, 1)) = 0

\* For one circuit with a Vector of inputs chunks_exact cuts the tables into
\* the parts of the circuits, which panics at length 0.
Unsplittable(call) ==
    call.inputs.vector /\ ~call.circuits.vector /\ Complen(Circuit(call, 1)) = 0

\* Each circuit gets its part of the tables.
EvalEvaluator(i, op) ==
    /\ i = 2
    /\ UNCHANGED yao
    /\ \/ /\ On(i, op, 0)
          /\ IF Mismatch(Call(i)) THEN Throw(i, "InvalidLength")
             ELSE Await(i, <<>>, Ask(i, {0}, EvalTag(i, 2)), <<>>)
       \/ /\ On(i, op, 1)
          /\ Await(i, <<>>, Ask(i, {1}, EvalTag(i, 1)), Got(i, 0, EvalTag(i, 2)))
       \/ /\ On(i, op, 2)
          /\ LET fs == Got(i, 1, EvalTag(i, 1)) IN
             Finish(i, IF fs # loc[i] THEN "InconsistentMessage"
                       ELSE IF Unsplittable(Call(i)) THEN "panic" ELSE "",
                    <<>>, 2,
                    EShares(AllOutputs(Call(i), [k \in 1..Rounds(Call(i)) |-> EvaluatedLabels(i, k, fs)])))

\* One circuit and one input; a wrong number of input wires is refused before
\* the tags are taken (the calls here have the circuit's).
CircuitEval(i)    == EvalGarbler(i, "circuit_eval") \/ EvalEvaluator(i, "circuit_eval")
MapCircuitEval(i) == EvalGarbler(i, "map_circuit_eval") \/ EvalEvaluator(i, "map_circuit_eval")

-----------------------------------------------------------------------------
(* Output (output.rs).                                                     *)

OutputTag(i, k) == Tag(i, k, <<"OUTPUT_YAO_FUNC_MSG1", "OUTPUT_YAO_FUNC_MSG2">>[k])

OwnLabels(i) == [n \in DOMAIN Args(i) |-> Args(i)[n].label]

\* A garbler's answer to the labels of the evaluator.
Unmatched(i, labels) ==
    \E n \in DOMAIN labels : ~MatchesWire(labels[n], Args(i)[n].f, Args(i)[n].delta)

DecodedBits(i, labels) == [n \in DOMAIN labels |-> Decoded(labels[n], Args(i)[n].f)]

OutputError(i, labels) ==
    IF Len(labels) # Len(Args(i)) THEN "InvalidMessage"
    ELSE IF Unmatched(i, labels) THEN "InvalidShare" ELSE ""

\* Faulty: a garbler does not wait for the label.
ValidateTrusting(i) ==
    /\ UNCHANGED yao
    /\ On(i, "validate", 0)
    /\ IF i = 2 THEN LET m == OwnLabels(i)[1] IN
                     Return(i, Both(Sent(2, 0, OutputTag(i, 1), m), Sent(2, 1, OutputTag(i, 1), m)), 1, <<TRUE>>)
       ELSE Return(i, <<>>, 1, <<TRUE>>)

\* validate_yao_share: the evaluator shows its label and is told nothing.
Validate(i) ==
    /\ UNCHANGED yao
    /\ \/ /\ i = 2 /\ On(i, "validate", 0)
          /\ LET m == OwnLabels(i)[1] IN
             Return(i, Both(Sent(2, 0, OutputTag(i, 1), m), Sent(2, 1, OutputTag(i, 1), m)), 1, <<TRUE>>)
       \/ /\ Garbler(i) /\ On(i, "validate", 0)
          /\ Await(i, <<>>, Ask(i, {2}, OutputTag(i, 1)), <<>>)
       \/ /\ Garbler(i) /\ On(i, "validate", 1)
          /\ Return(i, <<>>, 1, <<~Unmatched(i, <<Got(i, 2, OutputTag(i, 1))>>)>>)

\* The garblers decode, and tell the evaluator, who compares the two.
OutputToAll(i, op) ==
    /\ UNCHANGED yao
    /\ \/ /\ i = 2 /\ On(i, op, 0)
          /\ Await(i, Both(Sent(2, 0, OutputTag(i, 1), OwnLabels(i)), Sent(2, 1, OutputTag(i, 1), OwnLabels(i))),
                   Ask(i, {0, 1}, OutputTag(i, 2)), <<>>)
       \/ /\ i = 2 /\ On(i, op, 1)
          /\ Finish(i, IF Got(i, 0, OutputTag(i, 2)) # Got(i, 1, OutputTag(i, 2))
                       THEN "InconsistentMessage" ELSE "", <<>>, 2, Got(i, 0, OutputTag(i, 2)))
       \/ /\ Garbler(i) /\ On(i, op, 0)
          /\ Await(i, <<>>, Ask(i, {2}, OutputTag(i, 1)), <<>>)
       \/ /\ Garbler(i) /\ On(i, op, 1)
          /\ LET labels == Got(i, 2, OutputTag(i, 1)) IN
             Finish(i, OutputError(i, labels),
                    Sent(i, 2, OutputTag(i, 2), DecodedBits(i, labels)), 2, DecodedBits(i, labels))

OutputYao(i)      == OutputToAll(i, "output_yao")
BatchOutputYao(i) == OutputToAll(i, "batch_output_yao")

\* Faulty: a party with nothing to do returns before it takes its tag.
BystanderTagsNone == 0

\* The tag is taken before the parties part ways.
BystanderTags == 1

\* One party learns the bits: the evaluator from the lowest bits of the
\* FALSE-labels, which it compares, a garbler from the labels.  A party that
\* does not learn them returns None.
OutputToOne(i, op) ==
    LET tag == Tag(i, 1, "OUTPUT_YAO_TO_FUNC_MSG1")
        pid == Call(i).pid
        None == [n \in DOMAIN Args(i) |-> "None"]
    IN
    /\ UNCHANGED yao
    /\ \/ /\ Garbler(i) /\ On(i, op, 0) /\ pid = 2
          /\ Return(i, Sent(i, 2, tag, [n \in DOMAIN Args(i) |-> lsb(Args(i)[n].f)]), 1, None)
       \/ /\ i = 2 /\ On(i, op, 0) /\ pid = 2
          /\ Await(i, <<>>, Ask(i, {0, 1}, tag), <<>>)
       \/ /\ i = 2 /\ On(i, op, 1) /\ pid = 2
          /\ Finish(i, IF Got(i, 0, tag) # Got(i, 1, tag) THEN "InconsistentMessage" ELSE "", <<>>, 1,
                    [n \in DOMAIN Args(i) |-> Flip(Got(i, 1, tag)[n], lsb(Args(i)[n].label))])
       \/ /\ i = 2 /\ On(i, op, 0) /\ pid # 2
          /\ Return(i, Sent(2, pid, tag, OwnLabels(i)), 1, None)
       \/ /\ Garbler(i) /\ On(i, op, 0) /\ pid = 1 - i
          /\ Return(i, <<>>, BystanderTags, None)
       \/ /\ Garbler(i) /\ On(i, op, 0) /\ pid = i
          /\ Await(i, <<>>, Ask(i, {2}, tag), <<>>)
       \/ /\ Garbler(i) /\ On(i, op, 1) /\ pid = i
          /\ Finish(i, OutputError(i, Got(i, 2, tag)), <<>>, 1, DecodedBits(i, Got(i, 2, tag)))

OutputYaoTo(i)      == OutputToOne(i, "output_yao_to")
BatchOutputYaoTo(i) == OutputToOne(i, "batch_output_yao_to")

-----------------------------------------------------------------------------
(* binary_to_yao_functionality and the batch of it.                        *)

BinaryToYaoSteps(i, op) ==
    LET tag == Tag(i, 1, "B2Y_FUNC_MSG1")
        n   == Len(Args(i))
    IN
    \/ /\ Garbler(i) /\ On(i, op, 0)
       /\ LET r(k) == From(Draws(i, 7 * k), 7 * (k - 1)) IN
          Return(i, Sent(i, 2, tag, [k \in 1..n |->
                        IF i = 0 THEN B2YMsg1P1(yao[i].crs, yao[i].delta, r(k), Args(i)[k])
                                 ELSE B2YMsg1P2(yao[i].crs, yao[i].delta, r(k), Args(i)[k])]),
                 1, Shares(i, [k \in 1..n |-> B2YFLabel(yao[i].delta, r(k))]))
       /\ Drew(i, 7 * n)
    \/ /\ i = 2 /\ On(i, op, 0)
       /\ Await(i, <<>>, Ask(i, {0, 1}, tag), <<>>)
       /\ UNCHANGED yao
    \/ /\ i = 2 /\ On(i, op, 1)
       /\ LET m(k)     == [j \in {0, 1} |-> Got(i, j, tag)[k]]
              error(k) == B2YError(yao[i].crs, m(k), Args(i)[k])
              bad      == {k \in 1..n : error(k) # ""}
          IN  Finish(i, IF bad = {} THEN ""
                        ELSE error(CHOOSE k \in bad : \A j \in bad : k <= j),
                     <<>>, 1, EShares([k \in 1..n |-> B2YLabel(m(k))]))
       /\ UNCHANGED yao

BinaryToYao(i)      == BinaryToYaoSteps(i, "binary_to_yao")
BatchBinaryToYao(i) == BinaryToYaoSteps(i, "batch_binary_to_yao")

-----------------------------------------------------------------------------
(* yao_to_binary_functionality and the batch of it, in which garbler 1     *)
(* sends its commitments under a fourth tag and the evaluator waits for    *)
(* the garblers one after the other.                                       *)

Y2BTag(i, k) == Tag(i, k, <<"Y2B_FUNC_MSG1", "Y2B_FUNC_MSG2", "Y2B_FUNC_MSG3", "Y2B_FUNC_MSG4">>[k])

Y2BMessages(i, wr0) ==
    LET n == Len(Args(i))
        m(k) == Y2BMsg2(yao[i].crs, wr0[k], From(Draws(i, 2 * k), 2 * (k - 1)),
                        Args(i)[k].f, Args(i)[k].delta)
    IN  [coms |-> [k \in 1..n |-> [coms |-> m(k).coms, wits |-> m(k).wits]],
         wz   |-> [k \in 1..n |-> m(k).wz]]

YaoToBinaryGarbler0(i, op, tags) ==
    LET n == Len(Args(i)) IN
    /\ i = 0
    /\ On(i, op, 0)
    /\ \E y \in [1..n -> {0, 1}], wyr \in [1..n -> Masks] :
         LET wr0 == [k \in 1..n |-> Y2BMask(yao[i].delta, y[k], wyr[k])] IN
         Return(i, Both(Sent(0, 2, Y2BTag(i, 1), [k \in 1..n |-> <<wyr[k], y[k]>>]),
                   Both(Sent(0, 1, Y2BTag(i, 1), wr0),
                        Sent(0, 2, Y2BTag(i, 2), Y2BMessages(i, wr0).coms))),
                tags, [k \in 1..n |-> Y2BShare0(Args(i)[k].f, y[k])])
    /\ Drew(i, 2 * n)

\* Only the single conversion checks that the share is of this setup.
YaoToBinaryGarbler1(i, op, tags) ==
    LET n == Len(Args(i)) IN
    /\ i = 1
    /\ \/ /\ On(i, op, 0)
          /\ Await(i, <<>>, Ask(i, {0}, Y2BTag(i, 1)), <<>>)
          /\ UNCHANGED yao
       \/ /\ On(i, op, 1)
          /\ LET wr0 == Got(i, 0, Y2BTag(i, 1))
                 m   == Y2BMessages(i, wr0)
             IN  Await(i, Sent(1, 2, Y2BTag(i, IF tags = 3 THEN 2 ELSE 4), m.coms),
                       Ask(i, {2}, Y2BTag(i, 3)), [wr0 |-> wr0, wz |-> m.wz])
          /\ Drew(i, 2 * n)
       \/ /\ On(i, op, 2)
          /\ LET wxz == Got(i, 2, Y2BTag(i, 3)) IN
             Finish(i, IF \/ tags = 3 /\ yao[i].delta # Args(i)[1].delta
                          \/ \E k \in 1..n : ~InPair(wxz[k], loc[i].wz[k][0], loc[i].wz[k][1])
                       THEN "InvalidShare" ELSE "", <<>>, tags,
                    [k \in 1..n |-> Y2BShare1(Args(i)[k].f, wxz[k], loc[i].wr0[k])])
          /\ UNCHANGED yao

\* The evaluator masks its labels and checks them against both commitments.
Y2BMask2(i, m) == [k \in DOMAIN m |-> OwnLabels(i)[k] \oplus m[k][1]]

Y2BFinish(i, tags, m0, m1) ==
    LET n == Len(Args(i))
        error(k) == Y2BError(yao[i].crs, [j \in {0, 1} |-> IF j = 0 THEN m0[k] ELSE m1[k]], loc[i].wxz[k],
                             lsb(OwnLabels(i)[k]), loc[i].y[k])
        bad == {k \in 1..n : error(k) # ""}
    IN  Finish(i, IF bad = {} THEN "" ELSE error(CHOOSE k \in bad : \A j \in bad : k <= j),
               <<>>, tags, [k \in 1..n |-> Y2BShare2(OwnLabels(i)[k], loc[i].y[k])])

YaoToBinaryEvaluator(i, op, tags) ==
    /\ i = 2
    /\ UNCHANGED yao
    /\ \/ /\ On(i, op, 0)
          /\ Await(i, <<>>, Ask(i, {0}, Y2BTag(i, 1)), <<>>)
       \/ /\ On(i, op, 1)
          /\ LET m == Got(i, 0, Y2BTag(i, 1)) IN
             Await(i, Sent(2, 1, Y2BTag(i, 3), Y2BMask2(i, m)),
                   Ask(i, IF tags = 3 THEN {0, 1} ELSE {0}, Y2BTag(i, 2)),
                   [y |-> [k \in DOMAIN m |-> m[k][2]], wxz |-> Y2BMask2(i, m)])
       \/ /\ On(i, op, 2) /\ tags = 3
          /\ Y2BFinish(i, tags, Got(i, 0, Y2BTag(i, 2)), Got(i, 1, Y2BTag(i, 2)))
       \/ /\ On(i, op, 2) /\ tags = 4
          /\ Await(i, <<>>, Ask(i, {1}, Y2BTag(i, 4)),
                   [y |-> loc[i].y, wxz |-> loc[i].wxz, m |-> Got(i, 0, Y2BTag(i, 2))])
       \/ /\ On(i, op, 3)
          /\ Y2BFinish(i, tags, loc[i].m, Got(i, 1, Y2BTag(i, 4)))

YaoToBinary(i) ==
    \/ YaoToBinaryGarbler0(i, "yao_to_binary", 3)
    \/ YaoToBinaryGarbler1(i, "yao_to_binary", 3)
    \/ YaoToBinaryEvaluator(i, "yao_to_binary", 3)

BatchYaoToBinary(i) ==
    \/ YaoToBinaryGarbler0(i, "batch_yao_to_binary", 4)
    \/ YaoToBinaryGarbler1(i, "batch_yao_to_binary", 4)
    \/ YaoToBinaryEvaluator(i, "batch_yao_to_binary", 4)

-----------------------------------------------------------------------------
(* Calls without messages.                                                 *)

\* A sharing of bits that other code made and the party brings.
Bring(i) ==
    /\ On(i, "bring", 0)
    /\ Return(i, <<>>, 0, Mine(i))
    /\ UNCHANGED yao

\* YaoShare::xor of two shares of one setup: another offset is an assertion.
XorShares(i) ==
    /\ On(i, "xor", 0)
    /\ LET u == Args(i)[1]
           v == Args(i)[2]
       IN  IF Garbler(i)
           THEN Finish(i, IF u.delta # v.delta THEN "panic" ELSE "", <<>>, 0,
                       <<[delta |-> u.delta, f |-> u.f \oplus v.f]>>)
           ELSE Return(i, <<>>, 0, <<[label |-> u.label \oplus v.label]>>)
    /\ UNCHANGED yao

-----------------------------------------------------------------------------
(* What the hosts and the relay do (external).                             *)

\* The relay of a waiting party breaks: its round returns an error.
Lost(i) ==
    /\ retries < Plans[plan].retries
    /\ Running(i) /\ asked[i] # {}
    /\ Throw(i, "MissingMessage") /\ UNCHANGED yao

\* A host gives up and broadcasts an ABORT message.
HostAborts(i) ==
    /\ i \in Plans[plan].aborters /\ Running(i)
    /\ aborted' = aborted \cup {i}
    /\ fail' = [fail EXCEPT ![i] = "stopped"]
    /\ UNCHANGED <<mail, counter, asked, hosts, own, yao, retries>>

\* Another party's ABORT message ends the running round.
AbortProtocol(i) ==
    /\ Running(i) /\ SeesAbort(i)
    /\ Throw(i, "AbortProtocol") /\ UNCHANGED yao

Finished == LET n == CHOOSE n \in {at[i] : i \in Parties} : \A i \in Parties : n <= at[i] IN n - 1

\* Faulty: what a party has of calls that others did not finish is kept.
RetryKeeping ==
    /\ retries < Plans[plan].retries
    /\ \E i \in Parties : fail[i] # ""
    /\ retries' = retries + 1
    /\ mail' = <<>> /\ counter' = [i \in Parties |-> 0] /\ asked' = [i \in Parties |-> {}]
    /\ at' = [i \in Parties |-> Finished + 1]
    /\ step' = [i \in Parties |-> 0] /\ loc' = [i \in Parties |-> <<>>]
    /\ fail' = [i \in Parties |-> ""]
    /\ UNCHANGED <<aborted, hosts, yao, result>>

\* After an error the hosts agree to start over at the first call that not all
\* of them finished, over a new relay but with the setups they have.
Retry ==
    /\ retries < Plans[plan].retries
    /\ \E i \in Parties : fail[i] # ""
    /\ retries' = retries + 1
    /\ mail' = <<>> /\ counter' = [i \in Parties |-> 0] /\ asked' = [i \in Parties |-> {}]
    /\ at' = [i \in Parties |-> Finished + 1]
    /\ step' = [i \in Parties |-> 0] /\ loc' = [i \in Parties |-> <<>>]
    /\ result' = [i \in Parties |-> SubSeq(result[i], 1, Finished)]
    /\ fail' = [i \in Parties |-> ""]
    /\ UNCHANGED <<aborted, hosts, yao>>

-----------------------------------------------------------------------------

Step(i) ==
    \/ SetupYao(i)
    \/ InputYao(i) \/ BatchInputYao(i)
    \/ InputFromGarbler(i) \/ InputFromEvaluator(i) \/ InputFromAll(i)
    \/ CircuitEval(i) \/ MapCircuitEval(i)
    \/ Validate(i)
    \/ OutputYao(i) \/ BatchOutputYao(i) \/ OutputYaoTo(i) \/ BatchOutputYaoTo(i)
    \/ BinaryToYao(i) \/ BatchBinaryToYao(i)
    \/ YaoToBinary(i) \/ BatchYaoToBinary(i)
    \/ Bring(i) \/ XorShares(i)

Stopped(i) == fail[i] # "" \/ at[i] > Len(Script)

\* Nothing is left to do.
AllStopped == (\A i \in Parties : Stopped(i)) /\ UNCHANGED vars

Next ==
    \/ \E i \in Parties : Step(i) \/ AbortProtocol(i) \/ Lost(i) \/ HostAborts(i)
    \/ Retry
    \/ AllStopped

Spec == Init /\ [][Next]_vars

-----------------------------------------------------------------------------
(* Properties.                                                             *)

TypeOK ==
    /\ at \in [Parties -> 1..(Len(Script) + 1)]
    /\ step \in [Parties -> 0..3]
    /\ \A i \in Parties :
         /\ Len(result[i]) = at[i] - 1
         /\ counter[i] \in 0..(CounterMod - 1)
         /\ yao[i].delta \in Block
         /\ \A a \in asked[i] : a[2] = i

\* The bit three Yao shares hold; -1 when the garblers' shares differ or
\* the label is neither of the wire's two.
YaoBit(s) ==
    IF s[0] # s[1] \/ ~MatchesWire(s[2].label, s[0].f, s[0].delta) THEN -1
    ELSE (IF s[2].label = s[0].f THEN 0 ELSE 1)

\* The bit a replicated sharing holds; -1 when two parties differ on a part.
BinaryBit(s) ==
    IF \E i \in Parties : Flip(s[i].value1, s[i].value2) # s[PrevOf(i)].value2 THEN -1
    ELSE Flip(Flip(s[0].value2, s[1].value2), s[2].value2)

\* The parties that learn the result of a call.
Learners(call) ==
    IF call.op \in {"output_yao_to", "batch_output_yao_to"} THEN {call.pid} ELSE Parties

Opened(k) ==
    LET call == Script[k]
        s(n) == [i \in Parties |-> result[i][k][n]]
        learnt(n) == {result[i][k][n] : i \in Learners(call)}
    IN  CASE call.op = "setup_yao" -> <<>>
          [] call.op \in {"bring", "yao_to_binary", "batch_yao_to_binary"} ->
               [n \in DOMAIN result[0][k] |-> BinaryBit(s(n))]
          [] call.op \in {"validate", "output_yao", "batch_output_yao", "output_yao_to",
                          "batch_output_yao_to"} ->
               [n \in DOMAIN result[0][k] |->
                  IF Cardinality(learnt(n)) = 1 THEN CHOOSE b \in learnt(n) : TRUE ELSE -1]
          [] OTHER -> [n \in DOMAIN result[0][k] |-> YaoBit(s(n))]

Ideal == INSTANCE IdealYao WITH plain <- [k \in 1..Finished |-> Opened(k)]

\* The protocols implement the plain computation: when the last party finishes
\* a call, the shares the three hold open to the promised bits and whoever
\* learns a bit learns the promised one, however far the parties drift apart
\* and whatever halves and masks are drawn.
Implements == Ideal!Spec

\* Garblers that have come equally far drew equally much from their common
\* stream, and parties that have come equally far took equally many tags:
\* what tells apart, without a message, the labels and rounds of one call from
\* those of another.  (Hosts that start over keep streams that drifted apart.)
InStep ==
    \A i, j \in Parties : at[i] = at[j] =>
        /\ counter[i] = counter[j]
        /\ /\ Garbler(i) /\ Garbler(j) /\ step[i] = 0 /\ step[j] = 0
           /\ fail[i] = "" /\ fail[j] = "" /\ retries = 0
           => yao[i] = yao[j]

\* The relay keeps nothing when all have finished: every message was awaited
\* by the party it was sent to.
NothingUnread == (\A i \in Parties : at[i] > Len(Script)) => DOMAIN mail = {}

\* The one thing that fails in an undisturbed run is the evaluator's cutting of
\* the tables of a circuit that has none.
OnlyFreePanics ==
    \A i \in Parties : fail[i] # "" /\ Plans[plan].retries = 0 /\ aborted = {} =>
        /\ i = 2 /\ fail[i] = "panic" /\ Call(i).op = "map_circuit_eval"
        /\ Call(i).inputs.vector /\ ~Call(i).circuits.vector
        /\ \A n \in DOMAIN Call(i).circuits.of[1].gates :
             Call(i).circuits.of[1].gates[n].op \notin {"And", "Constant"}

\* Parties wait for ever only for one that failed without an ABORT message, or
\* when they do not listen for one: when no task can go on, every other party
\* has come to the end of its calls or failed.
WaitsEnd ==
    (\A i \in Parties : Running(i) => ~Complete(i) /\ ~SeesAbort(i)) =>
        \A i \in Parties : Stopped(i) \/
            \E j \in Parties : fail[j] # "" /\ (fail[j] = "stopped" => i \notin AskAbort)

=============================================================================
