--------------------------- MODULE YaoRelayProofs ---------------------------
(***************************************************************************)
(* Proofs about YaoRelay and YaoShares, for scripts, seeds, crs, blocks and*)
(* plans of any kind.  First what the letters of each call are and that    *)
(* each step of a party sends those and awaits those; then that the tags   *)
(* count the calls, that the relay holds what was sent and not taken, that *)
(* nobody waits in a circle and that the garblers draw on common streams;  *)
(* at the end, that the honest messages of a share conversion are accepted *)
(* and its outcome stands for the bit it started from.                     *)
(***************************************************************************)
EXTENDS YaoRelay, NumberLemmas, SequenceTheorems, TLAPS

-----------------------------------------------------------------------------
(* Which messages a call has.                                              *)

\* The message of a call from one party to another under the call's tag-th
\* tag: sent when its sender has passed `sent` awaits, taken out of the relay
\* by the step after the receiver's await number `taken`.
Letter(from, to, tag, name, sent, taken) ==
    [from |-> from, to |-> to, tag |-> tag, name |-> name, sent |-> sent, taken |-> taken]

\* A message of each garbler to the evaluator, and of it to them.
Up(tag, name, sent, taken)   == {Letter(0, 2, tag, name, sent, taken), Letter(1, 2, tag, name, sent, taken)}
Down(tag, name, sent, taken) == {Letter(2, 0, tag, name, sent, taken), Letter(2, 1, tag, name, sent, taken)}

ToBinary(fourth) ==
    {Letter(0, 2, 1, "Y2B_FUNC_MSG1", 0, 1), Letter(0, 1, 1, "Y2B_FUNC_MSG1", 0, 1),
     Letter(0, 2, 2, "Y2B_FUNC_MSG2", 0, 2), Letter(2, 1, 3, "Y2B_FUNC_MSG3", 1, 2),
     IF fourth THEN Letter(1, 2, 4, "Y2B_FUNC_MSG4", 1, 3) ELSE Letter(1, 2, 2, "Y2B_FUNC_MSG2", 1, 2)}

Letters(call) ==
    CASE call.op = "setup_yao" ->
           Down(1, "SETUP_YAO_FUNC_MSG1", 0, 1) \cup
           {Letter(0, 1, 2, "SETUP_YAO_FUNC_MSG2", 1, 2), Letter(0, 2, 3, "SETUP_YAO_FUNC_MSG3", 1, 1)}
      [] call.op \in {"input_yao", "batch_input_yao"} -> Up(1, "INPUT_YAO_FUNC_MSG1", 0, 1)
      [] call.op = "input_from" /\ call.pid # 2 -> Up(1, "INPUT_YAO_FROM_FUNC_MSG1", 0, 1)
      [] call.op = "input_from" /\ call.pid = 2 ->
           Down(1, "INPUT_YAO_FROM_FUNC_MSG1", 0, 1) \cup Up(2, "INPUT_YAO_FROM_FUNC_MSG2", 1, 1)
      [] call.op = "input_from_all" ->
           Down(1, "INPUT_YAO_FROM_ALL_MSG1", 0, 1) \cup Up(2, "INPUT_YAO_FROM_ALL_MSG2", 1, 3) \cup
           {Letter(0, 2, 1, "INPUT_YAO_FROM_ALL_MSG1", 0, 1), Letter(1, 2, 3, "INPUT_YAO_FROM_ALL_MSG3", 0, 2)}
      [] call.op \in {"circuit_eval", "map_circuit_eval"} ->
           {Letter(0, 2, 2, "YAO_CIRC_EVAL_FUNC_MSG2", 0, 1), Letter(1, 2, 1, "YAO_CIRC_EVAL_FUNC_MSG1", 0, 2)}
      [] call.op = "validate" -> Down(1, "OUTPUT_YAO_FUNC_MSG1", 0, 1)
      [] call.op \in {"output_yao", "batch_output_yao"} ->
           Down(1, "OUTPUT_YAO_FUNC_MSG1", 0, 1) \cup Up(2, "OUTPUT_YAO_FUNC_MSG2", 1, 1)
      [] call.op \in {"output_yao_to", "batch_output_yao_to"} ->
           IF call.pid = 2 THEN Up(1, "OUTPUT_YAO_TO_FUNC_MSG1", 0, 1)
           ELSE {Letter(2, call.pid, 1, "OUTPUT_YAO_TO_FUNC_MSG1", 0, 1)}
      [] call.op \in {"binary_to_yao", "batch_binary_to_yao"} -> Up(1, "B2Y_FUNC_MSG1", 0, 1)
      [] call.op = "yao_to_binary" -> ToBinary(FALSE)
      [] call.op = "batch_yao_to_binary" -> ToBinary(TRUE)
      [] OTHER -> {}

\* The tags a party takes in a call, whether or not it has a use for them.
TagsOf(call) ==
    CASE call.op \in {"setup_yao", "input_from_all", "yao_to_binary"} -> 3
      [] call.op = "batch_yao_to_binary" -> 4
      [] call.op \in {"input_from", "circuit_eval", "map_circuit_eval", "output_yao", "batch_output_yao"} -> 2
      [] call.op \in {"input_yao", "batch_input_yao", "validate", "output_yao_to", "batch_output_yao_to",
                      "binary_to_yao", "batch_binary_to_yao"} -> 1
      [] OTHER -> 0

Outgoing(call, i, s) == {l \in Letters(call) : l.from = i /\ l.sent = s}
Incoming(call, i, s) == {l \in Letters(call) : l.to = i /\ l.taken = s}

-----------------------------------------------------------------------------
(* The invariant.                                                          *)

\* c numbers the tags from call b on, where the relay was new: those of call k
\* follow c[k].
Numbers(c, b) ==
    /\ b \in 1..(Len(Script) + 1)
    /\ c \in [1..(Len(Script) + 1) -> Nat]
    /\ \A k \in 1..(Len(Script) + 1) : k <= b => c[k] = 0
    /\ \A k \in b..Len(Script) : c[k + 1] = c[k] + TagsOf(Script[k])

Numbered(c, b) == \A i \in Parties : b <= at[i] /\ counter[i] = c[at[i]] % CounterMod

\* Where letter l of call k is in the relay.
Place(c, k, l) == <<l.from, l.to, <<l.name, (c[k] + l.tag) % CounterMod>>>>

\* A step of its sender has sent it; one of its receiver has taken it.
IsSent(k, l)  == at[l.from] > k \/ (at[l.from] = k /\ step[l.from] > l.sent)
IsTaken(k, l) == at[l.to] > k \/ (at[l.to] = k /\ step[l.to] > l.taken)

\* A running party asks for the letters of its call that its next step takes.
AsksAt(c, i) ==
    \/ ~ Running(i) /\ asked[i] = {}
    \/ at[i] <= Len(Script) /\ asked[i] = {Place(c, at[i], l) : l \in Incoming(Call(i), i, step[i])}

Asking(c) == \A i \in Parties : AsksAt(c, i)

\* What was sent and not taken is in the relay, and nothing else (what a party
\* whose call failed was waiting for is gone).
Posted(c) ==
    \A a \in DOMAIN mail :
        \E k \in 1..Len(Script) : \E l \in Letters(Script[k]) : a = Place(c, k, l) /\ IsSent(k, l) /\ ~ IsTaken(k, l)

Kept(c) ==
    \A k \in 1..Len(Script) : \A l \in Letters(Script[k]) :
        IsSent(k, l) /\ ~ IsTaken(k, l) /\ fail[l.to] = "" => Place(c, k, l) \in DOMAIN mail

\* Nobody has taken what was not sent.
Caused == \A k \in 1..Len(Script) : \A l \in Letters(Script[k]) : IsTaken(k, l) => IsSent(k, l)

Failures ==
    \A i \in Parties : /\ fail[i] # "" => at[i] <= Len(Script)
                       /\ fail[i] = "stopped" => i \in aborted

IsList(s) == \E S : s \in Seq(S)

Places ==
    /\ plan \in DOMAIN Plans /\ given \in Plans[plan].givens
    /\ at \in [Parties -> 1..(Len(Script) + 1)]
    /\ step \in [Parties -> 0..3]
    /\ counter \in [Parties -> 0..(CounterMod - 1)]
    /\ DOMAIN fail = Parties /\ DOMAIN asked = Parties /\ DOMAIN result = Parties
    /\ DOMAIN yao = Parties /\ DOMAIN loc = Parties
    /\ aborted \subseteq Parties
    /\ \A i \in Parties : IsList(result[i]) /\ Len(result[i]) = at[i] - 1
    /\ \A i \in Parties : at[i] > Len(Script) => step[i] = 0

\* No counter comes round in a run of a Script.
Unwrapped == \A p \in DOMAIN Plans : 4 * Len(Plans[p].calls) < CounterMod

-----------------------------------------------------------------------------
(* What a step of a party does, told by the letters of its call.           *)

Here(i, l) == <<l.from, l.to, <<l.name, (counter[i] + l.tag) % CounterMod>>>>

Posts(i, out) == \A a : a \in DOMAIN out <=> \E l \in Outgoing(Call(i), i, step[i]) : a = Here(i, l)

Wanted(i, s) == {Here(i, l) : l \in Incoming(Call(i), i, s)}

Ended(i) ==
    \A l \in Letters(Call(i)) : (l.to = i => l.taken <= step[i]) /\ (l.from = i => l.sent <= step[i])

Awaits(i) ==
    \E out, keep : /\ Posts(i, out) /\ Incoming(Call(i), i, step[i] + 1) # {}
                   /\ Await(i, out, Wanted(i, step[i] + 1), keep)

Returns(i) == \E out, value : Posts(i, out) /\ Ended(i) /\ Return(i, out, TagsOf(Call(i)), value)

\* What a call may return instead of its value.
Errors == {"AbortProtocol", "CommitmentVerificationFailed", "InconsistentMessage", "InvalidLength",
           "InvalidMessage", "InvalidShare", "MissingMessage", "panic"}

Throws(i) == \E error \in Errors : Throw(i, error)

Moves(i) == Running(i) /\ Complete(i) /\ (Awaits(i) \/ Returns(i) \/ Throws(i))

LEMMA NotStopped == "" \notin Errors /\ "stopped" \notin Errors
  BY DEF Errors

LEMMA HereIs ==
    ASSUME NEW i, NEW from, NEW to, NEW tag, NEW name, NEW sent, NEW taken
    PROVE  Here(i, Letter(from, to, tag, name, sent, taken)) = <<from, to, Tag(i, tag, name)>>
  BY DEF Here, Letter, Tag

LEMMA PostsNone ==
    ASSUME NEW i, Outgoing(Call(i), i, step[i]) = {} PROVE Posts(i, <<>>)
  BY DEF Posts

Goes(i, l, j, tag) == l.from = i /\ Here(i, l) = <<i, j, tag>>

LEMMA PostsOne ==
    ASSUME NEW i, NEW l, NEW j, NEW tag, NEW body,
           Outgoing(Call(i), i, step[i]) = {l}, Goes(i, l, j, tag)
    PROVE  Posts(i, Sent(i, j, tag, body))
  BY DEF Posts, Sent, Goes

LEMMA PostsTwo ==
    ASSUME NEW i, NEW l, NEW m, NEW j, NEW k, NEW tag, NEW other, NEW body, NEW next,
           Outgoing(Call(i), i, step[i]) = {l, m}, Goes(i, l, j, tag), Goes(i, m, k, other)
    PROVE  Posts(i, Both(Sent(i, j, tag, body), Sent(i, k, other, next)))
  BY DEF Posts, Sent, Both, Goes

LEMMA PostsThree ==
    ASSUME NEW i, NEW l, NEW m, NEW n, NEW j, NEW k, NEW q, NEW tag, NEW other, NEW third,
           NEW body, NEW next, NEW last,
           Outgoing(Call(i), i, step[i]) = {l, m, n},
           Goes(i, l, j, tag), Goes(i, m, k, other), Goes(i, n, q, third)
    PROVE  Posts(i, Both(Sent(i, j, tag, body), Both(Sent(i, k, other, next), Sent(i, q, third, last))))
  BY DEF Posts, Sent, Both, Goes

LEMMA GoesIf ==
    ASSUME NEW i, NEW to, NEW tag, NEW name, NEW sent, NEW taken
    PROVE  Goes(i, Letter(i, to, tag, name, sent, taken), to, Tag(i, tag, name))
  BY HereIs DEF Goes, Letter

LEMMA OneIsNotZero == 1 # 0
  OBVIOUS

LEMMA InputErrors ==
    ASSUME NEW crs, NEW m, NEW x, NEW n
    PROVE  /\ From12Error(crs, m, x) \in Errors \cup {""}
           /\ From3Error(crs, m, x, "CommitmentVerificationFailed") \in Errors \cup {""}
           /\ AllMsg1Error(crs, m, n) \in Errors \cup {""}
           /\ AllMsg2Error(crs, m, n, x) \in Errors \cup {""}
<1>1. From12Error(crs, m, x) \in Errors \cup {""}
  BY Zenon DEF From12Error, Errors
<1>2. From3Error(crs, m, x, "CommitmentVerificationFailed") \in Errors \cup {""}
  BY Zenon DEF From3Error, Errors
<1>3. AllMsg1Error(crs, m, n) \in Errors \cup {""}
  BY Zenon DEF AllMsg1Error, Errors
<1>4. AllMsg2Error(crs, m, n, x) \in Errors \cup {""}
  BY Zenon DEF AllMsg2Error, Errors
<1> QED BY <1>1, <1>2, <1>3, <1>4, Zenon

LEMMA SetupTable ==
    ASSUME NEW call, call.op = "setup_yao"
    PROVE  /\ Letters(call) = {Letter(2, 0, 1, "SETUP_YAO_FUNC_MSG1", 0, 1),
                               Letter(2, 1, 1, "SETUP_YAO_FUNC_MSG1", 0, 1),
                               Letter(0, 1, 2, "SETUP_YAO_FUNC_MSG2", 1, 2),
                               Letter(0, 2, 3, "SETUP_YAO_FUNC_MSG3", 1, 1)}
           /\ TagsOf(call) = 3
  BY DEF Letters, TagsOf, Up, Down, ToBinary

LEMMA SetupTags ==
    ASSUME NEW i
    PROVE  /\ SetupTag(i, 1) = Tag(i, 1, "SETUP_YAO_FUNC_MSG1")
           /\ SetupTag(i, 2) = Tag(i, 2, "SETUP_YAO_FUNC_MSG2")
           /\ SetupTag(i, 3) = Tag(i, 3, "SETUP_YAO_FUNC_MSG3")
  BY DEF SetupTag

LEMMA SetupEvaluatorMoves ==
    ASSUME NEW i \in Parties, SetupEvaluator(i)
    PROVE  Moves(i)
<1>0. i \in {0, 1, 2} /\ Garbler(0) /\ Garbler(1) /\ ~ Garbler(2)
  BY DEF Parties, Garbler
<1>1. Call(i).op = "setup_yao" /\ Running(i) /\ Complete(i) /\ i = 2
  BY <1>0, Zenon DEF SetupEvaluator, On
<1>2. CASE step[i] = 0
  <2>1. ~ On(i, "setup_yao", 1)
    BY <1>2 DEF On
  <2>2. PICK crs, keep :
          Await(i, Both(Sent(2, 0, SetupTag(i, 1), crs), Sent(2, 1, SetupTag(i, 1), crs)), Ask(i, {0}, SetupTag(i, 3)), keep)
    BY <1>0, <1>1, <1>2, <2>1, Zenon DEF SetupEvaluator
  <2>3. Outgoing(Call(i), i, step[i]) = {Letter(2, 0, 1, "SETUP_YAO_FUNC_MSG1", 0, 1),
                                           Letter(2, 1, 1, "SETUP_YAO_FUNC_MSG1", 0, 1)}
    BY <1>0, <1>1, <1>2, SetupTable DEF Outgoing, Letter
  <2>4. Incoming(Call(i), i, step[i] + 1) = {Letter(0, 2, 3, "SETUP_YAO_FUNC_MSG3", 1, 1)}
    BY <1>0, <1>1, <1>2, SetupTable DEF Incoming, Letter
  <2>5. Wanted(i, step[i] + 1) = Ask(i, {0}, SetupTag(i, 3))
    BY <1>0, <1>1, <1>2, <2>4, HereIs, SetupTags DEF Wanted, Ask
  <2>6. Posts(i, Both(Sent(2, 0, SetupTag(i, 1), crs), Sent(2, 1, SetupTag(i, 1), crs)))
    BY <1>0, <1>1, <1>2, <2>3, PostsTwo, GoesIf, SetupTags
  <2> QED BY <1>1, <2>2, <2>4, <2>5, <2>6 DEF Moves, Awaits
<1>3. CASE step[i] = 1
  <2>1. ~ On(i, "setup_yao", 0)
    BY <1>3 DEF On
  <2>2. PICK value :
          Return(i, <<>>, 3, value)
    BY <1>0, <1>1, <1>3, <2>1, Zenon DEF SetupEvaluator
  <2>3. Outgoing(Call(i), i, step[i]) = {}
    BY <1>0, <1>1, <1>3, SetupTable DEF Outgoing, Letter
  <2>4. Ended(i) /\ TagsOf(Call(i)) = 3
    BY <1>0, <1>1, <1>3, SetupTable DEF Ended, Letter
  <2>6. Posts(i, <<>>)
    BY <1>0, <1>1, <1>3, <2>3, PostsNone
  <2> QED BY <1>1, <2>2, <2>4, <2>6 DEF Moves, Returns
<1> QED BY <1>0, <1>1, <1>2, <1>3, Zenon DEF SetupEvaluator, On

LEMMA SetupGarbler0Moves ==
    ASSUME NEW i \in Parties, SetupGarbler0(i)
    PROVE  Moves(i)
<1>0. i \in {0, 1, 2} /\ Garbler(0) /\ Garbler(1) /\ ~ Garbler(2)
  BY DEF Parties, Garbler
<1>1. Call(i).op = "setup_yao" /\ Running(i) /\ Complete(i) /\ i = 0
  BY <1>0, Zenon DEF SetupGarbler0, On
<1>2. CASE step[i] = 1
  <2>1. ~ On(i, "setup_yao", 0)
    BY <1>2 DEF On
  <2>2. PICK m, k, value :
          Return(i, Both(Sent(0, 1, SetupTag(i, 2), m), Sent(0, 2, SetupTag(i, 3), k)), 3, value)
    BY <1>0, <1>1, <1>2, <2>1, Zenon DEF SetupGarbler0
  <2>3. Outgoing(Call(i), i, step[i]) = {Letter(0, 1, 2, "SETUP_YAO_FUNC_MSG2", 1, 2),
                                           Letter(0, 2, 3, "SETUP_YAO_FUNC_MSG3", 1, 1)}
    BY <1>0, <1>1, <1>2, SetupTable DEF Outgoing, Letter
  <2>4. Ended(i) /\ TagsOf(Call(i)) = 3
    BY <1>0, <1>1, <1>2, SetupTable DEF Ended, Letter
  <2>6. Posts(i, Both(Sent(0, 1, SetupTag(i, 2), m), Sent(0, 2, SetupTag(i, 3), k)))
    BY <1>0, <1>1, <1>2, <2>3, PostsTwo, GoesIf, SetupTags
  <2> QED BY <1>1, <2>2, <2>4, <2>6 DEF Moves, Returns
<1> QED BY <1>0, <1>1, <1>2, Zenon DEF SetupGarbler0, On

LEMMA SetupGarbler1Moves ==
    ASSUME NEW i \in Parties, SetupGarbler1(i)
    PROVE  Moves(i)
<1>0. i \in {0, 1, 2} /\ Garbler(0) /\ Garbler(1) /\ ~ Garbler(2)
  BY DEF Parties, Garbler
<1>1. Call(i).op = "setup_yao" /\ Running(i) /\ Complete(i) /\ i = 1
  BY <1>0, Zenon DEF SetupGarbler1, On
<1>2. CASE step[i] = 1
  <2>1. ~ On(i, "setup_yao", 0) /\ ~ On(i, "setup_yao", 2)
    BY <1>2 DEF On
  <2>2. PICK keep :
          Await(i, <<>>, Ask(i, {0}, SetupTag(i, 2)), keep)
    BY <1>0, <1>1, <1>2, <2>1, Zenon DEF SetupGarbler1
  <2>3. Outgoing(Call(i), i, step[i]) = {}
    BY <1>0, <1>1, <1>2, SetupTable DEF Outgoing, Letter
  <2>4. Incoming(Call(i), i, step[i] + 1) = {Letter(0, 1, 2, "SETUP_YAO_FUNC_MSG2", 1, 2)}
    BY <1>0, <1>1, <1>2, SetupTable DEF Incoming, Letter
  <2>5. Wanted(i, step[i] + 1) = Ask(i, {0}, SetupTag(i, 2))
    BY <1>0, <1>1, <1>2, <2>4, HereIs, SetupTags DEF Wanted, Ask
  <2>6. Posts(i, <<>>)
    BY <1>0, <1>1, <1>2, <2>3, PostsNone
  <2> QED BY <1>1, <2>2, <2>4, <2>5, <2>6 DEF Moves, Awaits
<1>3. CASE step[i] = 2
  <2>1. ~ On(i, "setup_yao", 0) /\ ~ On(i, "setup_yao", 1)
    BY <1>3 DEF On
  <2>2. PICK error, value :
          Finish(i, error, <<>>, 3, value) /\ error \in Errors \cup {""}
    BY <1>0, <1>1, <1>3, <2>1, Zenon DEF SetupGarbler1, Errors
  <2>3. Outgoing(Call(i), i, step[i]) = {}
    BY <1>0, <1>1, <1>3, SetupTable DEF Outgoing, Letter
  <2>4. Ended(i) /\ TagsOf(Call(i)) = 3
    BY <1>0, <1>1, <1>3, SetupTable DEF Ended, Letter
  <2>6. Posts(i, <<>>)
    BY <1>0, <1>1, <1>3, <2>3, PostsNone
  <2> QED BY <1>1, <2>2, <2>4, <2>6, NotStopped, Zenon DEF Moves, Returns, Throws, Finish
<1> QED BY <1>0, <1>1, <1>2, <1>3, Zenon DEF SetupGarbler1, On

LEMMA SetupYaoMoves ==
    ASSUME NEW i \in Parties, SetupYao(i)
    PROVE  Moves(i)
<1>1. CASE Garbler(i) /\ On(i, "setup_yao", 0) /\ Await(i, <<>>, Ask(i, {2}, SetupTag(i, 1)), <<>>)
  <2>1. Outgoing(Call(i), i, step[i]) = {}
    BY <1>1, SetupTable DEF Outgoing, Letter, On, Garbler
  <2>2. Incoming(Call(i), i, step[i] + 1) = {Letter(2, i, 1, "SETUP_YAO_FUNC_MSG1", 0, 1)}
    BY <1>1, SetupTable DEF Incoming, Letter, On, Garbler, Parties
  <2>3. Wanted(i, step[i] + 1) = Ask(i, {2}, SetupTag(i, 1))
    BY <2>2, HereIs, SetupTags DEF Wanted, Ask
  <2> QED BY <1>1, <2>1, <2>2, <2>3, PostsNone DEF Moves, Awaits, On
<1> QED BY <1>1, SetupEvaluatorMoves, SetupGarbler0Moves, SetupGarbler1Moves DEF SetupYao

LEMMA SameInputTable ==
    ASSUME NEW call, call.op \in {"input_yao", "batch_input_yao"}
    PROVE  /\ Letters(call) = {Letter(0, 2, 1, "INPUT_YAO_FUNC_MSG1", 0, 1),
                               Letter(1, 2, 1, "INPUT_YAO_FUNC_MSG1", 0, 1)}
           /\ TagsOf(call) = 1
  BY DEF Letters, TagsOf, Up, Down, ToBinary

LEMMA SameInputMoves ==
    ASSUME NEW i \in Parties, NEW op \in {"input_yao", "batch_input_yao"}, SameInput(i, op)
    PROVE  Moves(i)
<1>0. i \in {0, 1, 2} /\ Garbler(0) /\ Garbler(1) /\ ~ Garbler(2)
  BY DEF Parties, Garbler
<1>1. Call(i).op = op /\ Running(i) /\ Complete(i)
  BY <1>0, Zenon DEF SameInput, On
<1>2. CASE i \in {0, 1} /\ step[i] = 0
  <2>1. ~ On(i, op, 1)
    BY <1>2 DEF On
  <2>2. PICK m, value :
          Return(i, Sent(i, 2, Tag(i, 1, "INPUT_YAO_FUNC_MSG1"), m), 1, value)
    BY <1>0, <1>1, <1>2, <2>1, Zenon DEF SameInput
  <2>3. Outgoing(Call(i), i, step[i]) = {Letter(i, 2, 1, "INPUT_YAO_FUNC_MSG1", 0, 1)}
    BY <1>0, <1>1, <1>2, SameInputTable DEF Outgoing, Letter
  <2>4. Ended(i) /\ TagsOf(Call(i)) = 1
    BY <1>0, <1>1, <1>2, SameInputTable DEF Ended, Letter
  <2>6. Posts(i, Sent(i, 2, Tag(i, 1, "INPUT_YAO_FUNC_MSG1"), m))
    BY <1>0, <1>1, <1>2, <2>3, PostsOne, GoesIf
  <2> QED BY <1>1, <2>2, <2>4, <2>6 DEF Moves, Returns
<1>3. CASE i = 2 /\ step[i] = 0
  <2>1. ~ On(i, op, 1)
    BY <1>3 DEF On
  <2>2. PICK keep :
          Await(i, <<>>, Ask(i, {0, 1}, Tag(i, 1, "INPUT_YAO_FUNC_MSG1")), keep)
    BY <1>0, <1>1, <1>3, <2>1, Zenon DEF SameInput
  <2>3. Outgoing(Call(i), i, step[i]) = {}
    BY <1>0, <1>1, <1>3, SameInputTable DEF Outgoing, Letter
  <2>4. Incoming(Call(i), i, step[i] + 1) = {Letter(0, 2, 1, "INPUT_YAO_FUNC_MSG1", 0, 1),
                                               Letter(1, 2, 1, "INPUT_YAO_FUNC_MSG1", 0, 1)}
    BY <1>0, <1>1, <1>3, SameInputTable DEF Incoming, Letter
  <2>5. Wanted(i, step[i] + 1) = Ask(i, {0, 1}, Tag(i, 1, "INPUT_YAO_FUNC_MSG1"))
    BY <1>0, <1>1, <1>3, <2>4, HereIs DEF Wanted, Ask
  <2>6. Posts(i, <<>>)
    BY <1>0, <1>1, <1>3, <2>3, PostsNone
  <2> QED BY <1>1, <2>2, <2>4, <2>5, <2>6 DEF Moves, Awaits
<1>4. CASE i = 2 /\ step[i] = 1
  <2>1. ~ On(i, op, 0)
    BY <1>4 DEF On
  <2>2. PICK error, value :
          Finish(i, error, <<>>, 1, value) /\ error \in Errors \cup {""}
    BY <1>0, <1>1, <1>4, <2>1, Zenon DEF SameInput, Errors
  <2>3. Outgoing(Call(i), i, step[i]) = {}
    BY <1>0, <1>1, <1>4, SameInputTable DEF Outgoing, Letter
  <2>4. Ended(i) /\ TagsOf(Call(i)) = 1
    BY <1>0, <1>1, <1>4, SameInputTable DEF Ended, Letter
  <2>6. Posts(i, <<>>)
    BY <1>0, <1>1, <1>4, <2>3, PostsNone
  <2> QED BY <1>1, <2>2, <2>4, <2>6, NotStopped, Zenon DEF Moves, Returns, Throws, Finish
<1> QED BY <1>0, <1>1, <1>2, <1>3, <1>4, Zenon DEF SameInput, On

LEMMA FromTags ==
    ASSUME NEW i
    PROVE  /\ FromTag(i, 1) = Tag(i, 1, "INPUT_YAO_FROM_FUNC_MSG1")
           /\ FromTag(i, 2) = Tag(i, 2, "INPUT_YAO_FROM_FUNC_MSG2")
  BY DEF FromTag

LEMMA FromGarblerTable ==
    ASSUME NEW call, call.op = "input_from", call.pid # 2
    PROVE  /\ Letters(call) = {Letter(0, 2, 1, "INPUT_YAO_FROM_FUNC_MSG1", 0, 1),
                               Letter(1, 2, 1, "INPUT_YAO_FROM_FUNC_MSG1", 0, 1)}
           /\ TagsOf(call) = 2
  BY DEF Letters, TagsOf, Up, Down, ToBinary

LEMMA FromEvaluatorTable ==
    ASSUME NEW call, call.op = "input_from", call.pid = 2
    PROVE  /\ Letters(call) = {Letter(2, 0, 1, "INPUT_YAO_FROM_FUNC_MSG1", 0, 1),
                               Letter(2, 1, 1, "INPUT_YAO_FROM_FUNC_MSG1", 0, 1),
                               Letter(0, 2, 2, "INPUT_YAO_FROM_FUNC_MSG2", 1, 1),
                               Letter(1, 2, 2, "INPUT_YAO_FROM_FUNC_MSG2", 1, 1)}
           /\ TagsOf(call) = 2
  BY DEF Letters, TagsOf, Up, Down, ToBinary

LEMMA InputFromGarblerMoves ==
    ASSUME NEW i \in Parties, InputFromGarbler(i)
    PROVE  Moves(i)
<1>0. i \in {0, 1, 2} /\ Garbler(0) /\ Garbler(1) /\ ~ Garbler(2)
  BY DEF Parties, Garbler
<1>1. Call(i).op = "input_from" /\ Running(i) /\ Complete(i) /\ Call(i).pid # 2
  BY <1>0, Zenon DEF InputFromGarbler, On
<1>2. CASE i \in {0, 1} /\ step[i] = 0
  <2>1. ~ On(i, "input_from", 1)
    BY <1>2 DEF On
  <2>2. PICK m, value :
          Return(i, Sent(i, 2, FromTag(i, 1), m), 2, value)
    BY <1>0, <1>1, <1>2, <2>1, Zenon DEF InputFromGarbler
  <2>3. Outgoing(Call(i), i, step[i]) = {Letter(i, 2, 1, "INPUT_YAO_FROM_FUNC_MSG1", 0, 1)}
    BY <1>0, <1>1, <1>2, FromGarblerTable DEF Outgoing, Letter
  <2>4. Ended(i) /\ TagsOf(Call(i)) = 2
    BY <1>0, <1>1, <1>2, FromGarblerTable DEF Ended, Letter
  <2>6. Posts(i, Sent(i, 2, FromTag(i, 1), m))
    BY <1>0, <1>1, <1>2, <2>3, PostsOne, GoesIf, FromTags
  <2> QED BY <1>1, <2>2, <2>4, <2>6 DEF Moves, Returns
<1>3. CASE i = 2 /\ step[i] = 0
  <2>1. ~ On(i, "input_from", 1)
    BY <1>3 DEF On
  <2>2. PICK keep :
          Await(i, <<>>, Ask(i, {0, 1}, FromTag(i, 1)), keep)
    BY <1>0, <1>1, <1>3, <2>1, Zenon DEF InputFromGarbler
  <2>3. Outgoing(Call(i), i, step[i]) = {}
    BY <1>0, <1>1, <1>3, FromGarblerTable DEF Outgoing, Letter
  <2>4. Incoming(Call(i), i, step[i] + 1) = {Letter(0, 2, 1, "INPUT_YAO_FROM_FUNC_MSG1", 0, 1),
                                               Letter(1, 2, 1, "INPUT_YAO_FROM_FUNC_MSG1", 0, 1)}
    BY <1>0, <1>1, <1>3, FromGarblerTable DEF Incoming, Letter
  <2>5. Wanted(i, step[i] + 1) = Ask(i, {0, 1}, FromTag(i, 1))
    BY <1>0, <1>1, <1>3, <2>4, HereIs, FromTags DEF Wanted, Ask
  <2>6. Posts(i, <<>>)
    BY <1>0, <1>1, <1>3, <2>3, PostsNone
  <2> QED BY <1>1, <2>2, <2>4, <2>5, <2>6 DEF Moves, Awaits
<1>4. CASE i = 2 /\ step[i] = 1
  <2>1. ~ On(i, "input_from", 0)
    BY <1>4 DEF On
  <2>2. PICK error, value :
          Finish(i, error, <<>>, 2, value) /\ error \in Errors \cup {""}
    BY <1>0, <1>1, <1>4, <2>1, InputErrors, Zenon DEF InputFromGarbler, Errors
  <2>3. Outgoing(Call(i), i, step[i]) = {}
    BY <1>0, <1>1, <1>4, FromGarblerTable DEF Outgoing, Letter
  <2>4. Ended(i) /\ TagsOf(Call(i)) = 2
    BY <1>0, <1>1, <1>4, FromGarblerTable DEF Ended, Letter
  <2>6. Posts(i, <<>>)
    BY <1>0, <1>1, <1>4, <2>3, PostsNone
  <2> QED BY <1>1, <2>2, <2>4, <2>6, NotStopped, Zenon DEF Moves, Returns, Throws, Finish
<1> QED BY <1>0, <1>1, <1>2, <1>3, <1>4, Zenon DEF InputFromGarbler, On

LEMMA InputFromEvaluatorMoves ==
    ASSUME NEW i \in Parties, InputFromEvaluator(i)
    PROVE  Moves(i)
<1>0. i \in {0, 1, 2} /\ Garbler(0) /\ Garbler(1) /\ ~ Garbler(2)
  BY DEF Parties, Garbler
<1>1. Call(i).op = "input_from" /\ Running(i) /\ Complete(i) /\ Call(i).pid = 2
  BY <1>0, Zenon DEF InputFromEvaluator, On
<1>2. CASE i = 2 /\ step[i] = 0
  <2>1. ~ On(i, "input_from", 1)
    BY <1>2 DEF On
  <2>2. PICK x, y, keep :
          Await(i, Both(Sent(2, 0, FromTag(i, 1), x), Sent(2, 1, FromTag(i, 1), y)), Ask(i, {0, 1}, FromTag(i, 2)), keep)
    BY <1>0, <1>1, <1>2, <2>1, Zenon DEF InputFromEvaluator
  <2>3. Outgoing(Call(i), i, step[i]) = {Letter(2, 0, 1, "INPUT_YAO_FROM_FUNC_MSG1", 0, 1),
                                           Letter(2, 1, 1, "INPUT_YAO_FROM_FUNC_MSG1", 0, 1)}
    BY <1>0, <1>1, <1>2, FromEvaluatorTable DEF Outgoing, Letter
  <2>4. Incoming(Call(i), i, step[i] + 1) = {Letter(0, 2, 2, "INPUT_YAO_FROM_FUNC_MSG2", 1, 1),
                                               Letter(1, 2, 2, "INPUT_YAO_FROM_FUNC_MSG2", 1, 1)}
    BY <1>0, <1>1, <1>2, FromEvaluatorTable DEF Incoming, Letter
  <2>5. Wanted(i, step[i] + 1) = Ask(i, {0, 1}, FromTag(i, 2))
    BY <1>0, <1>1, <1>2, <2>4, HereIs, FromTags DEF Wanted, Ask
  <2>6. Posts(i, Both(Sent(2, 0, FromTag(i, 1), x), Sent(2, 1, FromTag(i, 1), y)))
    BY <1>0, <1>1, <1>2, <2>3, PostsTwo, GoesIf, FromTags
  <2> QED BY <1>1, <2>2, <2>4, <2>5, <2>6 DEF Moves, Awaits
<1>3. CASE i \in {0, 1} /\ step[i] = 0
  <2>1. ~ On(i, "input_from", 1)
    BY <1>3 DEF On
  <2>2. PICK keep :
          Await(i, <<>>, Ask(i, {2}, FromTag(i, 1)), keep)
    BY <1>0, <1>1, <1>3, <2>1, Zenon DEF InputFromEvaluator
  <2>3. Outgoing(Call(i), i, step[i]) = {}
    BY <1>0, <1>1, <1>3, FromEvaluatorTable DEF Outgoing, Letter
  <2>4. Incoming(Call(i), i, step[i] + 1) = {Letter(2, i, 1, "INPUT_YAO_FROM_FUNC_MSG1", 0, 1)}
    BY <1>0, <1>1, <1>3, FromEvaluatorTable DEF Incoming, Letter
  <2>5. Wanted(i, step[i] + 1) = Ask(i, {2}, FromTag(i, 1))
    BY <1>0, <1>1, <1>3, <2>4, HereIs, FromTags DEF Wanted, Ask
  <2>6. Posts(i, <<>>)
    BY <1>0, <1>1, <1>3, <2>3, PostsNone
  <2> QED BY <1>1, <2>2, <2>4, <2>5, <2>6 DEF Moves, Awaits
<1>4. CASE i \in {0, 1} /\ step[i] = 1
  <2>1. ~ On(i, "input_from", 0)
    BY <1>4 DEF On
  <2>2. PICK m, value :
          Return(i, Sent(i, 2, FromTag(i, 2), m), 2, value)
    BY <1>0, <1>1, <1>4, <2>1, Zenon DEF InputFromEvaluator
  <2>3. Outgoing(Call(i), i, step[i]) = {Letter(i, 2, 2, "INPUT_YAO_FROM_FUNC_MSG2", 1, 1)}
    BY <1>0, <1>1, <1>4, FromEvaluatorTable DEF Outgoing, Letter
  <2>4. Ended(i) /\ TagsOf(Call(i)) = 2
    BY <1>0, <1>1, <1>4, FromEvaluatorTable DEF Ended, Letter
  <2>6. Posts(i, Sent(i, 2, FromTag(i, 2), m))
    BY <1>0, <1>1, <1>4, <2>3, PostsOne, GoesIf, FromTags
  <2> QED BY <1>1, <2>2, <2>4, <2>6 DEF Moves, Returns
<1>5. CASE i = 2 /\ step[i] = 1
  <2>1. ~ On(i, "input_from", 0)
    BY <1>5 DEF On
  <2>2. PICK error, value :
          Finish(i, error, <<>>, 2, value) /\ error \in Errors \cup {""}
    BY <1>0, <1>1, <1>5, <2>1, InputErrors, Zenon DEF InputFromEvaluator, Errors
  <2>3. Outgoing(Call(i), i, step[i]) = {}
    BY <1>0, <1>1, <1>5, FromEvaluatorTable DEF Outgoing, Letter
  <2>4. Ended(i) /\ TagsOf(Call(i)) = 2
    BY <1>0, <1>1, <1>5, FromEvaluatorTable DEF Ended, Letter
  <2>6. Posts(i, <<>>)
    BY <1>0, <1>1, <1>5, <2>3, PostsNone
  <2> QED BY <1>1, <2>2, <2>4, <2>6, NotStopped, Zenon DEF Moves, Returns, Throws, Finish
<1> QED BY <1>0, <1>1, <1>2, <1>3, <1>4, <1>5, Zenon DEF InputFromEvaluator, On

LEMMA ConversionErrors ==
    ASSUME NEW crs, NEW m, NEW x
    PROVE  /\ B2YError(crs, m, x) \in Errors \cup {""}
           /\ \A px, y : Y2BError(crs, m, x, px, y) \in Errors \cup {""}
  BY Zenon DEF B2YError, Y2BError, Errors

LEMMA AllTags ==
    ASSUME NEW i
    PROVE  /\ AllTag(i, 1) = Tag(i, 1, "INPUT_YAO_FROM_ALL_MSG1")
           /\ AllTag(i, 2) = Tag(i, 2, "INPUT_YAO_FROM_ALL_MSG2")
           /\ AllTag(i, 3) = Tag(i, 3, "INPUT_YAO_FROM_ALL_MSG3")
  BY DEF AllTag

LEMMA AllTable ==
    ASSUME NEW call, call.op = "input_from_all"
    PROVE  /\ Letters(call) = {Letter(2, 0, 1, "INPUT_YAO_FROM_ALL_MSG1", 0, 1),
                               Letter(2, 1, 1, "INPUT_YAO_FROM_ALL_MSG1", 0, 1),
                               Letter(0, 2, 2, "INPUT_YAO_FROM_ALL_MSG2", 1, 3),
                               Letter(1, 2, 2, "INPUT_YAO_FROM_ALL_MSG2", 1, 3),
                               Letter(0, 2, 1, "INPUT_YAO_FROM_ALL_MSG1", 0, 1),
                               Letter(1, 2, 3, "INPUT_YAO_FROM_ALL_MSG3", 0, 2)}
           /\ TagsOf(call) = 3
  BY DEF Letters, TagsOf, Up, Down, ToBinary

LEMMA InputFromAllGarblerMoves ==
    ASSUME NEW i \in Parties, InputFromAllGarbler(i)
    PROVE  Moves(i)
<1>0. i \in {0, 1, 2} /\ Garbler(0) /\ Garbler(1) /\ ~ Garbler(2)
  BY DEF Parties, Garbler
<1>1. Call(i).op = "input_from_all" /\ Running(i) /\ Complete(i)
  BY <1>0, Zenon DEF InputFromAllGarbler, On
<1>2. CASE i = 0 /\ step[i] = 0
  <2>1. ~ On(i, "input_from_all", 1)
    BY <1>2 DEF On
  <2>2. PICK m, keep :
          Await(i, Sent(i, 2, AllTag(i, 1), m), Ask(i, {2}, AllTag(i, 1)), keep)
    BY <1>0, <1>1, <1>2, <2>1, ZenonT(40) DEF InputFromAllGarbler
  <2>3. Outgoing(Call(i), i, step[i]) = {Letter(0, 2, 1, "INPUT_YAO_FROM_ALL_MSG1", 0, 1)}
    BY <1>0, <1>1, <1>2, AllTable DEF Outgoing, Letter
  <2>4. Incoming(Call(i), i, step[i] + 1) = {Letter(2, 0, 1, "INPUT_YAO_FROM_ALL_MSG1", 0, 1)}
    BY <1>0, <1>1, <1>2, AllTable DEF Incoming, Letter
  <2>5. Wanted(i, step[i] + 1) = Ask(i, {2}, AllTag(i, 1))
    BY <1>0, <1>1, <1>2, <2>4, HereIs, AllTags DEF Wanted, Ask
  <2>6. Posts(i, Sent(i, 2, AllTag(i, 1), m))
    BY <1>0, <1>1, <1>2, <2>3, PostsOne, GoesIf, AllTags
  <2> QED BY <1>1, <2>2, <2>4, <2>5, <2>6 DEF Moves, Awaits
<1>3. CASE i = 1 /\ step[i] = 0
  <2>1. ~ On(i, "input_from_all", 1)
    BY <1>3 DEF On
  <2>2. PICK m, keep :
          Await(i, Sent(i, 2, AllTag(i, 3), m), Ask(i, {2}, AllTag(i, 1)), keep)
    BY <1>0, <1>1, <1>3, <2>1, OneIsNotZero, ZenonT(40) DEF InputFromAllGarbler
  <2>3. Outgoing(Call(i), i, step[i]) = {Letter(1, 2, 3, "INPUT_YAO_FROM_ALL_MSG3", 0, 2)}
    BY <1>0, <1>1, <1>3, AllTable DEF Outgoing, Letter
  <2>4. Incoming(Call(i), i, step[i] + 1) = {Letter(2, 1, 1, "INPUT_YAO_FROM_ALL_MSG1", 0, 1)}
    BY <1>0, <1>1, <1>3, AllTable DEF Incoming, Letter
  <2>5. Wanted(i, step[i] + 1) = Ask(i, {2}, AllTag(i, 1))
    BY <1>0, <1>1, <1>3, <2>4, HereIs, AllTags DEF Wanted, Ask
  <2>6. Posts(i, Sent(i, 2, AllTag(i, 3), m))
    BY <1>0, <1>1, <1>3, <2>3, PostsOne, GoesIf, AllTags
  <2> QED BY <1>1, <2>2, <2>4, <2>5, <2>6 DEF Moves, Awaits
<1>4. CASE i \in {0, 1} /\ step[i] = 1
  <2>1. ~ On(i, "input_from_all", 0)
    BY <1>4 DEF On
  <2>2. PICK m, value :
          Return(i, Sent(i, 2, AllTag(i, 2), m), 3, value)
    BY <1>0, <1>1, <1>4, <2>1, Zenon DEF InputFromAllGarbler
  <2>3. Outgoing(Call(i), i, step[i]) = {Letter(i, 2, 2, "INPUT_YAO_FROM_ALL_MSG2", 1, 3)}
    BY <1>0, <1>1, <1>4, AllTable DEF Outgoing, Letter
  <2>4. Ended(i) /\ TagsOf(Call(i)) = 3
    BY <1>0, <1>1, <1>4, AllTable DEF Ended, Letter
  <2>6. Posts(i, Sent(i, 2, AllTag(i, 2), m))
    BY <1>0, <1>1, <1>4, <2>3, PostsOne, GoesIf, AllTags
  <2> QED BY <1>1, <2>2, <2>4, <2>6 DEF Moves, Returns
<1> QED BY <1>0, <1>1, <1>2, <1>3, <1>4, Zenon DEF InputFromAllGarbler, On

LEMMA InputFromAllEvaluatorMoves ==
    ASSUME NEW i \in Parties, InputFromAllEvaluator(i)
    PROVE  Moves(i)
<1>0. i \in {0, 1, 2} /\ Garbler(0) /\ Garbler(1) /\ ~ Garbler(2)
  BY DEF Parties, Garbler
<1>1. Call(i).op = "input_from_all" /\ Running(i) /\ Complete(i) /\ i = 2
  BY <1>0, Zenon DEF InputFromAllEvaluator, On
<1>2. CASE step[i] = 0
  <2>1. ~ On(i, "input_from_all", 1) /\ ~ On(i, "input_from_all", 2) /\ ~ On(i, "input_from_all", 3)
    BY <1>2 DEF On
  <2>2. PICK x, y, keep :
          Await(i, Both(Sent(2, 0, AllTag(i, 1), x), Sent(2, 1, AllTag(i, 1), y)), Ask(i, {0}, AllTag(i, 1)), keep)
    BY <1>0, <1>1, <1>2, <2>1, Zenon DEF InputFromAllEvaluator
  <2>3. Outgoing(Call(i), i, step[i]) = {Letter(2, 0, 1, "INPUT_YAO_FROM_ALL_MSG1", 0, 1),
                                           Letter(2, 1, 1, "INPUT_YAO_FROM_ALL_MSG1", 0, 1)}
    BY <1>0, <1>1, <1>2, AllTable DEF Outgoing, Letter
  <2>4. Incoming(Call(i), i, step[i] + 1) = {Letter(0, 2, 1, "INPUT_YAO_FROM_ALL_MSG1", 0, 1)}
    BY <1>0, <1>1, <1>2, AllTable DEF Incoming, Letter
  <2>5. Wanted(i, step[i] + 1) = Ask(i, {0}, AllTag(i, 1))
    BY <1>0, <1>1, <1>2, <2>4, HereIs, AllTags DEF Wanted, Ask
  <2>6. Posts(i, Both(Sent(2, 0, AllTag(i, 1), x), Sent(2, 1, AllTag(i, 1), y)))
    BY <1>0, <1>1, <1>2, <2>3, PostsTwo, GoesIf, AllTags
  <2> QED BY <1>1, <2>2, <2>4, <2>5, <2>6 DEF Moves, Awaits
<1>3. CASE step[i] = 1
  <2>1. ~ On(i, "input_from_all", 0) /\ ~ On(i, "input_from_all", 2) /\ ~ On(i, "input_from_all", 3)
    BY <1>3 DEF On
  <2>2. PICK keep :
          Await(i, <<>>, Ask(i, {1}, AllTag(i, 3)), keep)
    BY <1>0, <1>1, <1>3, <2>1, Zenon DEF InputFromAllEvaluator
  <2>3. Outgoing(Call(i), i, step[i]) = {}
    BY <1>0, <1>1, <1>3, AllTable DEF Outgoing, Letter
  <2>4. Incoming(Call(i), i, step[i] + 1) = {Letter(1, 2, 3, "INPUT_YAO_FROM_ALL_MSG3", 0, 2)}
    BY <1>0, <1>1, <1>3, AllTable DEF Incoming, Letter
  <2>5. Wanted(i, step[i] + 1) = Ask(i, {1}, AllTag(i, 3))
    BY <1>0, <1>1, <1>3, <2>4, HereIs, AllTags DEF Wanted, Ask
  <2>6. Posts(i, <<>>)
    BY <1>0, <1>1, <1>3, <2>3, PostsNone
  <2> QED BY <1>1, <2>2, <2>4, <2>5, <2>6 DEF Moves, Awaits
<1>4. CASE step[i] = 2
  <2>1. ~ On(i, "input_from_all", 0) /\ ~ On(i, "input_from_all", 1) /\ ~ On(i, "input_from_all", 3)
    BY <1>4 DEF On
  <2>2. \/ \E error \in Errors : Throw(i, error)
          \/ \E keep : Await(i, <<>>, Ask(i, {0, 1}, AllTag(i, 2)), keep)
    BY <1>0, <1>1, <1>4, <2>1, InputErrors, Zenon DEF InputFromAllEvaluator, Errors
  <2>3. Outgoing(Call(i), i, step[i]) = {}
    BY <1>0, <1>1, <1>4, AllTable DEF Outgoing, Letter
  <2>4. Incoming(Call(i), i, step[i] + 1) = {Letter(0, 2, 2, "INPUT_YAO_FROM_ALL_MSG2", 1, 3),
                                               Letter(1, 2, 2, "INPUT_YAO_FROM_ALL_MSG2", 1, 3)}
    BY <1>0, <1>1, <1>4, AllTable DEF Incoming, Letter
  <2>5. Wanted(i, step[i] + 1) = Ask(i, {0, 1}, AllTag(i, 2))
    BY <1>0, <1>1, <1>4, <2>4, HereIs, AllTags DEF Wanted, Ask
  <2>6. Posts(i, <<>>)
    BY <1>0, <1>1, <1>4, <2>3, PostsNone
  <2> QED BY <1>1, <2>2, <2>4, <2>5, <2>6 DEF Moves, Awaits, Throws
<1>5. CASE step[i] = 3
  <2>1. ~ On(i, "input_from_all", 0) /\ ~ On(i, "input_from_all", 1) /\ ~ On(i, "input_from_all", 2)
    BY <1>5 DEF On
  <2>2. PICK error, value :
          Finish(i, error, <<>>, 3, value) /\ error \in Errors \cup {""}
    BY <1>0, <1>1, <1>5, <2>1, InputErrors, Zenon DEF InputFromAllEvaluator, Errors
  <2>3. Outgoing(Call(i), i, step[i]) = {}
    BY <1>0, <1>1, <1>5, AllTable DEF Outgoing, Letter
  <2>4. Ended(i) /\ TagsOf(Call(i)) = 3
    BY <1>0, <1>1, <1>5, AllTable DEF Ended, Letter
  <2>6. Posts(i, <<>>)
    BY <1>0, <1>1, <1>5, <2>3, PostsNone
  <2> QED BY <1>1, <2>2, <2>4, <2>6, NotStopped, Zenon DEF Moves, Returns, Throws, Finish
<1> QED BY <1>0, <1>1, <1>2, <1>3, <1>4, <1>5, Zenon DEF InputFromAllEvaluator, On

LEMMA EvalTags ==
    ASSUME NEW i
    PROVE  /\ EvalTag(i, 1) = Tag(i, 1, "YAO_CIRC_EVAL_FUNC_MSG1")
           /\ EvalTag(i, 2) = Tag(i, 2, "YAO_CIRC_EVAL_FUNC_MSG2")
  BY DEF EvalTag

LEMMA EvalTable ==
    ASSUME NEW call, call.op \in {"circuit_eval", "map_circuit_eval"}
    PROVE  /\ Letters(call) = {Letter(0, 2, 2, "YAO_CIRC_EVAL_FUNC_MSG2", 0, 1),
                               Letter(1, 2, 1, "YAO_CIRC_EVAL_FUNC_MSG1", 0, 2)}
           /\ TagsOf(call) = 2
  BY DEF Letters, TagsOf, Up, Down, ToBinary

LEMMA EvalGarblerMoves ==
    ASSUME NEW i \in Parties, NEW op \in {"circuit_eval", "map_circuit_eval"}, EvalGarbler(i, op)
    PROVE  Moves(i)
<1>0. i \in {0, 1, 2} /\ Garbler(0) /\ Garbler(1) /\ ~ Garbler(2)
  BY DEF Parties, Garbler
<1>1. Call(i).op = op /\ Running(i) /\ Complete(i)
  BY <1>0, Zenon DEF EvalGarbler, On
<1>2. CASE i = 0 /\ step[i] = 0 /\ ~ Mismatch(Call(i))
  <2>2. PICK m, value :
          Return(i, Sent(i, 2, EvalTag(i, 2), m), 2, value)
    BY <1>0, <1>1, <1>2, Zenon DEF EvalGarbler
  <2>3. Outgoing(Call(i), i, step[i]) = {Letter(0, 2, 2, "YAO_CIRC_EVAL_FUNC_MSG2", 0, 1)}
    BY <1>0, <1>1, <1>2, EvalTable DEF Outgoing, Letter
  <2>4. Ended(i) /\ TagsOf(Call(i)) = 2
    BY <1>0, <1>1, <1>2, EvalTable DEF Ended, Letter
  <2>6. Posts(i, Sent(i, 2, EvalTag(i, 2), m))
    BY <1>0, <1>1, <1>2, <2>3, PostsOne, GoesIf, EvalTags
  <2> QED BY <1>1, <2>2, <2>4, <2>6 DEF Moves, Returns
<1>3. CASE i = 1 /\ step[i] = 0 /\ ~ Mismatch(Call(i))
  <2>2. PICK m, value :
          Return(i, Sent(i, 2, EvalTag(i, 1), m), 2, value)
    BY <1>0, <1>1, <1>3, OneIsNotZero, Zenon DEF EvalGarbler
  <2>3. Outgoing(Call(i), i, step[i]) = {Letter(1, 2, 1, "YAO_CIRC_EVAL_FUNC_MSG1", 0, 2)}
    BY <1>0, <1>1, <1>3, EvalTable DEF Outgoing, Letter
  <2>4. Ended(i) /\ TagsOf(Call(i)) = 2
    BY <1>0, <1>1, <1>3, EvalTable DEF Ended, Letter
  <2>6. Posts(i, Sent(i, 2, EvalTag(i, 1), m))
    BY <1>0, <1>1, <1>3, <2>3, PostsOne, GoesIf, EvalTags
  <2> QED BY <1>1, <2>2, <2>4, <2>6 DEF Moves, Returns
<1>4. CASE Mismatch(Call(i)) /\ step[i] = 0
  <2>2. PICK error :
          error \in Errors /\ Throw(i, error)
    BY <1>0, <1>1, <1>4, Zenon DEF EvalGarbler, Errors
  <2> QED BY <1>1, <2>2 DEF Moves, Throws
<1> QED BY <1>0, <1>1, <1>2, <1>3, <1>4, Zenon DEF EvalGarbler, On

LEMMA EvalEvaluatorMoves ==
    ASSUME NEW i \in Parties, NEW op \in {"circuit_eval", "map_circuit_eval"}, EvalEvaluator(i, op)
    PROVE  Moves(i)
<1>0. i \in {0, 1, 2} /\ Garbler(0) /\ Garbler(1) /\ ~ Garbler(2)
  BY DEF Parties, Garbler
<1>1. Call(i).op = op /\ Running(i) /\ Complete(i) /\ i = 2
  BY <1>0, Zenon DEF EvalEvaluator, On
<1>2. CASE step[i] = 0 /\ ~ Mismatch(Call(i))
  <2>1. ~ On(i, op, 1) /\ ~ On(i, op, 2)
    BY <1>2 DEF On
  <2>2. PICK keep :
          Await(i, <<>>, Ask(i, {0}, EvalTag(i, 2)), keep)
    BY <1>0, <1>1, <1>2, <2>1, Zenon DEF EvalEvaluator
  <2>3. Outgoing(Call(i), i, step[i]) = {}
    BY <1>0, <1>1, <1>2, EvalTable DEF Outgoing, Letter
  <2>4. Incoming(Call(i), i, step[i] + 1) = {Letter(0, 2, 2, "YAO_CIRC_EVAL_FUNC_MSG2", 0, 1)}
    BY <1>0, <1>1, <1>2, EvalTable DEF Incoming, Letter
  <2>5. Wanted(i, step[i] + 1) = Ask(i, {0}, EvalTag(i, 2))
    BY <1>0, <1>1, <1>2, <2>4, HereIs, EvalTags DEF Wanted, Ask
  <2>6. Posts(i, <<>>)
    BY <1>0, <1>1, <1>2, <2>3, PostsNone
  <2> QED BY <1>1, <2>2, <2>4, <2>5, <2>6 DEF Moves, Awaits
<1>3. CASE step[i] = 0 /\ Mismatch(Call(i))
  <2>1. ~ On(i, op, 1) /\ ~ On(i, op, 2)
    BY <1>3 DEF On
  <2>2. PICK error :
          error \in Errors /\ Throw(i, error)
    BY <1>0, <1>1, <1>3, <2>1, Zenon DEF EvalEvaluator, Errors
  <2> QED BY <1>1, <2>2 DEF Moves, Throws
<1>4. CASE step[i] = 1
  <2>1. ~ On(i, op, 0) /\ ~ On(i, op, 2)
    BY <1>4 DEF On
  <2>2. PICK keep :
          Await(i, <<>>, Ask(i, {1}, EvalTag(i, 1)), keep)
    BY <1>0, <1>1, <1>4, <2>1, Zenon DEF EvalEvaluator
  <2>3. Outgoing(Call(i), i, step[i]) = {}
    BY <1>0, <1>1, <1>4, EvalTable DEF Outgoing, Letter
  <2>4. Incoming(Call(i), i, step[i] + 1) = {Letter(1, 2, 1, "YAO_CIRC_EVAL_FUNC_MSG1", 0, 2)}
    BY <1>0, <1>1, <1>4, EvalTable DEF Incoming, Letter
  <2>5. Wanted(i, step[i] + 1) = Ask(i, {1}, EvalTag(i, 1))
    BY <1>0, <1>1, <1>4, <2>4, HereIs, EvalTags DEF Wanted, Ask
  <2>6. Posts(i, <<>>)
    BY <1>0, <1>1, <1>4, <2>3, PostsNone
  <2> QED BY <1>1, <2>2, <2>4, <2>5, <2>6 DEF Moves, Awaits
<1>5. CASE step[i] = 2
  <2>1. ~ On(i, op, 0) /\ ~ On(i, op, 1)
    BY <1>5 DEF On
  <2>2. PICK error, value :
          Finish(i, error, <<>>, 2, value) /\ error \in Errors \cup {""}
    BY <1>0, <1>1, <1>5, <2>1, Zenon DEF EvalEvaluator, Errors
  <2>3. Outgoing(Call(i), i, step[i]) = {}
    BY <1>0, <1>1, <1>5, EvalTable DEF Outgoing, Letter
  <2>4. Ended(i) /\ TagsOf(Call(i)) = 2
    BY <1>0, <1>1, <1>5, EvalTable DEF Ended, Letter
  <2>6. Posts(i, <<>>)
    BY <1>0, <1>1, <1>5, <2>3, PostsNone
  <2> QED BY <1>1, <2>2, <2>4, <2>6, NotStopped, Zenon DEF Moves, Returns, Throws, Finish
<1> QED BY <1>0, <1>1, <1>2, <1>3, <1>4, <1>5, Zenon DEF EvalEvaluator, On

LEMMA OutputTags ==
    ASSUME NEW i
    PROVE  /\ OutputTag(i, 1) = Tag(i, 1, "OUTPUT_YAO_FUNC_MSG1")
           /\ OutputTag(i, 2) = Tag(i, 2, "OUTPUT_YAO_FUNC_MSG2")
  BY DEF OutputTag

LEMMA ValidateTable ==
    ASSUME NEW call, call.op = "validate"
    PROVE  /\ Letters(call) = {Letter(2, 0, 1, "OUTPUT_YAO_FUNC_MSG1", 0, 1),
                               Letter(2, 1, 1, "OUTPUT_YAO_FUNC_MSG1", 0, 1)}
           /\ TagsOf(call) = 1
  BY DEF Letters, TagsOf, Up, Down, ToBinary

LEMMA OutputTable ==
    ASSUME NEW call, call.op \in {"output_yao", "batch_output_yao"}
    PROVE  /\ Letters(call) = {Letter(2, 0, 1, "OUTPUT_YAO_FUNC_MSG1", 0, 1),
                               Letter(2, 1, 1, "OUTPUT_YAO_FUNC_MSG1", 0, 1),
                               Letter(0, 2, 2, "OUTPUT_YAO_FUNC_MSG2", 1, 1),
                               Letter(1, 2, 2, "OUTPUT_YAO_FUNC_MSG2", 1, 1)}
           /\ TagsOf(call) = 2
  BY DEF Letters, TagsOf, Up, Down, ToBinary

LEMMA OutputErrors ==
    ASSUME NEW i, NEW labels PROVE OutputError(i, labels) \in Errors \cup {""}
  BY Zenon DEF OutputError, Errors

LEMMA ValidateMoves ==
    ASSUME NEW i \in Parties, Validate(i)
    PROVE  Moves(i)
<1>0. i \in {0, 1, 2} /\ Garbler(0) /\ Garbler(1) /\ ~ Garbler(2)
  BY DEF Parties, Garbler
<1>1. Call(i).op = "validate" /\ Running(i) /\ Complete(i)
  BY <1>0, Zenon DEF Validate, On
<1>2. CASE i = 2 /\ step[i] = 0
  <2>1. ~ On(i, "validate", 1)
    BY <1>2 DEF On
  <2>2. PICK m, value :
          Return(i, Both(Sent(2, 0, OutputTag(i, 1), m), Sent(2, 1, OutputTag(i, 1), m)), 1, value)
    BY <1>0, <1>1, <1>2, <2>1, Zenon DEF Validate
  <2>3. Outgoing(Call(i), i, step[i]) = {Letter(2, 0, 1, "OUTPUT_YAO_FUNC_MSG1", 0, 1),
                                           Letter(2, 1, 1, "OUTPUT_YAO_FUNC_MSG1", 0, 1)}
    BY <1>0, <1>1, <1>2, ValidateTable DEF Outgoing, Letter
  <2>4. Ended(i) /\ TagsOf(Call(i)) = 1
    BY <1>0, <1>1, <1>2, ValidateTable DEF Ended, Letter
  <2>6. Posts(i, Both(Sent(2, 0, OutputTag(i, 1), m), Sent(2, 1, OutputTag(i, 1), m)))
    BY <1>0, <1>1, <1>2, <2>3, PostsTwo, GoesIf, OutputTags
  <2> QED BY <1>1, <2>2, <2>4, <2>6 DEF Moves, Returns
<1>3. CASE i \in {0, 1} /\ step[i] = 0
  <2>1. ~ On(i, "validate", 1)
    BY <1>3 DEF On
  <2>2. PICK keep :
          Await(i, <<>>, Ask(i, {2}, OutputTag(i, 1)), keep)
    BY <1>0, <1>1, <1>3, <2>1, Zenon DEF Validate
  <2>3. Outgoing(Call(i), i, step[i]) = {}
    BY <1>0, <1>1, <1>3, ValidateTable DEF Outgoing, Letter
  <2>4. Incoming(Call(i), i, step[i] + 1) = {Letter(2, i, 1, "OUTPUT_YAO_FUNC_MSG1", 0, 1)}
    BY <1>0, <1>1, <1>3, ValidateTable DEF Incoming, Letter
  <2>5. Wanted(i, step[i] + 1) = Ask(i, {2}, OutputTag(i, 1))
    BY <1>0, <1>1, <1>3, <2>4, HereIs, OutputTags DEF Wanted, Ask
  <2>6. Posts(i, <<>>)
    BY <1>0, <1>1, <1>3, <2>3, PostsNone
  <2> QED BY <1>1, <2>2, <2>4, <2>5, <2>6 DEF Moves, Awaits
<1>4. CASE i \in {0, 1} /\ step[i] = 1
  <2>1. ~ On(i, "validate", 0)
    BY <1>4 DEF On
  <2>2. PICK value :
          Return(i, <<>>, 1, value)
    BY <1>0, <1>1, <1>4, <2>1, Zenon DEF Validate
  <2>3. Outgoing(Call(i), i, step[i]) = {}
    BY <1>0, <1>1, <1>4, ValidateTable DEF Outgoing, Letter
  <2>4. Ended(i) /\ TagsOf(Call(i)) = 1
    BY <1>0, <1>1, <1>4, ValidateTable DEF Ended, Letter
  <2>6. Posts(i, <<>>)
    BY <1>0, <1>1, <1>4, <2>3, PostsNone
  <2> QED BY <1>1, <2>2, <2>4, <2>6 DEF Moves, Returns
<1> QED BY <1>0, <1>1, <1>2, <1>3, <1>4, Zenon DEF Validate, On

LEMMA OutputToAllMoves ==
    ASSUME NEW i \in Parties, NEW op \in {"output_yao", "batch_output_yao"}, OutputToAll(i, op)
    PROVE  Moves(i)
<1>0. i \in {0, 1, 2} /\ Garbler(0) /\ Garbler(1) /\ ~ Garbler(2)
  BY DEF Parties, Garbler
<1>1. Call(i).op = op /\ Running(i) /\ Complete(i)
  BY <1>0, Zenon DEF OutputToAll, On
<1>2. CASE i = 2 /\ step[i] = 0
  <2>1. ~ On(i, op, 1)
    BY <1>2 DEF On
  <2>2. PICK m, keep :
          Await(i, Both(Sent(2, 0, OutputTag(i, 1), m), Sent(2, 1, OutputTag(i, 1), m)), Ask(i, {0, 1}, OutputTag(i, 2)), keep)
    BY <1>0, <1>1, <1>2, <2>1, Zenon DEF OutputToAll
  <2>3. Outgoing(Call(i), i, step[i]) = {Letter(2, 0, 1, "OUTPUT_YAO_FUNC_MSG1", 0, 1),
                                           Letter(2, 1, 1, "OUTPUT_YAO_FUNC_MSG1", 0, 1)}
    BY <1>0, <1>1, <1>2, OutputTable DEF Outgoing, Letter
  <2>4. Incoming(Call(i), i, step[i] + 1) = {Letter(0, 2, 2, "OUTPUT_YAO_FUNC_MSG2", 1, 1),
                                               Letter(1, 2, 2, "OUTPUT_YAO_FUNC_MSG2", 1, 1)}
    BY <1>0, <1>1, <1>2, OutputTable DEF Incoming, Letter
  <2>5. Wanted(i, step[i] + 1) = Ask(i, {0, 1}, OutputTag(i, 2))
    BY <1>0, <1>1, <1>2, <2>4, HereIs, OutputTags DEF Wanted, Ask
  <2>6. Posts(i, Both(Sent(2, 0, OutputTag(i, 1), m), Sent(2, 1, OutputTag(i, 1), m)))
    BY <1>0, <1>1, <1>2, <2>3, PostsTwo, GoesIf, OutputTags
  <2> QED BY <1>1, <2>2, <2>4, <2>5, <2>6 DEF Moves, Awaits
<1>3. CASE i = 2 /\ step[i] = 1
  <2>1. ~ On(i, op, 0)
    BY <1>3 DEF On
  <2>2. PICK error, value :
          Finish(i, error, <<>>, 2, value) /\ error \in Errors \cup {""}
    BY <1>0, <1>1, <1>3, <2>1, Zenon DEF OutputToAll, Errors
  <2>3. Outgoing(Call(i), i, step[i]) = {}
    BY <1>0, <1>1, <1>3, OutputTable DEF Outgoing, Letter
  <2>4. Ended(i) /\ TagsOf(Call(i)) = 2
    BY <1>0, <1>1, <1>3, OutputTable DEF Ended, Letter
  <2>6. Posts(i, <<>>)
    BY <1>0, <1>1, <1>3, <2>3, PostsNone
  <2> QED BY <1>1, <2>2, <2>4, <2>6, NotStopped, Zenon DEF Moves, Returns, Throws, Finish
<1>4. CASE i \in {0, 1} /\ step[i] = 0
  <2>1. ~ On(i, op, 1)
    BY <1>4 DEF On
  <2>2. PICK keep :
          Await(i, <<>>, Ask(i, {2}, OutputTag(i, 1)), keep)
    BY <1>0, <1>1, <1>4, <2>1, Zenon DEF OutputToAll
  <2>3. Outgoing(Call(i), i, step[i]) = {}
    BY <1>0, <1>1, <1>4, OutputTable DEF Outgoing, Letter
  <2>4. Incoming(Call(i), i, step[i] + 1) = {Letter(2, i, 1, "OUTPUT_YAO_FUNC_MSG1", 0, 1)}
    BY <1>0, <1>1, <1>4, OutputTable DEF Incoming, Letter
  <2>5. Wanted(i, step[i] + 1) = Ask(i, {2}, OutputTag(i, 1))
    BY <1>0, <1>1, <1>4, <2>4, HereIs, OutputTags DEF Wanted, Ask
  <2>6. Posts(i, <<>>)
    BY <1>0, <1>1, <1>4, <2>3, PostsNone
  <2> QED BY <1>1, <2>2, <2>4, <2>5, <2>6 DEF Moves, Awaits
<1>5. CASE i \in {0, 1} /\ step[i] = 1
  <2>1. ~ On(i, op, 0)
    BY <1>5 DEF On
  <2>2. PICK m, error, value :
          Finish(i, error, Sent(i, 2, OutputTag(i, 2), m), 2, value) /\ error \in Errors \cup {""}
    BY <1>0, <1>1, <1>5, <2>1, OutputErrors, Zenon DEF OutputToAll, Errors
  <2>3. Outgoing(Call(i), i, step[i]) = {Letter(i, 2, 2, "OUTPUT_YAO_FUNC_MSG2", 1, 1)}
    BY <1>0, <1>1, <1>5, OutputTable DEF Outgoing, Letter
  <2>4. Ended(i) /\ TagsOf(Call(i)) = 2
    BY <1>0, <1>1, <1>5, OutputTable DEF Ended, Letter
  <2>6. Posts(i, Sent(i, 2, OutputTag(i, 2), m))
    BY <1>0, <1>1, <1>5, <2>3, PostsOne, GoesIf, OutputTags
  <2> QED BY <1>1, <2>2, <2>4, <2>6, NotStopped, Zenon DEF Moves, Returns, Throws, Finish
<1> QED BY <1>0, <1>1, <1>2, <1>3, <1>4, <1>5, Zenon DEF OutputToAll, On

LEMMA OutputToEvaluatorTable ==
    ASSUME NEW call, call.op \in {"output_yao_to", "batch_output_yao_to"}, call.pid = 2
    PROVE  /\ Letters(call) = {Letter(0, 2, 1, "OUTPUT_YAO_TO_FUNC_MSG1", 0, 1),
                               Letter(1, 2, 1, "OUTPUT_YAO_TO_FUNC_MSG1", 0, 1)}
           /\ TagsOf(call) = 1
  BY DEF Letters, TagsOf, Up, Down, ToBinary

LEMMA OutputToGarblerTable ==
    ASSUME NEW call, call.op \in {"output_yao_to", "batch_output_yao_to"}, call.pid # 2
    PROVE  /\ Letters(call) = {Letter(2, call.pid, 1, "OUTPUT_YAO_TO_FUNC_MSG1", 0, 1)}
           /\ TagsOf(call) = 1
  BY DEF Letters, TagsOf, Up, Down, ToBinary

LEMMA OutputToEvaluatorMoves ==
    ASSUME NEW i \in Parties, NEW op \in {"output_yao_to", "batch_output_yao_to"}, Call(i).pid = 2, OutputToOne(i, op)
    PROVE  Moves(i)
<1>0. i \in {0, 1, 2} /\ Garbler(0) /\ Garbler(1) /\ ~ Garbler(2)
  BY DEF Parties, Garbler
<1>1. Call(i).op = op /\ Running(i) /\ Complete(i)
  BY <1>0, Zenon DEF OutputToOne, On
<1>2. CASE i \in {0, 1} /\ step[i] = 0
  <2>1. ~ On(i, op, 1) /\ 2 # 1 - i /\ 2 # i
    BY <1>0, <1>2 DEF On
  <2>2. PICK m, value :
          Return(i, Sent(i, 2, Tag(i, 1, "OUTPUT_YAO_TO_FUNC_MSG1"), m), 1, value)
    BY <1>0, <1>1, <1>2, <2>1, Zenon DEF OutputToOne
  <2>3. Outgoing(Call(i), i, step[i]) = {Letter(i, 2, 1, "OUTPUT_YAO_TO_FUNC_MSG1", 0, 1)}
    BY <1>0, <1>1, <1>2, OutputToEvaluatorTable DEF Outgoing, Letter
  <2>4. Ended(i) /\ TagsOf(Call(i)) = 1
    BY <1>0, <1>1, <1>2, OutputToEvaluatorTable DEF Ended, Letter
  <2>6. Posts(i, Sent(i, 2, Tag(i, 1, "OUTPUT_YAO_TO_FUNC_MSG1"), m))
    BY <1>0, <1>1, <1>2, <2>3, PostsOne, GoesIf
  <2> QED BY <1>1, <2>2, <2>4, <2>6 DEF Moves, Returns
<1>3. CASE i = 2 /\ step[i] = 0
  <2>1. ~ On(i, op, 1)
    BY <1>3 DEF On
  <2>2. PICK keep :
          Await(i, <<>>, Ask(i, {0, 1}, Tag(i, 1, "OUTPUT_YAO_TO_FUNC_MSG1")), keep)
    BY <1>0, <1>1, <1>3, <2>1, Zenon DEF OutputToOne
  <2>3. Outgoing(Call(i), i, step[i]) = {}
    BY <1>0, <1>1, <1>3, OutputToEvaluatorTable DEF Outgoing, Letter
  <2>4. Incoming(Call(i), i, step[i] + 1) = {Letter(0, 2, 1, "OUTPUT_YAO_TO_FUNC_MSG1", 0, 1),
                                               Letter(1, 2, 1, "OUTPUT_YAO_TO_FUNC_MSG1", 0, 1)}
    BY <1>0, <1>1, <1>3, OutputToEvaluatorTable DEF Incoming, Letter
  <2>5. Wanted(i, step[i] + 1) = Ask(i, {0, 1}, Tag(i, 1, "OUTPUT_YAO_TO_FUNC_MSG1"))
    BY <1>0, <1>1, <1>3, <2>4, HereIs DEF Wanted, Ask
  <2>6. Posts(i, <<>>)
    BY <1>0, <1>1, <1>3, <2>3, PostsNone
  <2> QED BY <1>1, <2>2, <2>4, <2>5, <2>6 DEF Moves, Awaits
<1>4. CASE i = 2 /\ step[i] = 1
  <2>1. ~ On(i, op, 0)
    BY <1>4 DEF On
  <2>2. PICK error, value :
          Finish(i, error, <<>>, 1, value) /\ error \in Errors \cup {""}
    BY <1>0, <1>1, <1>4, <2>1, Zenon DEF OutputToOne, Errors
  <2>3. Outgoing(Call(i), i, step[i]) = {}
    BY <1>0, <1>1, <1>4, OutputToEvaluatorTable DEF Outgoing, Letter
  <2>4. Ended(i) /\ TagsOf(Call(i)) = 1
    BY <1>0, <1>1, <1>4, OutputToEvaluatorTable DEF Ended, Letter
  <2>6. Posts(i, <<>>)
    BY <1>0, <1>1, <1>4, <2>3, PostsNone
  <2> QED BY <1>1, <2>2, <2>4, <2>6, NotStopped, Zenon DEF Moves, Returns, Throws, Finish
<1> QED BY <1>0, <1>1, <1>2, <1>3, <1>4, Zenon DEF OutputToOne, On

LEMMA OutputToGarblerMoves ==
    ASSUME NEW i \in Parties, NEW op \in {"output_yao_to", "batch_output_yao_to"}, Call(i).pid # 2, OutputToOne(i, op)
    PROVE  Moves(i)
<1>0. i \in {0, 1, 2} /\ Garbler(0) /\ Garbler(1) /\ ~ Garbler(2)
  BY DEF Parties, Garbler
<1>1. Call(i).op = op /\ Running(i) /\ Complete(i)
  BY <1>0, Zenon DEF OutputToOne, On
<1>2. CASE i = 2 /\ step[i] = 0
  <2>1. ~ On(i, op, 1)
    BY <1>2 DEF On
  <2>2. PICK m, value :
          Return(i, Sent(2, Call(i).pid, Tag(i, 1, "OUTPUT_YAO_TO_FUNC_MSG1"), m), 1, value)
    BY <1>0, <1>1, <1>2, <2>1, Zenon DEF OutputToOne
  <2>3. Outgoing(Call(i), i, step[i]) = {Letter(2, Call(i).pid, 1, "OUTPUT_YAO_TO_FUNC_MSG1", 0, 1)}
    BY <1>0, <1>1, <1>2, OutputToGarblerTable DEF Outgoing, Letter
  <2>4. Ended(i) /\ TagsOf(Call(i)) = 1
    BY <1>0, <1>1, <1>2, OutputToGarblerTable DEF Ended, Letter
  <2>6. Posts(i, Sent(2, Call(i).pid, Tag(i, 1, "OUTPUT_YAO_TO_FUNC_MSG1"), m))
    BY <1>0, <1>1, <1>2, <2>3, PostsOne, GoesIf
  <2> QED BY <1>1, <2>2, <2>4, <2>6 DEF Moves, Returns
<1>3. CASE i \in {0, 1} /\ step[i] = 0 /\ Call(i).pid = 1 - i
  <2>1. ~ On(i, op, 1) /\ i # 1 - i
    BY <1>0, <1>3 DEF On
  <2>2. PICK value :
          Return(i, <<>>, 1, value)
    BY <1>0, <1>1, <1>3, <2>1, Zenon DEF OutputToOne, BystanderTags
  <2>3. Outgoing(Call(i), i, step[i]) = {}
    BY <1>0, <1>1, <1>3, OutputToGarblerTable DEF Outgoing, Letter
  <2>4. Ended(i) /\ TagsOf(Call(i)) = 1
    BY <1>0, <1>1, <1>3, OutputToGarblerTable DEF Ended, Letter
  <2>6. Posts(i, <<>>)
    BY <1>0, <1>1, <1>3, <2>3, PostsNone
  <2> QED BY <1>1, <2>2, <2>4, <2>6 DEF Moves, Returns
<1>4. CASE i \in {0, 1} /\ step[i] = 0 /\ Call(i).pid = i
  <2>1. ~ On(i, op, 1) /\ i # 1 - i
    BY <1>0, <1>4 DEF On
  <2>2. PICK keep :
          Await(i, <<>>, Ask(i, {2}, Tag(i, 1, "OUTPUT_YAO_TO_FUNC_MSG1")), keep)
    BY <1>0, <1>1, <1>4, <2>1, Zenon DEF OutputToOne
  <2>3. Outgoing(Call(i), i, step[i]) = {}
    BY <1>0, <1>1, <1>4, OutputToGarblerTable DEF Outgoing, Letter
  <2>4. Incoming(Call(i), i, step[i] + 1) = {Letter(2, i, 1, "OUTPUT_YAO_TO_FUNC_MSG1", 0, 1)}
    BY <1>0, <1>1, <1>4, OutputToGarblerTable DEF Incoming, Letter
  <2>5. Wanted(i, step[i] + 1) = Ask(i, {2}, Tag(i, 1, "OUTPUT_YAO_TO_FUNC_MSG1"))
    BY <1>0, <1>1, <1>4, <2>4, HereIs DEF Wanted, Ask
  <2>6. Posts(i, <<>>)
    BY <1>0, <1>1, <1>4, <2>3, PostsNone
  <2> QED BY <1>1, <2>2, <2>4, <2>5, <2>6 DEF Moves, Awaits
<1>5. CASE i \in {0, 1} /\ step[i] = 1 /\ Call(i).pid = i
  <2>1. ~ On(i, op, 0)
    BY <1>5 DEF On
  <2>2. PICK error, value :
          Finish(i, error, <<>>, 1, value) /\ error \in Errors \cup {""}
    BY <1>0, <1>1, <1>5, <2>1, OutputErrors, Zenon DEF OutputToOne, Errors
  <2>3. Outgoing(Call(i), i, step[i]) = {}
    BY <1>0, <1>1, <1>5, OutputToGarblerTable DEF Outgoing, Letter
  <2>4. Ended(i) /\ TagsOf(Call(i)) = 1
    BY <1>0, <1>1, <1>5, OutputToGarblerTable DEF Ended, Letter
  <2>6. Posts(i, <<>>)
    BY <1>0, <1>1, <1>5, <2>3, PostsNone
  <2> QED BY <1>1, <2>2, <2>4, <2>6, NotStopped, Zenon DEF Moves, Returns, Throws, Finish
<1> QED BY <1>0, <1>1, <1>2, <1>3, <1>4, <1>5, Zenon DEF OutputToOne, On

LEMMA BinaryToYaoTable ==
    ASSUME NEW call, call.op \in {"binary_to_yao", "batch_binary_to_yao"}
    PROVE  /\ Letters(call) = {Letter(0, 2, 1, "B2Y_FUNC_MSG1", 0, 1),
                               Letter(1, 2, 1, "B2Y_FUNC_MSG1", 0, 1)}
           /\ TagsOf(call) = 1
  BY DEF Letters, TagsOf, Up, Down, ToBinary

LEMMA BinaryToYaoMoves ==
    ASSUME NEW i \in Parties, NEW op \in {"binary_to_yao", "batch_binary_to_yao"}, BinaryToYaoSteps(i, op)
    PROVE  Moves(i)
<1>0. i \in {0, 1, 2} /\ Garbler(0) /\ Garbler(1) /\ ~ Garbler(2)
  BY DEF Parties, Garbler
<1>1. Call(i).op = op /\ Running(i) /\ Complete(i)
  BY <1>0, Zenon DEF BinaryToYaoSteps, On
<1>2. CASE i \in {0, 1} /\ step[i] = 0
  <2>1. ~ On(i, op, 1)
    BY <1>2 DEF On
  <2>2. PICK m, value :
          Return(i, Sent(i, 2, Tag(i, 1, "B2Y_FUNC_MSG1"), m), 1, value)
    BY <1>0, <1>1, <1>2, <2>1, Zenon DEF BinaryToYaoSteps
  <2>3. Outgoing(Call(i), i, step[i]) = {Letter(i, 2, 1, "B2Y_FUNC_MSG1", 0, 1)}
    BY <1>0, <1>1, <1>2, BinaryToYaoTable DEF Outgoing, Letter
  <2>4. Ended(i) /\ TagsOf(Call(i)) = 1
    BY <1>0, <1>1, <1>2, BinaryToYaoTable DEF Ended, Letter
  <2>6. Posts(i, Sent(i, 2, Tag(i, 1, "B2Y_FUNC_MSG1"), m))
    BY <1>0, <1>1, <1>2, <2>3, PostsOne, GoesIf
  <2> QED BY <1>1, <2>2, <2>4, <2>6 DEF Moves, Returns
<1>3. CASE i = 2 /\ step[i] = 0
  <2>1. ~ On(i, op, 1)
    BY <1>3 DEF On
  <2>2. PICK keep :
          Await(i, <<>>, Ask(i, {0, 1}, Tag(i, 1, "B2Y_FUNC_MSG1")), keep)
    BY <1>0, <1>1, <1>3, <2>1, Zenon DEF BinaryToYaoSteps
  <2>3. Outgoing(Call(i), i, step[i]) = {}
    BY <1>0, <1>1, <1>3, BinaryToYaoTable DEF Outgoing, Letter
  <2>4. Incoming(Call(i), i, step[i] + 1) = {Letter(0, 2, 1, "B2Y_FUNC_MSG1", 0, 1),
                                               Letter(1, 2, 1, "B2Y_FUNC_MSG1", 0, 1)}
    BY <1>0, <1>1, <1>3, BinaryToYaoTable DEF Incoming, Letter
  <2>5. Wanted(i, step[i] + 1) = Ask(i, {0, 1}, Tag(i, 1, "B2Y_FUNC_MSG1"))
    BY <1>0, <1>1, <1>3, <2>4, HereIs DEF Wanted, Ask
  <2>6. Posts(i, <<>>)
    BY <1>0, <1>1, <1>3, <2>3, PostsNone
  <2> QED BY <1>1, <2>2, <2>4, <2>5, <2>6 DEF Moves, Awaits
<1>4. CASE i = 2 /\ step[i] = 1
  <2>1. ~ On(i, op, 0)
    BY <1>4 DEF On
  <2>2. PICK error, value :
          Finish(i, error, <<>>, 1, value) /\ error \in Errors \cup {""}
    BY <1>0, <1>1, <1>4, <2>1, ConversionErrors, Zenon DEF BinaryToYaoSteps, Errors
  <2>3. Outgoing(Call(i), i, step[i]) = {}
    BY <1>0, <1>1, <1>4, BinaryToYaoTable DEF Outgoing, Letter
  <2>4. Ended(i) /\ TagsOf(Call(i)) = 1
    BY <1>0, <1>1, <1>4, BinaryToYaoTable DEF Ended, Letter
  <2>6. Posts(i, <<>>)
    BY <1>0, <1>1, <1>4, <2>3, PostsNone
  <2> QED BY <1>1, <2>2, <2>4, <2>6, NotStopped, Zenon DEF Moves, Returns, Throws, Finish
<1> QED BY <1>0, <1>1, <1>2, <1>3, <1>4, Zenon DEF BinaryToYaoSteps, On

LEMMA Y2BTags ==
    ASSUME NEW i
    PROVE  /\ Y2BTag(i, 1) = Tag(i, 1, "Y2B_FUNC_MSG1")
           /\ Y2BTag(i, 2) = Tag(i, 2, "Y2B_FUNC_MSG2")
           /\ Y2BTag(i, 3) = Tag(i, 3, "Y2B_FUNC_MSG3")
           /\ Y2BTag(i, 4) = Tag(i, 4, "Y2B_FUNC_MSG4")
  BY DEF Y2BTag

LEMMA ToBinaryTable ==
    ASSUME NEW call, call.op = "yao_to_binary"
    PROVE  /\ Letters(call) = {Letter(0, 2, 1, "Y2B_FUNC_MSG1", 0, 1),
                               Letter(0, 1, 1, "Y2B_FUNC_MSG1", 0, 1),
                               Letter(0, 2, 2, "Y2B_FUNC_MSG2", 0, 2),
                               Letter(2, 1, 3, "Y2B_FUNC_MSG3", 1, 2),
                               Letter(1, 2, 2, "Y2B_FUNC_MSG2", 1, 2)}
           /\ TagsOf(call) = 3
  BY DEF Letters, TagsOf, Up, Down, ToBinary

LEMMA ToBinariesTable ==
    ASSUME NEW call, call.op = "batch_yao_to_binary"
    PROVE  /\ Letters(call) = {Letter(0, 2, 1, "Y2B_FUNC_MSG1", 0, 1),
                               Letter(0, 1, 1, "Y2B_FUNC_MSG1", 0, 1),
                               Letter(0, 2, 2, "Y2B_FUNC_MSG2", 0, 2),
                               Letter(2, 1, 3, "Y2B_FUNC_MSG3", 1, 2),
                               Letter(1, 2, 4, "Y2B_FUNC_MSG4", 1, 3)}
           /\ TagsOf(call) = 4
  BY DEF Letters, TagsOf, Up, Down, ToBinary

\* The conversion of one bit and that of several.
Converts(op, tags) == (op = "yao_to_binary" /\ tags = 3) \/ (op = "batch_yao_to_binary" /\ tags = 4)

LEMMA YaoToBinaryGarbler0Moves ==
    ASSUME NEW i \in Parties, NEW op, NEW tags, Converts(op, tags), YaoToBinaryGarbler0(i, op, tags)
    PROVE  Moves(i)
<1>0. i \in {0, 1, 2} /\ Garbler(0) /\ Garbler(1) /\ ~ Garbler(2)
  BY DEF Parties, Garbler
<1>1. Call(i).op = op /\ Running(i) /\ Complete(i) /\ i = 0 /\ ((op = "yao_to_binary" /\ tags = 3) \/ (op = "batch_yao_to_binary" /\ tags = 4))
  BY <1>0, Zenon DEF YaoToBinaryGarbler0, Converts, On
<1>2. CASE step[i] = 0
  <2>2. PICK x, y, z, value :
          Return(i, Both(Sent(0, 2, Y2BTag(i, 1), x), Both(Sent(0, 1, Y2BTag(i, 1), y), Sent(0, 2, Y2BTag(i, 2), z))), tags, value)
    BY <1>0, <1>1, <1>2, SMT DEF YaoToBinaryGarbler0, Converts
  <2>3. Outgoing(Call(i), i, step[i]) = {Letter(0, 2, 1, "Y2B_FUNC_MSG1", 0, 1),
                                           Letter(0, 1, 1, "Y2B_FUNC_MSG1", 0, 1),
                                           Letter(0, 2, 2, "Y2B_FUNC_MSG2", 0, 2)}
    BY <1>0, <1>1, <1>2, ToBinaryTable, ToBinariesTable DEF Outgoing, Letter
  <2>4. Ended(i) /\ TagsOf(Call(i)) = tags
    BY <1>0, <1>1, <1>2, ToBinaryTable, ToBinariesTable DEF Ended, Letter
  <2>6. Posts(i, Both(Sent(0, 2, Y2BTag(i, 1), x), Both(Sent(0, 1, Y2BTag(i, 1), y), Sent(0, 2, Y2BTag(i, 2), z))))
    BY <1>0, <1>1, <1>2, <2>3, PostsThree, GoesIf, Y2BTags
  <2> QED BY <1>1, <2>2, <2>4, <2>6 DEF Moves, Returns
<1> QED BY <1>0, <1>1, <1>2, Zenon DEF YaoToBinaryGarbler0, Converts, On

LEMMA YaoToBinaryGarbler1Moves ==
    ASSUME NEW i \in Parties, NEW op, NEW tags, Converts(op, tags), YaoToBinaryGarbler1(i, op, tags)
    PROVE  Moves(i)
<1>0. i \in {0, 1, 2} /\ Garbler(0) /\ Garbler(1) /\ ~ Garbler(2)
  BY DEF Parties, Garbler
<1>1. Call(i).op = op /\ Running(i) /\ Complete(i) /\ i = 1 /\ ((op = "yao_to_binary" /\ tags = 3) \/ (op = "batch_yao_to_binary" /\ tags = 4))
  BY <1>0, Zenon DEF YaoToBinaryGarbler1, Converts, On
<1>2. CASE step[i] = 0
  <2>1. ~ On(i, op, 1) /\ ~ On(i, op, 2)
    BY <1>2 DEF On
  <2>2. PICK keep :
          Await(i, <<>>, Ask(i, {0}, Y2BTag(i, 1)), keep)
    BY <1>0, <1>1, <1>2, <2>1, Zenon DEF YaoToBinaryGarbler1, Converts
  <2>3. Outgoing(Call(i), i, step[i]) = {}
    BY <1>0, <1>1, <1>2, ToBinaryTable, ToBinariesTable DEF Outgoing, Letter
  <2>4. Incoming(Call(i), i, step[i] + 1) = {Letter(0, 1, 1, "Y2B_FUNC_MSG1", 0, 1)}
    BY <1>0, <1>1, <1>2, ToBinaryTable, ToBinariesTable DEF Incoming, Letter
  <2>5. Wanted(i, step[i] + 1) = Ask(i, {0}, Y2BTag(i, 1))
    BY <1>0, <1>1, <1>2, <2>4, HereIs, Y2BTags DEF Wanted, Ask
  <2>6. Posts(i, <<>>)
    BY <1>0, <1>1, <1>2, <2>3, PostsNone
  <2> QED BY <1>1, <2>2, <2>4, <2>5, <2>6 DEF Moves, Awaits
<1>3. CASE step[i] = 1 /\ tags = 3
  <2>1. ~ On(i, op, 0) /\ ~ On(i, op, 2)
    BY <1>3 DEF On
  <2>2. PICK m, keep :
          Await(i, Sent(1, 2, Y2BTag(i, 2), m), Ask(i, {2}, Y2BTag(i, 3)), keep)
    BY <1>0, <1>1, <1>3, <2>1, Zenon DEF YaoToBinaryGarbler1, Converts
  <2>3. Outgoing(Call(i), i, step[i]) = {Letter(1, 2, 2, "Y2B_FUNC_MSG2", 1, 2)}
    BY <1>0, <1>1, <1>3, ToBinaryTable, ToBinariesTable DEF Outgoing, Letter
  <2>4. Incoming(Call(i), i, step[i] + 1) = {Letter(2, 1, 3, "Y2B_FUNC_MSG3", 1, 2)}
    BY <1>0, <1>1, <1>3, ToBinaryTable, ToBinariesTable DEF Incoming, Letter
  <2>5. Wanted(i, step[i] + 1) = Ask(i, {2}, Y2BTag(i, 3))
    BY <1>0, <1>1, <1>3, <2>4, HereIs, Y2BTags DEF Wanted, Ask
  <2>6. Posts(i, Sent(1, 2, Y2BTag(i, 2), m))
    BY <1>0, <1>1, <1>3, <2>3, PostsOne, GoesIf, Y2BTags
  <2> QED BY <1>1, <2>2, <2>4, <2>5, <2>6 DEF Moves, Awaits
<1>4. CASE step[i] = 1 /\ tags = 4
  <2>1. ~ On(i, op, 0) /\ ~ On(i, op, 2) /\ tags # 3
    BY <1>0, <1>4 DEF On
  <2>2. PICK m, keep :
          Await(i, Sent(1, 2, Y2BTag(i, 4), m), Ask(i, {2}, Y2BTag(i, 3)), keep)
    BY <1>0, <1>1, <1>4, <2>1, Zenon DEF YaoToBinaryGarbler1, Converts
  <2>3. Outgoing(Call(i), i, step[i]) = {Letter(1, 2, 4, "Y2B_FUNC_MSG4", 1, 3)}
    BY <1>0, <1>1, <1>4, ToBinaryTable, ToBinariesTable DEF Outgoing, Letter
  <2>4. Incoming(Call(i), i, step[i] + 1) = {Letter(2, 1, 3, "Y2B_FUNC_MSG3", 1, 2)}
    BY <1>0, <1>1, <1>4, ToBinaryTable, ToBinariesTable DEF Incoming, Letter
  <2>5. Wanted(i, step[i] + 1) = Ask(i, {2}, Y2BTag(i, 3))
    BY <1>0, <1>1, <1>4, <2>4, HereIs, Y2BTags DEF Wanted, Ask
  <2>6. Posts(i, Sent(1, 2, Y2BTag(i, 4), m))
    BY <1>0, <1>1, <1>4, <2>3, PostsOne, GoesIf, Y2BTags
  <2> QED BY <1>1, <2>2, <2>4, <2>5, <2>6 DEF Moves, Awaits
<1>5. CASE step[i] = 2
  <2>1. ~ On(i, op, 0) /\ ~ On(i, op, 1)
    BY <1>5 DEF On
  <2>2. PICK error, value :
          Finish(i, error, <<>>, tags, value) /\ error \in Errors \cup {""}
    BY <1>0, <1>1, <1>5, <2>1, Zenon DEF YaoToBinaryGarbler1, Converts, Errors
  <2>3. Outgoing(Call(i), i, step[i]) = {}
    BY <1>0, <1>1, <1>5, ToBinaryTable, ToBinariesTable DEF Outgoing, Letter
  <2>4. Ended(i) /\ TagsOf(Call(i)) = tags
    BY <1>0, <1>1, <1>5, ToBinaryTable, ToBinariesTable DEF Ended, Letter
  <2>6. Posts(i, <<>>)
    BY <1>0, <1>1, <1>5, <2>3, PostsNone
  <2> QED BY <1>1, <2>2, <2>4, <2>6, NotStopped, Zenon DEF Moves, Returns, Throws, Finish
<1> QED BY <1>0, <1>1, <1>2, <1>3, <1>4, <1>5, Zenon DEF YaoToBinaryGarbler1, Converts, On

LEMMA Y2BFinishes ==
    ASSUME NEW i, NEW tags, NEW m0, NEW m1, Y2BFinish(i, tags, m0, m1)
    PROVE  \E error \in Errors \cup {""} : \E value : Finish(i, error, <<>>, tags, value)
<1> DEFINE n == Len(Args(i))
           error(k) == Y2BError(yao[i].crs, [j \in {0, 1} |-> IF j = 0 THEN m0[k] ELSE m1[k]], loc[i].wxz[k],
                                lsb(OwnLabels(i)[k]), loc[i].y[k])
           bad == {k \in 1..n : error(k) # ""}
<1>1. \A k : error(k) \in Errors \cup {""}
  BY ConversionErrors, Zenon
<1>2. \E value : Finish(i, IF bad = {} THEN "" ELSE error(CHOOSE k \in bad : \A j \in bad : k <= j),
                       <<>>, tags, value)
  BY Zenon DEF Y2BFinish
<1> HIDE DEF error, bad, n
<1>3. CASE bad = {}
  BY <1>2, <1>3, Zenon
<1>4. CASE bad # {}
  BY <1>1, <1>2, <1>4, Zenon
<1> QED BY <1>3, <1>4, Zenon

LEMMA YaoToBinaryEvaluatorMoves ==
    ASSUME NEW i \in Parties, NEW op, NEW tags, Converts(op, tags), YaoToBinaryEvaluator(i, op, tags)
    PROVE  Moves(i)
<1>0. i \in {0, 1, 2} /\ Garbler(0) /\ Garbler(1) /\ ~ Garbler(2)
  BY DEF Parties, Garbler
<1>1. Call(i).op = op /\ Running(i) /\ Complete(i) /\ i = 2 /\ ((op = "yao_to_binary" /\ tags = 3) \/ (op = "batch_yao_to_binary" /\ tags = 4))
  BY <1>0, Zenon DEF YaoToBinaryEvaluator, Converts, On
<1>2. CASE step[i] = 0
  <2>1. ~ On(i, op, 1) /\ ~ On(i, op, 2) /\ ~ On(i, op, 3)
    BY <1>2 DEF On
  <2>2. PICK keep :
          Await(i, <<>>, Ask(i, {0}, Y2BTag(i, 1)), keep)
    BY <1>0, <1>1, <1>2, <2>1, Zenon DEF YaoToBinaryEvaluator, Converts
  <2>3. Outgoing(Call(i), i, step[i]) = {}
    BY <1>0, <1>1, <1>2, ToBinaryTable, ToBinariesTable DEF Outgoing, Letter
  <2>4. Incoming(Call(i), i, step[i] + 1) = {Letter(0, 2, 1, "Y2B_FUNC_MSG1", 0, 1)}
    BY <1>0, <1>1, <1>2, ToBinaryTable, ToBinariesTable DEF Incoming, Letter
  <2>5. Wanted(i, step[i] + 1) = Ask(i, {0}, Y2BTag(i, 1))
    BY <1>0, <1>1, <1>2, <2>4, HereIs, Y2BTags DEF Wanted, Ask
  <2>6. Posts(i, <<>>)
    BY <1>0, <1>1, <1>2, <2>3, PostsNone
  <2> QED BY <1>1, <2>2, <2>4, <2>5, <2>6 DEF Moves, Awaits
<1>3. CASE step[i] = 1 /\ tags = 3
  <2>1. ~ On(i, op, 0) /\ ~ On(i, op, 2) /\ ~ On(i, op, 3)
    BY <1>3 DEF On
  <2>2. PICK m, keep :
          Await(i, Sent(2, 1, Y2BTag(i, 3), m), Ask(i, {0, 1}, Y2BTag(i, 2)), keep)
    BY <1>0, <1>1, <1>3, <2>1, Zenon DEF YaoToBinaryEvaluator, Converts
  <2>3. Outgoing(Call(i), i, step[i]) = {Letter(2, 1, 3, "Y2B_FUNC_MSG3", 1, 2)}
    BY <1>0, <1>1, <1>3, ToBinaryTable, ToBinariesTable DEF Outgoing, Letter
  <2>4. Incoming(Call(i), i, step[i] + 1) = {Letter(0, 2, 2, "Y2B_FUNC_MSG2", 0, 2),
                                               Letter(1, 2, 2, "Y2B_FUNC_MSG2", 1, 2)}
    BY <1>0, <1>1, <1>3, ToBinaryTable, ToBinariesTable DEF Incoming, Letter
  <2>5. Wanted(i, step[i] + 1) = Ask(i, {0, 1}, Y2BTag(i, 2))
    BY <1>0, <1>1, <1>3, <2>4, HereIs, Y2BTags DEF Wanted, Ask
  <2>6. Posts(i, Sent(2, 1, Y2BTag(i, 3), m))
    BY <1>0, <1>1, <1>3, <2>3, PostsOne, GoesIf, Y2BTags
  <2> QED BY <1>1, <2>2, <2>4, <2>5, <2>6 DEF Moves, Awaits
<1>4. CASE step[i] = 1 /\ tags = 4
  <2>1. ~ On(i, op, 0) /\ ~ On(i, op, 2) /\ ~ On(i, op, 3) /\ tags # 3
    BY <1>0, <1>4 DEF On
  <2>2. PICK m, keep :
          Await(i, Sent(2, 1, Y2BTag(i, 3), m), Ask(i, {0}, Y2BTag(i, 2)), keep)
    BY <1>0, <1>1, <1>4, <2>1, Zenon DEF YaoToBinaryEvaluator, Converts
  <2>3. Outgoing(Call(i), i, step[i]) = {Letter(2, 1, 3, "Y2B_FUNC_MSG3", 1, 2)}
    BY <1>0, <1>1, <1>4, ToBinaryTable, ToBinariesTable DEF Outgoing, Letter
  <2>4. Incoming(Call(i), i, step[i] + 1) = {Letter(0, 2, 2, "Y2B_FUNC_MSG2", 0, 2)}
    BY <1>0, <1>1, <1>4, ToBinaryTable, ToBinariesTable DEF Incoming, Letter
  <2>5. Wanted(i, step[i] + 1) = Ask(i, {0}, Y2BTag(i, 2))
    BY <1>0, <1>1, <1>4, <2>4, HereIs, Y2BTags DEF Wanted, Ask
  <2>6. Posts(i, Sent(2, 1, Y2BTag(i, 3), m))
    BY <1>0, <1>1, <1>4, <2>3, PostsOne, GoesIf, Y2BTags
  <2> QED BY <1>1, <2>2, <2>4, <2>5, <2>6 DEF Moves, Awaits
<1>5. CASE step[i] = 2 /\ tags = 3
  <2>1. ~ On(i, op, 0) /\ ~ On(i, op, 1) /\ ~ On(i, op, 3) /\ tags # 4
    BY <1>0, <1>5 DEF On
  <2>2. PICK error, value :
          Finish(i, error, <<>>, tags, value) /\ error \in Errors \cup {""}
    BY <1>0, <1>1, <1>5, <2>1, Y2BFinishes, Zenon DEF YaoToBinaryEvaluator, Converts, Errors
  <2>3. Outgoing(Call(i), i, step[i]) = {}
    BY <1>0, <1>1, <1>5, ToBinaryTable, ToBinariesTable DEF Outgoing, Letter
  <2>4. Ended(i) /\ TagsOf(Call(i)) = tags
    BY <1>0, <1>1, <1>5, ToBinaryTable, ToBinariesTable DEF Ended, Letter
  <2>6. Posts(i, <<>>)
    BY <1>0, <1>1, <1>5, <2>3, PostsNone
  <2> QED BY <1>1, <2>2, <2>4, <2>6, NotStopped, Zenon DEF Moves, Returns, Throws, Finish
<1>6. CASE step[i] = 2 /\ tags = 4
  <2>1. ~ On(i, op, 0) /\ ~ On(i, op, 1) /\ ~ On(i, op, 3) /\ tags # 3
    BY <1>0, <1>6 DEF On
  <2>2. PICK keep :
          Await(i, <<>>, Ask(i, {1}, Y2BTag(i, 4)), keep)
    BY <1>0, <1>1, <1>6, <2>1, Zenon DEF YaoToBinaryEvaluator, Converts
  <2>3. Outgoing(Call(i), i, step[i]) = {}
    BY <1>0, <1>1, <1>6, ToBinaryTable, ToBinariesTable DEF Outgoing, Letter
  <2>4. Incoming(Call(i), i, step[i] + 1) = {Letter(1, 2, 4, "Y2B_FUNC_MSG4", 1, 3)}
    BY <1>0, <1>1, <1>6, ToBinaryTable, ToBinariesTable DEF Incoming, Letter
  <2>5. Wanted(i, step[i] + 1) = Ask(i, {1}, Y2BTag(i, 4))
    BY <1>0, <1>1, <1>6, <2>4, HereIs, Y2BTags DEF Wanted, Ask
  <2>6. Posts(i, <<>>)
    BY <1>0, <1>1, <1>6, <2>3, PostsNone
  <2> QED BY <1>1, <2>2, <2>4, <2>5, <2>6 DEF Moves, Awaits
<1>7. CASE step[i] = 3
  <2>1. ~ On(i, op, 0) /\ ~ On(i, op, 1) /\ ~ On(i, op, 2)
    BY <1>7 DEF On
  <2>2. PICK error, value :
          Finish(i, error, <<>>, tags, value) /\ error \in Errors \cup {""}
    BY <1>0, <1>1, <1>7, <2>1, Y2BFinishes, Zenon DEF YaoToBinaryEvaluator, Converts, Errors
  <2>3. Outgoing(Call(i), i, step[i]) = {}
    BY <1>0, <1>1, <1>7, ToBinaryTable, ToBinariesTable DEF Outgoing, Letter
  <2>4. Ended(i) /\ TagsOf(Call(i)) = tags
    BY <1>0, <1>1, <1>7, ToBinaryTable, ToBinariesTable DEF Ended, Letter
  <2>6. Posts(i, <<>>)
    BY <1>0, <1>1, <1>7, <2>3, PostsNone
  <2> QED BY <1>1, <2>2, <2>4, <2>6, NotStopped, Zenon DEF Moves, Returns, Throws, Finish
<1> QED BY <1>0, <1>1, <1>2, <1>3, <1>4, <1>5, <1>6, <1>7, Zenon DEF YaoToBinaryEvaluator, Converts, On

LEMMA PlainTable ==
    ASSUME NEW call, call.op \in {"bring", "xor"}
    PROVE  /\ Letters(call) = {}
           /\ TagsOf(call) = 0
  BY DEF Letters, TagsOf, Up, Down, ToBinary

LEMMA BringMoves ==
    ASSUME NEW i \in Parties, Bring(i)
    PROVE  Moves(i)
<1>0. i \in {0, 1, 2} /\ Garbler(0) /\ Garbler(1) /\ ~ Garbler(2)
  BY DEF Parties, Garbler
<1>1. Call(i).op = "bring" /\ Running(i) /\ Complete(i)
  BY <1>0, Zenon DEF Bring, On
<1>2. CASE step[i] = 0
  <2>2. PICK value :
          Return(i, <<>>, 0, value)
    BY <1>0, <1>1, <1>2, Zenon DEF Bring
  <2>3. Outgoing(Call(i), i, step[i]) = {}
    BY <1>0, <1>1, <1>2, PlainTable DEF Outgoing, Letter
  <2>4. Ended(i) /\ TagsOf(Call(i)) = 0
    BY <1>0, <1>1, <1>2, PlainTable DEF Ended, Letter
  <2>6. Posts(i, <<>>)
    BY <1>0, <1>1, <1>2, <2>3, PostsNone
  <2> QED BY <1>1, <2>2, <2>4, <2>6 DEF Moves, Returns
<1> QED BY <1>0, <1>1, <1>2, Zenon DEF Bring, On

LEMMA XorSharesMoves ==
    ASSUME NEW i \in Parties, XorShares(i)
    PROVE  Moves(i)
<1>0. i \in {0, 1, 2} /\ Garbler(0) /\ Garbler(1) /\ ~ Garbler(2)
  BY DEF Parties, Garbler
<1>1. Call(i).op = "xor" /\ Running(i) /\ Complete(i)
  BY <1>0, Zenon DEF XorShares, On
<1>2. CASE i \in {0, 1} /\ step[i] = 0
  <2>2. PICK error, value :
          Finish(i, error, <<>>, 0, value) /\ error \in Errors \cup {""}
    BY <1>0, <1>1, <1>2, Zenon DEF XorShares, Errors
  <2>3. Outgoing(Call(i), i, step[i]) = {}
    BY <1>0, <1>1, <1>2, PlainTable DEF Outgoing, Letter
  <2>4. Ended(i) /\ TagsOf(Call(i)) = 0
    BY <1>0, <1>1, <1>2, PlainTable DEF Ended, Letter
  <2>6. Posts(i, <<>>)
    BY <1>0, <1>1, <1>2, <2>3, PostsNone
  <2> QED BY <1>1, <2>2, <2>4, <2>6, NotStopped, Zenon DEF Moves, Returns, Throws, Finish
<1>3. CASE i = 2 /\ step[i] = 0
  <2>2. PICK value :
          Return(i, <<>>, 0, value)
    BY <1>0, <1>1, <1>3, Zenon DEF XorShares
  <2>3. Outgoing(Call(i), i, step[i]) = {}
    BY <1>0, <1>1, <1>3, PlainTable DEF Outgoing, Letter
  <2>4. Ended(i) /\ TagsOf(Call(i)) = 0
    BY <1>0, <1>1, <1>3, PlainTable DEF Ended, Letter
  <2>6. Posts(i, <<>>)
    BY <1>0, <1>1, <1>3, <2>3, PostsNone
  <2> QED BY <1>1, <2>2, <2>4, <2>6 DEF Moves, Returns
<1> QED BY <1>0, <1>1, <1>2, <1>3, Zenon DEF XorShares, On

LEMMA StepMoves ==
    ASSUME NEW i \in Parties, Step(i) PROVE Moves(i)
<1>1. CASE SetupYao(i)
  BY <1>1, SetupYaoMoves
<1>2. CASE InputYao(i) \/ BatchInputYao(i)
  BY <1>2, SameInputMoves DEF InputYao, BatchInputYao
<1>3. CASE InputFromGarbler(i) \/ InputFromEvaluator(i) \/ InputFromAll(i)
  BY <1>3, InputFromGarblerMoves, InputFromEvaluatorMoves, InputFromAllGarblerMoves, InputFromAllEvaluatorMoves
     DEF InputFromAll
<1>4. CASE CircuitEval(i) \/ MapCircuitEval(i)
  BY <1>4, EvalGarblerMoves, EvalEvaluatorMoves DEF CircuitEval, MapCircuitEval
<1>5. CASE Validate(i)
  BY <1>5, ValidateMoves
<1>6. CASE OutputYao(i) \/ BatchOutputYao(i)
  BY <1>6, OutputToAllMoves DEF OutputYao, BatchOutputYao
<1>7. CASE OutputYaoTo(i) \/ BatchOutputYaoTo(i)
  BY <1>7, OutputToEvaluatorMoves, OutputToGarblerMoves DEF OutputYaoTo, BatchOutputYaoTo
<1>8. CASE BinaryToYao(i) \/ BatchBinaryToYao(i)
  BY <1>8, BinaryToYaoMoves DEF BinaryToYao, BatchBinaryToYao
<1>9. CASE YaoToBinary(i) \/ BatchYaoToBinary(i)
  <2>1. Converts("yao_to_binary", 3) /\ Converts("batch_yao_to_binary", 4)
    BY DEF Converts
  <2> QED BY <1>9, <2>1, YaoToBinaryGarbler0Moves, YaoToBinaryGarbler1Moves, YaoToBinaryEvaluatorMoves
          DEF YaoToBinary, BatchYaoToBinary
<1>10. CASE Bring(i) \/ XorShares(i)
  BY <1>10, BringMoves, XorSharesMoves
<1> QED BY <1>1, <1>2, <1>3, <1>4, <1>5, <1>6, <1>7, <1>8, <1>9, <1>10 DEF Step


-----------------------------------------------------------------------------
(* The letters of a call, in general.                                      *)

\* A call whose party, if it names one, is a party.
Legal(call) ==
    call.op \in {"input_from", "output_yao_to", "batch_output_yao_to"} => call.pid \in Parties

Proper(l, call) ==
    /\ l.from \in Parties /\ l.to \in Parties /\ l.from # l.to
    /\ l.tag \in 1..TagsOf(call) /\ l.sent \in 0..1 /\ l.taken \in 1..3

\* What a party sends in a call after its first await needs nothing that
\* others send after theirs.
Prompt(call) ==
    \A l, m \in Letters(call) : l.sent = 1 /\ m.to = l.from /\ m.taken = 1 => m.sent = 0

\* Sender, receiver and tag tell which letter it is.
Distinct(call) ==
    \A l, m \in Letters(call) : l.from = m.from /\ l.to = m.to /\ l.tag = m.tag => l = m

LEMMA LetterTables ==
    ASSUME NEW call, Legal(call)
    PROVE  /\ \A l \in Letters(call) : Proper(l, call)
           /\ Prompt(call) /\ Distinct(call) /\ TagsOf(call) \in 0..4
<1>1. CASE call.op = "setup_yao"
  BY <1>1, SetupTable DEF Proper, Prompt, Distinct, Letter, Parties
<1>2. CASE call.op \in {"input_yao", "batch_input_yao"}
  BY <1>2, SameInputTable DEF Proper, Prompt, Distinct, Letter, Parties
<1>3. CASE call.op = "input_from" /\ call.pid # 2
  BY <1>3, FromGarblerTable DEF Proper, Prompt, Distinct, Letter, Parties
<1>4. CASE call.op = "input_from" /\ call.pid = 2
  BY <1>4, FromEvaluatorTable DEF Proper, Prompt, Distinct, Letter, Parties
<1>5. CASE call.op = "input_from_all"
  BY <1>5, AllTable DEF Proper, Prompt, Distinct, Letter, Parties
<1>6. CASE call.op \in {"circuit_eval", "map_circuit_eval"}
  BY <1>6, EvalTable DEF Proper, Prompt, Distinct, Letter, Parties
<1>7. CASE call.op = "validate"
  BY <1>7, ValidateTable DEF Proper, Prompt, Distinct, Letter, Parties
<1>8. CASE call.op \in {"output_yao", "batch_output_yao"}
  BY <1>8, OutputTable DEF Proper, Prompt, Distinct, Letter, Parties
<1>9. CASE call.op \in {"output_yao_to", "batch_output_yao_to"} /\ call.pid = 2
  BY <1>9, OutputToEvaluatorTable DEF Proper, Prompt, Distinct, Letter, Parties
<1>10. CASE call.op \in {"output_yao_to", "batch_output_yao_to"} /\ call.pid # 2
  BY <1>10, OutputToGarblerTable DEF Legal, Proper, Prompt, Distinct, Letter, Parties
<1>11. CASE call.op \in {"binary_to_yao", "batch_binary_to_yao"}
  BY <1>11, BinaryToYaoTable DEF Proper, Prompt, Distinct, Letter, Parties
<1>12. CASE call.op = "yao_to_binary"
  BY <1>12, ToBinaryTable DEF Proper, Prompt, Distinct, Letter, Parties
<1>13. CASE call.op = "batch_yao_to_binary"
  BY <1>13, ToBinariesTable DEF Proper, Prompt, Distinct, Letter, Parties
<1>14. CASE call.op \notin {"setup_yao", "input_yao", "batch_input_yao", "input_from", "input_from_all",
                            "circuit_eval", "map_circuit_eval", "validate", "output_yao",
                            "batch_output_yao", "output_yao_to", "batch_output_yao_to",
                            "binary_to_yao", "batch_binary_to_yao", "yao_to_binary", "batch_yao_to_binary"}
  <2>1. Letters(call) = {} /\ TagsOf(call) = 0
    BY <1>14, Zenon DEF Letters, TagsOf
  <2> QED BY <2>1 DEF Proper, Prompt, Distinct
<1> QED BY <1>1, <1>2, <1>3, <1>4, <1>5, <1>6, <1>7, <1>8, <1>9, <1>10, <1>11, <1>12, <1>13, <1>14

LEMMA Scripts ==
    ASSUME plan \in DOMAIN Plans
    PROVE  /\ Len(Script) \in Nat /\ DOMAIN Script = 1..Len(Script)
           /\ \A k \in 1..Len(Script) : Legal(Script[k])
<1>1. Script \in Seq({Script[k] : k \in DOMAIN Script})
  BY PlansAssumption DEF Script
<1>2. Len(Script) \in Nat /\ DOMAIN Script = 1..Len(Script)
  BY <1>1, LenProperties
<1>3. \A k \in DOMAIN Script : Legal(Script[k])
  BY PlansAssumption DEF Script, Legal
<1> QED BY <1>2, <1>3

-----------------------------------------------------------------------------
(* Numbering the tags.                                                     *)

LEMMA ModMore ==
    ASSUME NEW M \in Nat \ {0}, NEW a \in Nat, NEW t \in Nat
    PROVE  ((a % M) + t) % M = (a + t) % M
<1>1. PICK q \in Nat, r \in 0..(M - 1) : a = q * M + r /\ r = a % M
  BY Divide
<1>2. r + t \in Nat
  BY <1>1
<1>3. PICK p \in Nat, s \in 0..(M - 1) : r + t = p * M + s /\ s = (r + t) % M
  BY <1>2, Divide
<1>4. PICK d \in Nat : d = q + p
  OBVIOUS
<1>5. d * M = q * M + p * M
  BY <1>4, Distribute
<1>6. PICK x \in Nat, y \in Nat, z \in Nat : x = q * M /\ y = p * M /\ z = d * M
  BY ProductNat
<1>7. z = x + y /\ a = x + r /\ r + t = y + s
  BY <1>1, <1>3, <1>5, <1>6, Zenon
<1>8. a + t = z + s
  BY <1>1, <1>6, <1>7
<1>9. (d * M + s) % M = s
  BY Divided
<1> QED BY <1>1, <1>3, <1>6, <1>8, <1>9, Zenon

LEMMA FewTags == ASSUME NEW call PROVE TagsOf(call) \in 0..4
  BY DEF TagsOf

\* A numbering of the first n calls.
NumbersTo(f, b, n) ==
    /\ f \in [1..(n + 1) -> Nat]
    /\ \A k \in 1..(n + 1) : k <= b => f[k] = 0
    /\ \A k \in b..n : f[k + 1] = f[k] + TagsOf(Script[k])

LEMMA Numbering ==
    ASSUME plan \in DOMAIN Plans, NEW b \in 1..(Len(Script) + 1)
    PROVE  \E c : Numbers(c, b)
<1> DEFINE T == {n \in Nat : \E f : NumbersTo(f, b, n)}
<1>0. Len(Script) \in Nat /\ b \in Nat /\ b >= 1
  BY Scripts
<1>1. 0 \in T
  <2>1. NumbersTo([k \in 1..1 |-> 0], b, 0)
    BY <1>0 DEF NumbersTo
  <2> QED BY <2>1
<1>2. \A n \in Nat : n \in T => n + 1 \in T
  <2> SUFFICES ASSUME NEW n \in Nat, NEW f, NumbersTo(f, b, n) PROVE \E g : NumbersTo(g, b, n + 1)
    OBVIOUS
  <2>1. PICK t \in Nat : t = TagsOf(Script[n + 1])
    BY FewTags
  <2>2. PICK last \in Nat : last = IF b <= n + 1 THEN f[n + 1] + t ELSE 0
    BY <2>1, <1>0 DEF NumbersTo
  <2>3. PICK g : g = [k \in 1..(n + 2) |-> IF k = n + 2 THEN last ELSE f[k]]
    OBVIOUS
  <2>4. g \in [1..(n + 2) -> Nat]
    BY <2>2, <2>3 DEF NumbersTo
  <2>5. \A k \in 1..(n + 2) : k <= b => g[k] = 0
    BY <1>0, <2>2, <2>3 DEF NumbersTo
  <2>6. \A k \in b..(n + 1) : g[k + 1] = g[k] + TagsOf(Script[k])
    <3> SUFFICES ASSUME NEW k \in b..(n + 1) PROVE g[k + 1] = g[k] + TagsOf(Script[k])
      OBVIOUS
    <3>1. CASE k = n + 1
      BY <1>0, <2>1, <2>2, <2>3, <3>1 DEF NumbersTo
    <3>2. CASE k # n + 1
      <4>1. k \in b..n /\ k \in 1..(n + 1) /\ k + 1 \in 1..(n + 1)
        BY <1>0, <3>2
      <4>2. f[k + 1] = f[k] + TagsOf(Script[k])
        BY <4>1 DEF NumbersTo
      <4>3. g[k + 1] = f[k + 1] /\ g[k] = f[k]
        BY <2>3, <4>1
      <4> QED BY <4>2, <4>3
    <3> QED BY <3>1, <3>2
  <2>7. n + 1 + 1 = n + 2
    OBVIOUS
  <2> QED BY <2>4, <2>5, <2>6, <2>7 DEF NumbersTo
<1>3. Len(Script) \in T
  <2> HIDE DEF T
  <2>1. Nat \subseteq T
    BY <1>1, <1>2, NatSet
  <2> QED BY <1>0, <2>1
<1> QED BY <1>3, <1>0 DEF NumbersTo, Numbers

LEMMA Least ==
    ASSUME NEW N \in Nat, at \in [Parties -> 1..N]
    PROVE  \E i \in Parties : Finished = at[i] - 1 /\ \A j \in Parties : at[i] <= at[j]
<1> DEFINE S == {at[i] : i \in Parties}
<1>1. \E i \in Parties : \A j \in Parties : at[i] <= at[j]
  BY DEF Parties
<1>2. \E n \in S : \A i \in Parties : n <= at[i]
  BY <1>1
<1>3. PICK n : n = CHOOSE m \in S : \A i \in Parties : m <= at[i]
  OBVIOUS
<1>4. n \in S /\ \A i \in Parties : n <= at[i]
  BY <1>2, <1>3, Zenon
<1>5. Finished = n - 1
  BY <1>3, Zenon DEF Finished
<1> QED BY <1>4, <1>5

-----------------------------------------------------------------------------
(* Tags and rounds are in order.                                           *)

Counting(c, b) == Numbers(c, b) /\ Numbered(c, b) /\ Asking(c)

\* What a step of party i leaves alone of the others.
Others(i) ==
    \A j \in Parties \ {i} : /\ at'[j] = at[j] /\ step'[j] = step[j] /\ fail'[j] = fail[j]
                             /\ asked'[j] = asked[j] /\ counter'[j] = counter[j]

LEMMA SameScript ==
    ASSUME plan' = plan
    PROVE  /\ Script' = Script
           /\ \A c, b : Numbers(c, b)' <=> Numbers(c, b)
           /\ \A j : at'[j] = at[j] => Call(j)' = Call(j)
  BY DEF Script, Call, Numbers

LEMMA OneCounted ==
    ASSUME NEW i \in Parties, NEW c, NEW b, Counting(c, b), plan' = plan, Others(i),
           b <= at'[i], counter'[i] = c[at'[i]] % CounterMod, AsksAt(c, i)'
    PROVE  Counting(c, b)'
<1>1. Numbers(c, b)' /\ Script' = Script
  BY SameScript DEF Counting
<1>2. Numbered(c, b)'
  BY DEF Counting, Numbered, Others
<1>3. ASSUME NEW j \in Parties, j # i PROVE AsksAt(c, j)'
  <2>1. at'[j] = at[j] /\ step'[j] = step[j] /\ fail'[j] = fail[j] /\ asked'[j] = asked[j]
    BY <1>3 DEF Others
  <2>2. AsksAt(c, j)
    BY DEF Counting, Asking
  <2>3. Call(j)' = Call(j)
    BY <2>1, SameScript
  <2>4. Running(j)' <=> Running(j)
    BY <1>1, <2>1 DEF Running
  <2>5. \A k, l : Place(c, k, l)' = Place(c, k, l)
    BY DEF Place
  <2>6. \A call, m, s : Incoming(call, m, s)' = Incoming(call, m, s)
    OBVIOUS
  <2> QED BY <1>1, <2>1, <2>2, <2>3, <2>4 DEF AsksAt, Place, Incoming
<1> QED BY <1>1, <1>2, <1>3 DEF Counting, Asking

\* Where a running party is.
LEMMA AtCall ==
    ASSUME Places, NEW i \in Parties, at[i] <= Len(Script)
    PROVE  at[i] \in 1..Len(Script) /\ Len(Script) \in Nat /\ Legal(Call(i))
<1>1. plan \in DOMAIN Plans /\ at[i] \in 1..(Len(Script) + 1)
  BY DEF Places
<1>2. Len(Script) \in Nat /\ \A k \in 1..Len(Script) : Legal(Script[k])
  BY <1>1, Scripts
<1>3. at[i] \in 1..Len(Script)
  BY <1>1, <1>2
<1> QED BY <1>2, <1>3 DEF Call

\* The tags of the call a party runs.
LEMMA HereIsPlace ==
    ASSUME Places, NEW c, NEW b, Counting(c, b), NEW i \in Parties, at[i] <= Len(Script)
    PROVE  \A l \in Letters(Call(i)) : Here(i, l) = Place(c, at[i], l)
<1>1. Legal(Call(i))
  BY AtCall
<1> SUFFICES ASSUME NEW l \in Letters(Call(i)) PROVE Here(i, l) = Place(c, at[i], l)
  OBVIOUS
<1>2. l.tag \in Nat
  <2>1. Proper(l, Call(i)) /\ TagsOf(Call(i)) \in 0..4
    BY <1>1, LetterTables
  <2> QED BY <2>1 DEF Proper
<1>3. c[at[i]] \in Nat /\ CounterMod \in Nat \ {0}
  BY RelayAssumption, Scripts DEF Counting, Numbers, Places
<1>4. counter[i] = c[at[i]] % CounterMod
  BY DEF Counting, Numbered
<1>5. (counter[i] + l.tag) % CounterMod = (c[at[i]] + l.tag) % CounterMod
  BY <1>2, <1>3, <1>4, ModMore, ZenonT(40)
<1> QED BY <1>5 DEF Here, Place

LEMMA WantedAreLetters ==
    ASSUME Places, NEW c, NEW b, Counting(c, b), NEW i \in Parties, at[i] <= Len(Script), NEW s
    PROVE  Wanted(i, s) = {Place(c, at[i], l) : l \in Incoming(Call(i), i, s)}
<1>1. \A l \in Incoming(Call(i), i, s) : Here(i, l) = Place(c, at[i], l)
  BY HereIsPlace DEF Incoming
<1> QED BY <1>1 DEF Wanted

\* A party that starts a call awaits nothing.
LEMMA NothingAtFirst ==
    ASSUME NEW call, Legal(call), NEW i PROVE Incoming(call, i, 0) = {}
  BY LetterTables DEF Incoming, Proper

LEMMA AwaitsKeepsCount ==
    ASSUME Places, NEW c, NEW b, Counting(c, b), NEW i \in Parties, Running(i), Awaits(i)
    PROVE  /\ Counting(c, b)' /\ Others(i) /\ plan' = plan
           /\ step'[i] = step[i] + 1 /\ step'[i] \in 1..3 /\ at' = at /\ fail' = fail
<1>1. PICK out, keep : Posts(i, out) /\ Incoming(Call(i), i, step[i] + 1) # {}
                       /\ Await(i, out, Wanted(i, step[i] + 1), keep)
  BY DEF Awaits
<1>2. /\ plan' = plan /\ at' = at /\ fail' = fail /\ counter' = counter
      /\ step' = [step EXCEPT ![i] = @ + 1] /\ asked' = [asked EXCEPT ![i] = Wanted(i, step[i] + 1)]
  BY <1>1 DEF Await, AsksFor, hosts
<1>3. at[i] <= Len(Script) /\ Legal(Call(i))
  BY AtCall, Zenon DEF Running
<1>4. step'[i] = step[i] + 1 /\ asked'[i] = Wanted(i, step[i] + 1) /\ Others(i)
  BY <1>2 DEF Places, Others
<1>5. step[i] + 1 \in 1..3
  <2>1. PICK l \in Letters(Call(i)) : l.taken = step[i] + 1
    BY <1>1 DEF Incoming
  <2> QED BY <2>1, <1>3, LetterTables DEF Proper
<1>6. AsksAt(c, i)'
  <2>1. asked'[i] = {Place(c, at[i], l) : l \in Incoming(Call(i), i, step'[i])}
    BY <1>3, <1>4, WantedAreLetters
  <2>2. Script' = Script /\ Call(i)' = Call(i)
    BY <1>2, SameScript
  <2> QED BY <1>2, <1>3, <2>1, <2>2 DEF AsksAt, Place, Incoming
<1>7. b <= at'[i] /\ counter'[i] = c[at'[i]] % CounterMod
  BY <1>2 DEF Counting, Numbered
<1>8. Counting(c, b)'
  BY <1>2, <1>4, <1>6, <1>7, OneCounted
<1> QED BY <1>2, <1>4, <1>5, <1>8

LEMMA ReturnsKeepsCount ==
    ASSUME Places, NEW c, NEW b, Counting(c, b), NEW i \in Parties, Running(i), Returns(i)
    PROVE  /\ Counting(c, b)' /\ Others(i) /\ plan' = plan
           /\ step'[i] = 0 /\ at'[i] = at[i] + 1 /\ fail' = fail
<1>1. PICK out, value : Return(i, out, TagsOf(Call(i)), value)
  BY DEF Returns
<1>2. /\ plan' = plan /\ at' = [at EXCEPT ![i] = @ + 1] /\ fail' = fail
      /\ counter' = [counter EXCEPT ![i] = (@ + TagsOf(Call(i))) % CounterMod]
      /\ step' = [step EXCEPT ![i] = 0] /\ asked' = [asked EXCEPT ![i] = {}]
  BY <1>1 DEF Return, AsksFor, TakeTags, hosts
<1>3. at[i] <= Len(Script) /\ Len(Script) \in Nat /\ at[i] \in 1..Len(Script)
  BY AtCall, Zenon DEF Running
<1>4. /\ step'[i] = 0 /\ asked'[i] = {} /\ Others(i) /\ at'[i] = at[i] + 1
      /\ counter'[i] = (counter[i] + TagsOf(Call(i))) % CounterMod
  BY <1>2 DEF Places, Others
<1>5. counter'[i] = c[at'[i]] % CounterMod
  <2>1. counter[i] = c[at[i]] % CounterMod /\ b <= at[i] /\ c[at[i]] \in Nat /\ CounterMod \in Nat \ {0}
    BY <1>3, RelayAssumption DEF Counting, Numbered, Numbers
  <2>2. c[at[i] + 1] = c[at[i]] + TagsOf(Call(i))
    BY <1>3, <2>1 DEF Counting, Numbers, Call
  <2>3. TagsOf(Call(i)) \in Nat
    BY FewTags
  <2>4. ((c[at[i]] % CounterMod) + TagsOf(Call(i))) % CounterMod = (c[at[i]] + TagsOf(Call(i))) % CounterMod
    BY <2>1, <2>3, ModMore
  <2> QED BY <1>4, <2>1, <2>2, <2>4
<1>6. b <= at'[i]
  BY <1>3, <1>4 DEF Counting, Numbered, Numbers
<1>7. AsksAt(c, i)'
  <2>1. CASE at'[i] <= Len(Script)
    <3>1. Legal(Script[at'[i]])
      BY <1>3, <1>4, <2>1, Scripts DEF Places
    <3>2. Script' = Script /\ Call(i)' = Script[at'[i]]
      BY <1>2, SameScript DEF Call
    <3>3. Incoming(Call(i)', i, 0) = {}
      BY <3>1, <3>2, NothingAtFirst
    <3> QED BY <1>4, <2>1, <3>2, <3>3 DEF AsksAt, Place, Incoming
  <2>2. CASE ~ (at'[i] <= Len(Script))
    <3>1. Script' = Script
      BY <1>2, SameScript
    <3>2. ~ Running(i)'
      BY <2>2, <3>1, Zenon DEF Running
    <3> QED BY <1>4, <3>2 DEF AsksAt
  <2> QED BY <2>1, <2>2
<1>8. Counting(c, b)'
  BY <1>2, <1>4, <1>5, <1>6, <1>7, OneCounted
<1> QED BY <1>2, <1>4, <1>8

LEMMA ThrowKeepsCount ==
    ASSUME Places, NEW c, NEW b, Counting(c, b), NEW i \in Parties, Running(i), NEW error, Throw(i, error),
           error # ""
    PROVE  /\ Counting(c, b)' /\ Others(i) /\ plan' = plan
           /\ step' = step /\ at' = at /\ fail'[i] = error
<1>2. /\ plan' = plan /\ at' = at /\ fail' = [fail EXCEPT ![i] = error]
      /\ counter' = counter /\ step' = step /\ asked' = [asked EXCEPT ![i] = {}]
  BY Zenon DEF Throw, AsksFor, hosts, own
<1>4. asked'[i] = {} /\ fail'[i] = error /\ Others(i)
  BY <1>2, Zenon DEF Places, Others
<1>6. AsksAt(c, i)'
  BY <1>4, Zenon DEF AsksAt, Running
<1>7. b <= at'[i] /\ counter'[i] = c[at'[i]] % CounterMod
  BY <1>2, Zenon DEF Counting, Numbered
<1>8. Counting(c, b)'
  BY <1>2, <1>4, <1>6, <1>7, OneCounted, Zenon
<1> QED BY <1>2, <1>4, <1>8, Zenon

LEMMA AbortKeepsCount ==
    ASSUME Places, NEW c, NEW b, Counting(c, b), NEW i \in Parties, HostAborts(i)
    PROVE  /\ Counting(c, b)' /\ Others(i) /\ plan' = plan
           /\ step' = step /\ at' = at /\ fail'[i] = "stopped"
<1>2. /\ plan' = plan /\ at' = at /\ fail' = [fail EXCEPT ![i] = "stopped"]
      /\ counter' = counter /\ step' = step /\ asked' = asked
  BY DEF HostAborts, hosts, own
<1>4. fail'[i] = "stopped" /\ Others(i)
  BY <1>2 DEF Places, Others
<1>6. AsksAt(c, i)'
  <2>1. AsksAt(c, i) /\ Running(i)
    BY DEF Counting, Asking, HostAborts
  <2>2. Script' = Script /\ Call(i)' = Call(i)
    BY <1>2, SameScript
  <2> QED BY <1>2, <2>1, <2>2 DEF AsksAt, Place, Incoming
<1>7. b <= at'[i] /\ counter'[i] = c[at'[i]] % CounterMod
  BY <1>2 DEF Counting, Numbered
<1>8. Counting(c, b)'
  BY <1>2, <1>4, <1>6, <1>7, OneCounted
<1> QED BY <1>2, <1>4, <1>8

LEMMA RetryCounts ==
    ASSUME Places, Retry
    PROVE  /\ \E c, b : Counting(c, b)' /\ plan' = plan
           /\ Finished \in 0..Len(Script)
           /\ \A i \in Parties : at'[i] = Finished + 1 /\ step'[i] = 0 /\ fail'[i] = "" /\ Finished < at[i]
<1>1. PICK i \in Parties : Finished = at[i] - 1 /\ \A j \in Parties : at[i] <= at[j]
  <2>1. Len(Script) + 1 \in Nat
    BY Scripts DEF Places
  <2> QED BY <2>1, Least DEF Places
<1>2. PICK f : f = Finished
  OBVIOUS
<1>3. f \in 0..Len(Script) /\ \A j \in Parties : f < at[j]
  BY <1>1, <1>2, Scripts DEF Places
<1>4. /\ counter' = [j \in Parties |-> 0] /\ asked' = [j \in Parties |-> {}]
      /\ at' = [j \in Parties |-> f + 1] /\ step' = [j \in Parties |-> 0]
      /\ fail' = [j \in Parties |-> ""] /\ plan' = plan
  BY <1>2, Zenon DEF Retry, hosts
<1>5. Script' = Script /\ Len(Script) \in Nat /\ f + 1 \in 1..(Len(Script) + 1)
  <2>1. Script' = Script
    BY <1>4, SameScript, Zenon
  <2>2. Len(Script) \in Nat
    BY Scripts DEF Places
  <2> QED BY <1>3, <2>1, <2>2
<1>6. PICK c : Numbers(c, f + 1)
  BY <1>5, Numbering DEF Places
<1>7. Numbers(c, f + 1)'
  BY <1>4, <1>6, SameScript, Zenon
<1>8. Numbered(c, f + 1)'
  <2>1. c[f + 1] = 0 /\ 0 % CounterMod = 0
    BY <1>3, <1>5, <1>6, RelayAssumption DEF Numbers
  <2> SUFFICES ASSUME NEW j \in Parties PROVE f + 1 <= at'[j] /\ counter'[j] = c[at'[j]] % CounterMod
    BY DEF Numbered
  <2>2. at'[j] = f + 1 /\ counter'[j] = 0
    BY <1>4, Zenon
  <2> QED BY <1>5, <2>1, <2>2
<1>9. Asking(c)'
  <2> SUFFICES ASSUME NEW j \in Parties PROVE AsksAt(c, j)'
    BY DEF Asking
  <2>1. CASE f + 1 <= Len(Script)
    <3>1. Legal(Script[f + 1])
      BY <1>3, <1>5, <2>1, Scripts DEF Places
    <3>2. Call(j)' = Script[f + 1]
      BY <1>4, <1>5, Zenon DEF Call
    <3>3. Incoming(Call(j)', j, 0) = {}
      BY <3>1, <3>2, NothingAtFirst
    <3> QED BY <1>4, <1>5, <2>1, <3>2, <3>3, Zenon DEF AsksAt, Place, Incoming
  <2>2. CASE ~ (f + 1 <= Len(Script))
    BY <1>4, <1>5, <2>2, Zenon DEF AsksAt, Running
  <2> QED BY <2>1, <2>2
<1>10. \E d, b : Counting(d, b)'
  BY <1>7, <1>8, <1>9 DEF Counting
<1> QED BY <1>2, <1>3, <1>4, <1>10, Zenon

-----------------------------------------------------------------------------
(* What a garbler draws.                                                   *)

Drawn(i) ==
    CASE Call(i).op \in {"input_yao", "batch_input_yao"} -> Len(Mine(i))
      [] Call(i).op = "input_from" -> IF Call(i).pid # 2 THEN 4 ELSE 6
      [] Call(i).op = "input_from_all" -> IF step[i] = 0 THEN 8 * Len(Mine(i)) ELSE 6 * Len(Mine(i))
      [] Call(i).op \in {"circuit_eval", "map_circuit_eval"} -> Upto(Call(i), Rounds(Call(i))).draws
      [] Call(i).op \in {"binary_to_yao", "batch_binary_to_yao"} -> 7 * Len(Args(i))
      [] Call(i).op \in {"yao_to_binary", "batch_yao_to_binary"} -> 2 * Len(Args(i))
      [] OTHER -> 0

\* A garbler at step[i] of its call draws in its next step.
DrawsNow(i) ==
    \/ Call(i).op \in {"input_yao", "batch_input_yao", "input_from_all", "circuit_eval", "map_circuit_eval",
                       "binary_to_yao", "batch_binary_to_yao"}
    \/ Call(i).op = "input_from" /\ (Call(i).pid # 2 \/ step[i] = 1)
    \/ Call(i).op \in {"yao_to_binary", "batch_yao_to_binary"} /\ step[i] = i

Drawing(i) ==
    /\ Call(i).op # "setup_yao"
    /\ \/ Garbler(i) /\ DrawsNow(i) /\ Drew(i, Drawn(i))
       \/ UNCHANGED yao /\ (Garbler(i) => ~ DrawsNow(i) \/ Throws(i))

LEMMA SameInputDraws ==
    ASSUME NEW i \in Parties, NEW op \in {"input_yao", "batch_input_yao"}, SameInput(i, op)
    PROVE  Drawing(i)
<1>1. Call(i).op = op
  BY Zenon DEF SameInput, On
<1>2. (Garbler(i) /\ Drew(i, Len(Mine(i)))) \/ (i = 2 /\ UNCHANGED yao)
  BY Zenon DEF SameInput
<1>3. DrawsNow(i) /\ Drawn(i) = Len(Mine(i))
  BY <1>1 DEF Drawn, DrawsNow
<1> QED BY <1>1, <1>2, <1>3 DEF Drawing, Garbler

LEMMA InputFromGarblerDraws ==
    ASSUME NEW i \in Parties, InputFromGarbler(i) PROVE Drawing(i)
<1>1. Call(i).op = "input_from" /\ Call(i).pid # 2
  BY Zenon DEF InputFromGarbler, On
<1>2. (Garbler(i) /\ Drew(i, 4)) \/ (i = 2 /\ UNCHANGED yao)
  BY Zenon DEF InputFromGarbler
<1>3. DrawsNow(i) /\ Drawn(i) = 4
  BY <1>1 DEF Drawn, DrawsNow
<1> QED BY <1>1, <1>2, <1>3 DEF Drawing, Garbler

LEMMA InputFromEvaluatorDraws ==
    ASSUME NEW i \in Parties, InputFromEvaluator(i) PROVE Drawing(i)
<1>1. Call(i).op = "input_from" /\ Call(i).pid = 2
  BY Zenon DEF InputFromEvaluator, On
<1>2. \/ Garbler(i) /\ step[i] = 1 /\ Drew(i, 6)
      \/ i = 2 /\ UNCHANGED yao
      \/ Garbler(i) /\ step[i] = 0 /\ UNCHANGED yao
  BY Zenon DEF InputFromEvaluator, On
<1>3. Drawn(i) = 6 /\ (DrawsNow(i) <=> step[i] = 1)
  BY <1>1 DEF Drawn, DrawsNow
<1> QED BY <1>1, <1>2, <1>3 DEF Drawing, Garbler

LEMMA InputFromAllDraws ==
    ASSUME NEW i \in Parties, InputFromAll(i) PROVE Drawing(i)
<1>1. Call(i).op = "input_from_all"
  BY Zenon DEF InputFromAll, InputFromAllGarbler, InputFromAllEvaluator, On
<1>2. \/ Garbler(i) /\ step[i] = 0 /\ Drew(i, 8 * Len(Mine(i)))
      \/ Garbler(i) /\ step[i] = 1 /\ Drew(i, 6 * Len(Mine(i)))
      \/ i = 2 /\ UNCHANGED yao
  BY Zenon DEF InputFromAll, InputFromAllGarbler, InputFromAllEvaluator, On
<1>3. DrawsNow(i) /\ Drawn(i) = (IF step[i] = 0 THEN 8 * Len(Mine(i)) ELSE 6 * Len(Mine(i)))
  BY <1>1 DEF Drawn, DrawsNow
<1> QED BY <1>1, <1>2, <1>3 DEF Drawing, Garbler

LEMMA EvalDraws ==
    ASSUME NEW i \in Parties, NEW op \in {"circuit_eval", "map_circuit_eval"},
           EvalGarbler(i, op) \/ EvalEvaluator(i, op)
    PROVE  Drawing(i)
<1>1. Call(i).op = op
  BY Zenon DEF EvalGarbler, EvalEvaluator, On
<1>2. \/ Garbler(i) /\ Drew(i, Upto(Call(i), Rounds(Call(i))).draws)
      \/ Throw(i, "InvalidLength") /\ UNCHANGED yao
      \/ i = 2 /\ UNCHANGED yao
  BY Zenon DEF EvalGarbler, EvalEvaluator
<1>3. DrawsNow(i) /\ Drawn(i) = Upto(Call(i), Rounds(Call(i))).draws
  BY <1>1 DEF Drawn, DrawsNow
<1>4. "InvalidLength" \in Errors
  BY DEF Errors
<1>5. op # "setup_yao"
  OBVIOUS
<1> QED BY <1>1, <1>2, <1>3, <1>4, <1>5, Zenon DEF Drawing, Garbler, Throws

LEMMA BinaryToYaoDraws ==
    ASSUME NEW i \in Parties, NEW op \in {"binary_to_yao", "batch_binary_to_yao"}, BinaryToYaoSteps(i, op)
    PROVE  Drawing(i)
<1>1. Call(i).op = op
  BY Zenon DEF BinaryToYaoSteps, On
<1>2. (Garbler(i) /\ Drew(i, 7 * Len(Args(i)))) \/ (i = 2 /\ UNCHANGED yao)
  BY Zenon DEF BinaryToYaoSteps
<1>3. DrawsNow(i) /\ Drawn(i) = 7 * Len(Args(i))
  BY <1>1 DEF Drawn, DrawsNow
<1> QED BY <1>1, <1>2, <1>3 DEF Drawing, Garbler

LEMMA YaoToBinaryDraws ==
    ASSUME NEW i \in Parties, NEW op \in {"yao_to_binary", "batch_yao_to_binary"}, NEW tags,
           \/ YaoToBinaryGarbler0(i, op, tags) \/ YaoToBinaryGarbler1(i, op, tags)
           \/ YaoToBinaryEvaluator(i, op, tags)
    PROVE  Drawing(i)
<1>1. Call(i).op = op
  BY Zenon DEF YaoToBinaryGarbler0, YaoToBinaryGarbler1, YaoToBinaryEvaluator, On
<1>2. \/ i = 0 /\ step[i] = 0 /\ Drew(i, 2 * Len(Args(i)))
      \/ i = 1 /\ step[i] = 1 /\ Drew(i, 2 * Len(Args(i)))
      \/ i = 1 /\ step[i] # 1 /\ UNCHANGED yao
      \/ i = 2 /\ UNCHANGED yao
  <2>1. CASE YaoToBinaryGarbler0(i, op, tags)
    BY <2>1, Zenon DEF YaoToBinaryGarbler0, On
  <2>2. CASE YaoToBinaryGarbler1(i, op, tags)
    <3>1. \/ i = 1 /\ step[i] = 1 /\ Drew(i, 2 * Len(Args(i)))
          \/ i = 1 /\ (step[i] = 0 \/ step[i] = 2) /\ UNCHANGED yao
      BY <2>2, Zenon DEF YaoToBinaryGarbler1, On
    <3> QED BY <3>1
  <2>3. CASE YaoToBinaryEvaluator(i, op, tags)
    BY <2>3, Zenon DEF YaoToBinaryEvaluator
  <2> QED BY <2>1, <2>2, <2>3
<1>3. Drawn(i) = 2 * Len(Args(i)) /\ (DrawsNow(i) <=> step[i] = i)
  BY <1>1 DEF Drawn, DrawsNow
<1> QED BY <1>1, <1>2, <1>3 DEF Drawing, Garbler

LEMMA SilentDraws ==
    ASSUME NEW i \in Parties,
           \/ Validate(i) \/ OutputYao(i) \/ BatchOutputYao(i) \/ OutputYaoTo(i) \/ BatchOutputYaoTo(i)
           \/ Bring(i) \/ XorShares(i)
    PROVE  Drawing(i)
<1>1. UNCHANGED yao
  BY Zenon DEF Validate, OutputYao, BatchOutputYao, OutputToAll, OutputYaoTo, BatchOutputYaoTo, OutputToOne,
               Bring, XorShares
<1>2. Call(i).op \in {"validate", "output_yao", "batch_output_yao", "output_yao_to", "batch_output_yao_to",
                      "bring", "xor"}
  <2>1. CASE Validate(i)
    BY <2>1, Zenon DEF Validate, On
  <2>2. CASE OutputYao(i) \/ BatchOutputYao(i)
    BY <2>2, Zenon DEF OutputYao, BatchOutputYao, OutputToAll, On
  <2>3. CASE OutputYaoTo(i) \/ BatchOutputYaoTo(i)
    BY <2>3, Zenon DEF OutputYaoTo, BatchOutputYaoTo, OutputToOne, On
  <2>4. CASE Bring(i) \/ XorShares(i)
    BY <2>4, Zenon DEF Bring, XorShares, On
  <2> QED BY <2>1, <2>2, <2>3, <2>4
<1>3. ~ DrawsNow(i)
  BY <1>2 DEF DrawsNow
<1> QED BY <1>1, <1>2, <1>3 DEF Drawing

LEMMA StepDraws ==
    ASSUME NEW i \in Parties, Step(i), ~ SetupYao(i) PROVE Drawing(i)
<1>2. CASE InputYao(i) \/ BatchInputYao(i)
  BY <1>2, SameInputDraws DEF InputYao, BatchInputYao
<1>3. CASE InputFromGarbler(i) \/ InputFromEvaluator(i) \/ InputFromAll(i)
  BY <1>3, InputFromGarblerDraws, InputFromEvaluatorDraws, InputFromAllDraws
<1>4. CASE CircuitEval(i) \/ MapCircuitEval(i)
  BY <1>4, EvalDraws DEF CircuitEval, MapCircuitEval
<1>5. CASE \/ Validate(i) \/ OutputYao(i) \/ BatchOutputYao(i) \/ OutputYaoTo(i) \/ BatchOutputYaoTo(i)
           \/ Bring(i) \/ XorShares(i)
  BY <1>5, SilentDraws
<1>8. CASE BinaryToYao(i) \/ BatchBinaryToYao(i)
  BY <1>8, BinaryToYaoDraws DEF BinaryToYao, BatchBinaryToYao
<1>9. CASE YaoToBinary(i) \/ BatchYaoToBinary(i)
  BY <1>9, YaoToBinaryDraws DEF YaoToBinary, BatchYaoToBinary
<1> QED BY <1>2, <1>3, <1>4, <1>5, <1>8, <1>9 DEF Step

-----------------------------------------------------------------------------
(* What is in the relay after a step.                                      *)

LEMMA Exchanged ==
    ASSUME NEW i, NEW out, Exchange(i, out)
    PROVE  /\ \A a : a \in DOMAIN mail' <=> a \in DOMAIN out \/ (a \in DOMAIN mail /\ a \notin asked[i])
           /\ \A a \in DOMAIN out : mail'[a] = out[a]
           /\ \A a \in DOMAIN mail' : a \notin DOMAIN out => mail'[a] = mail[a]
  BY DEF Exchange, Both

LEMMA SetupLetters ==
    ASSUME NEW call, NEW l \in Letters(call), l.name = "SETUP_YAO_FUNC_MSG2"
    PROVE  call.op = "setup_yao" /\ l.from = 0 /\ l.to = 1 /\ l.tag = 2 /\ l.sent = 1 /\ l.taken = 2
<1>1. CASE call.op = "setup_yao"
  BY <1>1, SetupTable DEF Letter
<1>2. CASE call.op \in {"input_yao", "batch_input_yao"}
  BY <1>2, SameInputTable DEF Letter
<1>3. CASE call.op = "input_from" /\ call.pid # 2
  BY <1>3, FromGarblerTable DEF Letter
<1>4. CASE call.op = "input_from" /\ call.pid = 2
  BY <1>4, FromEvaluatorTable DEF Letter
<1>5. CASE call.op = "input_from_all"
  BY <1>5, AllTable DEF Letter
<1>6. CASE call.op \in {"circuit_eval", "map_circuit_eval"}
  BY <1>6, EvalTable DEF Letter
<1>7. CASE call.op = "validate"
  BY <1>7, ValidateTable DEF Letter
<1>8. CASE call.op \in {"output_yao", "batch_output_yao"}
  BY <1>8, OutputTable DEF Letter
<1>9. CASE call.op \in {"output_yao_to", "batch_output_yao_to"} /\ call.pid = 2
  BY <1>9, OutputToEvaluatorTable DEF Letter
<1>10. CASE call.op \in {"output_yao_to", "batch_output_yao_to"} /\ call.pid # 2
  BY <1>10, OutputToGarblerTable DEF Letter
<1>11. CASE call.op \in {"binary_to_yao", "batch_binary_to_yao"}
  BY <1>11, BinaryToYaoTable DEF Letter
<1>12. CASE call.op = "yao_to_binary"
  BY <1>12, ToBinaryTable DEF Letter
<1>13. CASE call.op = "batch_yao_to_binary"
  BY <1>13, ToBinariesTable DEF Letter
<1>14. CASE call.op \notin {"setup_yao", "input_yao", "batch_input_yao", "input_from", "input_from_all",
                            "circuit_eval", "map_circuit_eval", "validate", "output_yao",
                            "batch_output_yao", "output_yao_to", "batch_output_yao_to",
                            "binary_to_yao", "batch_binary_to_yao", "yao_to_binary", "batch_yao_to_binary"}
  BY <1>14, Zenon DEF Letters
<1> QED BY <1>1, <1>2, <1>3, <1>4, <1>5, <1>6, <1>7, <1>8, <1>9, <1>10, <1>11, <1>12, <1>13, <1>14

-----------------------------------------------------------------------------
(* The setups.                                                             *)

Setup(crs, key, seed, delta, pos) == [crs |-> crs, key |-> key, seed |-> seed, delta |-> delta, pos |-> pos]

IsSetup(s) == \E crs, key, seed, delta, pos : s = Setup(crs, key, seed, delta, pos) /\ delta \in Block

\* The seeds that are on their way.
SeedsSent ==
    \A a \in DOMAIN mail : a[3][1] = "SETUP_YAO_FUNC_MSG2" => mail[a][1] \in Plans[plan].seeds

Setups == SeedsSent /\ \A i \in Parties : IsSetup(yao[i])

LEMMA GarblerSetupIs ==
    ASSUME NEW seed, NEW crs, DeltaOf(seed) \in Block PROVE IsSetup(GarblerSetup(seed, crs))
<1>1. DeltaOf(seed) \cup {Lsb} \in Block
  BY LsbAssumption DEF Block
<1>2. GarblerSetup(seed, crs) = Setup(crs, GarbleKey(seed), seed, DeltaOf(seed) \cup {Lsb}, 0)
  BY DEF GarblerSetup, Setup
<1> QED BY <1>1, <1>2, Zenon DEF IsSetup

LEMMA NoSetupIs ==
    ASSUME NEW crs, NEW key PROVE IsSetup([NoSetup EXCEPT !.crs = crs, !.key = key])
<1>1. PICK s, t : s = NoSetup /\ t = [s EXCEPT !.crs = crs, !.key = key]
  BY Zenon
<1>2. t = Setup(crs, key, 0, {}, 0)
  BY <1>1 DEF NoSetup, Setup
<1>3. {} \in Block
  BY DEF Block
<1>4. IsSetup(t)
  BY <1>2, <1>3, Zenon DEF IsSetup
<1> QED BY <1>1, <1>4, Zenon

LEMMA DrewIs ==
    ASSUME NEW i \in Parties, NEW n, DOMAIN yao = Parties, IsSetup(yao[i]), Drew(i, n)
    PROVE  /\ IsSetup(yao'[i]) /\ DOMAIN yao' = Parties /\ \A j \in Parties \ {i} : yao'[j] = yao[j]
           /\ yao'[i] = [yao[i] EXCEPT !.pos = @ + n]
<1>1. PICK crs, key, seed, delta, pos : yao[i] = Setup(crs, key, seed, delta, pos) /\ delta \in Block
  BY DEF IsSetup
<1>2. yao'[i] = [yao[i] EXCEPT !.pos = @ + n]
  BY DEF Drew
<1>3. yao'[i] = Setup(crs, key, seed, delta, pos + n)
  BY <1>1, <1>2 DEF Setup
<1>4. DOMAIN yao' = Parties /\ \A j \in Parties \ {i} : yao'[j] = yao[j]
  BY DEF Drew
<1>5. IsSetup(yao'[i])
  BY <1>1, <1>3, Zenon DEF IsSetup
<1> QED BY <1>2, <1>4, <1>5

\* Where garbler 1 finds the seed of garbler 0.
LEMMA SeedArrives ==
    ASSUME Places, NEW c, NEW b, Counting(c, b), On(1, "setup_yao", 2)
    PROVE  <<0, 1, SetupTag(1, 2)>> \in asked[1] /\ <<0, 1, SetupTag(1, 2)>> \in DOMAIN mail
<1>1. 1 \in Parties /\ Running(1) /\ Call(1).op = "setup_yao" /\ step[1] = 2 /\ Complete(1)
  BY DEF Parties, On
<1>2. at[1] <= Len(Script) /\ asked[1] = {Place(c, at[1], l) : l \in Incoming(Call(1), 1, 2)}
  BY <1>1 DEF Counting, Asking, AsksAt
<1>3. Wanted(1, 2) = asked[1]
  BY <1>1, <1>2, WantedAreLetters
<1>4. Letter(0, 1, 2, "SETUP_YAO_FUNC_MSG2", 1, 2) \in Incoming(Call(1), 1, 2)
  BY <1>1, SetupTable DEF Incoming, Letter
<1>5. Here(1, Letter(0, 1, 2, "SETUP_YAO_FUNC_MSG2", 1, 2)) = <<0, 1, SetupTag(1, 2)>>
  BY HereIs DEF SetupTag
<1>6. Here(1, Letter(0, 1, 2, "SETUP_YAO_FUNC_MSG2", 1, 2)) \in Wanted(1, 2)
  BY <1>4, Zenon DEF Wanted
<1> QED BY <1>1, <1>3, <1>5, <1>6 DEF Complete

LEMMA SetupYaoSetups ==
    ASSUME Places, NEW c, NEW b, Counting(c, b), Setups, NEW i \in Parties, SetupYao(i)
    PROVE  \/ UNCHANGED yao
           \/ \E s : IsSetup(s) /\ yao' = [yao EXCEPT ![i] = s]
<1>1. CASE SetupEvaluator(i)
  <2>1. \/ UNCHANGED yao
        \/ yao' = [yao EXCEPT ![i] = [NoSetup EXCEPT !.crs = loc[i], !.key = Got(i, 0, SetupTag(i, 3))]]
    BY <1>1, Zenon DEF SetupEvaluator
  <2> QED BY <2>1, NoSetupIs, Zenon
<1>2. CASE SetupGarbler0(i)
  <2>1. PICK seed \in Plans[plan].seeds : \E crs : yao' = [yao EXCEPT ![i] = GarblerSetup(seed, crs)]
    BY <1>2, Zenon DEF SetupGarbler0
  <2>2. DeltaOf(seed) \in Block
    BY PlansAssumption DEF Places
  <2> QED BY <2>1, <2>2, GarblerSetupIs, Zenon
<1>3. CASE SetupGarbler1(i)
  <2>1. CASE step[i] = 2
    <3>1. i = 1 /\ On(1, "setup_yao", 2)
      <4>1. ~ On(i, "setup_yao", 1)
        BY <2>1 DEF On
      <4> QED BY <1>3, <4>1, Zenon DEF SetupGarbler1
    <3>2. <<0, 1, SetupTag(1, 2)>> \in DOMAIN mail
      BY <3>1, SeedArrives
    <3>3. PICK m : m = Got(1, 0, SetupTag(1, 2))
      OBVIOUS
    <3>4. m[1] \in Plans[plan].seeds
      <4>1. SetupTag(1, 2)[1] = "SETUP_YAO_FUNC_MSG2"
        BY DEF SetupTag, Tag
      <4>2. PICK a \in DOMAIN mail : a = <<0, 1, SetupTag(1, 2)>>
        BY <3>2
      <4>3. a[3][1] = "SETUP_YAO_FUNC_MSG2"
        BY <4>1, <4>2
      <4>4. m = mail[a]
        BY <3>3, <4>2, Zenon DEF Got
      <4> QED BY <4>3, <4>4 DEF Setups, SeedsSent
    <3>5. DeltaOf(m[1]) \in Block
      BY <3>4, PlansAssumption DEF Places
    <3>6. yao' = [yao EXCEPT ![1] = GarblerSetup(m[1], loc[1])]
      <4>1. ~ On(i, "setup_yao", 1)
        BY <2>1 DEF On
      <4> QED BY <1>3, <3>1, <3>3, <4>1, Zenon DEF SetupGarbler1
    <3> QED BY <3>1, <3>5, <3>6, GarblerSetupIs, Zenon
  <2>2. CASE step[i] # 2
    <3>1. ~ On(i, "setup_yao", 2)
      BY <2>2 DEF On
    <3> QED BY <1>3, <3>1, Zenon DEF SetupGarbler1
  <2> QED BY <2>1, <2>2
<1>4. CASE UNCHANGED yao
  BY <1>4
<1> QED BY <1>1, <1>2, <1>3, <1>4, Zenon DEF SetupYao

LEMMA StepYaos ==
    ASSUME Places, NEW c, NEW b, Counting(c, b), Setups, NEW i \in Parties, Step(i)
    PROVE  DOMAIN yao' = Parties /\ \A j \in Parties : IsSetup(yao'[j])
<1>1. DOMAIN yao = Parties /\ \A j \in Parties : IsSetup(yao[j])
  BY DEF Places, Setups
<1>2. CASE SetupYao(i)
  <2>1. CASE UNCHANGED yao
    BY <1>1, <2>1
  <2>2. CASE \E s : IsSetup(s) /\ yao' = [yao EXCEPT ![i] = s]
    BY <1>1, <2>2
  <2> QED BY <1>2, <2>1, <2>2, SetupYaoSetups
<1>3. CASE ~ SetupYao(i)
  <2>1. Drawing(i)
    BY <1>3, StepDraws
  <2>2. CASE UNCHANGED yao
    BY <1>1, <2>2
  <2>3. CASE Drew(i, Drawn(i))
    BY <1>1, <2>3, DrewIs
  <2> QED BY <2>1, <2>2, <2>3 DEF Drawing
<1> QED BY <1>2, <1>3

\* No step but the one of garbler 0 sends a seed.
LEMMA OutgoingSeeds ==
    ASSUME NEW i \in Parties, Step(i), ~ SetupGarbler0(i), NEW out, Posts(i, out), NEW a \in DOMAIN out
    PROVE  a[3][1] # "SETUP_YAO_FUNC_MSG2"
<1>1. PICK l \in Outgoing(Call(i), i, step[i]) : a = Here(i, l)
  BY DEF Posts
<1>2. a[3][1] = l.name
  BY <1>1 DEF Here
<1>3. SUFFICES ASSUME l.name = "SETUP_YAO_FUNC_MSG2" PROVE FALSE
  BY <1>2
<1>4. Call(i).op = "setup_yao" /\ i = 0 /\ step[i] = 1
  BY <1>1, <1>3, SetupLetters DEF Outgoing
<1>5. SetupYao(i)
  BY <1>4, StepDraws DEF Drawing
<1>6. ~ On(i, "setup_yao", 0) /\ i # 2 /\ i # 1
  BY <1>4 DEF On
<1> QED BY <1>5, <1>6, Zenon DEF SetupYao, SetupEvaluator, SetupGarbler1

LEMMA StepSeeds ==
    ASSUME Places, Setups, NEW i \in Parties, Step(i) PROVE SeedsSent'
<1>0. SeedsSent
  BY DEF Setups
<1>1. CASE SetupGarbler0(i)
  <2>1. PICK seed, crs :
          /\ seed \in Plans[plan].seeds
          /\ Return(i, Both(Sent(0, 1, SetupTag(i, 2), <<seed, crs>>), Sent(0, 2, SetupTag(i, 3), GarbleKey(seed))),
                    3, <<>>)
    BY <1>1, Zenon DEF SetupGarbler0
  <2>2. PICK out : out = Both(Sent(0, 1, SetupTag(i, 2), <<seed, crs>>), Sent(0, 2, SetupTag(i, 3), GarbleKey(seed)))
    OBVIOUS
  <2>3. Exchange(i, out) /\ plan' = plan /\ seed \in Plans[plan].seeds
    BY <2>1, <2>2 DEF Return, hosts
  <2>4. ASSUME NEW a \in DOMAIN out, a[3][1] = "SETUP_YAO_FUNC_MSG2" PROVE out[a] = <<seed, crs>>
    <3>1. a = <<0, 1, SetupTag(i, 2)>> \/ a = <<0, 2, SetupTag(i, 3)>>
      BY <2>2 DEF Both, Sent
    <3>2. a # <<0, 2, SetupTag(i, 3)>>
      BY <2>4 DEF SetupTag, Tag
    <3> QED BY <2>2, <3>1, <3>2 DEF Both, Sent
  <2> SUFFICES ASSUME NEW a \in DOMAIN mail', a[3][1] = "SETUP_YAO_FUNC_MSG2"
               PROVE  mail'[a][1] \in Plans[plan].seeds
    BY <2>3 DEF SeedsSent
  <2>5. CASE a \in DOMAIN out
    BY <2>3, <2>4, <2>5, Exchanged
  <2>6. CASE a \notin DOMAIN out
    BY <1>0, <2>3, <2>6, Exchanged DEF SeedsSent
  <2> QED BY <2>5, <2>6
<1>2. CASE ~ SetupGarbler0(i)
  <2>1. PICK out : Exchange(i, out) /\ plan' = plan /\ \A a \in DOMAIN out : a[3][1] # "SETUP_YAO_FUNC_MSG2"
    <3>1. CASE Awaits(i)
      <4>1. PICK out, keep : Posts(i, out) /\ Await(i, out, Wanted(i, step[i] + 1), keep)
        BY <3>1 DEF Awaits
      <4>2. Exchange(i, out) /\ plan' = plan
        BY <4>1 DEF Await, hosts
      <4> QED BY <1>2, <4>1, <4>2, OutgoingSeeds
    <3>2. CASE Returns(i)
      <4>1. PICK out, value : Posts(i, out) /\ Return(i, out, TagsOf(Call(i)), value)
        BY <3>2 DEF Returns
      <4>2. Exchange(i, out) /\ plan' = plan
        BY <4>1 DEF Return, hosts
      <4> QED BY <1>2, <4>1, <4>2, OutgoingSeeds
    <3>3. CASE Throws(i)
      <4>1. Exchange(i, <<>>) /\ plan' = plan
        BY <3>3 DEF Throws, Throw, hosts
      <4>2. DOMAIN <<>> = {}
        OBVIOUS
      <4> QED BY <4>1, <4>2
    <3> QED BY <3>1, <3>2, <3>3, StepMoves DEF Moves
  <2> SUFFICES ASSUME NEW a \in DOMAIN mail', a[3][1] = "SETUP_YAO_FUNC_MSG2"
               PROVE  mail'[a][1] \in Plans[plan].seeds
    BY <2>1 DEF SeedsSent
  <2>2. a \in DOMAIN mail /\ mail'[a] = mail[a]
    BY <2>1, Exchanged
  <2> QED BY <1>0, <2>2 DEF SeedsSent
<1> QED BY <1>1, <1>2

-----------------------------------------------------------------------------
(* Types.                                                                  *)

Types == Places /\ Failures /\ Setups /\ \E c, b : Counting(c, b)

LEMMA Appended ==
    ASSUME NEW s, IsList(s), NEW v PROVE IsList(Append(s, v)) /\ Len(Append(s, v)) = Len(s) + 1 /\ Len(s) \in Nat
<1>1. PICK S : s \in Seq(S)
  BY DEF IsList
<1>2. s \in Seq(S \cup {v}) /\ v \in S \cup {v}
  BY <1>1, SeqMonotonic
<1>3. Append(s, v) \in Seq(S \cup {v}) /\ Len(Append(s, v)) = Len(s) + 1 /\ Len(s) \in Nat
  BY <1>2
<1> QED BY <1>3 DEF IsList

LEMMA Shortened ==
    ASSUME NEW s, IsList(s), NEW n \in 0..Len(s) PROVE IsList(SubSeq(s, 1, n)) /\ Len(SubSeq(s, 1, n)) = n
<1>1. PICK S : s \in Seq(S)
  BY DEF IsList
<1>2. Len(s) \in Nat /\ \A k \in 1..n : s[k] \in S
  BY <1>1, LenProperties, ElementOfSeq
<1>3. SubSeq(s, 1, n) \in Seq(S) /\ Len(SubSeq(s, 1, n)) = IF 1 <= n THEN n - 1 + 1 ELSE 0
  BY <1>2, SubSeqProperties
<1> QED BY <1>2, <1>3 DEF IsList

\* The parts of Places that a step of party i changes at i alone.
PlacesOf(i) ==
    /\ at[i] \in 1..(Len(Script) + 1) /\ step[i] \in 0..3 /\ counter[i] \in 0..(CounterMod - 1)
    /\ IsList(result[i]) /\ Len(result[i]) = at[i] - 1
    /\ at[i] > Len(Script) => step[i] = 0

Shapes ==
    /\ plan \in DOMAIN Plans /\ given \in Plans[plan].givens
    /\ at = [i \in Parties |-> at[i]] /\ step = [i \in Parties |-> step[i]]
    /\ counter = [i \in Parties |-> counter[i]]
    /\ DOMAIN fail = Parties /\ DOMAIN asked = Parties /\ DOMAIN result = Parties
    /\ DOMAIN yao = Parties /\ DOMAIN loc = Parties
    /\ aborted \subseteq Parties

LEMMA PlacesApart == Places <=> Shapes /\ \A i \in Parties : PlacesOf(i)
<1>1. ASSUME Places PROVE Shapes /\ \A i \in Parties : PlacesOf(i)
  BY <1>1 DEF Places, Shapes, PlacesOf
<1>2. ASSUME Shapes, \A i \in Parties : PlacesOf(i) PROVE Places
  <2>1. at \in [Parties -> 1..(Len(Script) + 1)] /\ step \in [Parties -> 0..3]
        /\ counter \in [Parties -> 0..(CounterMod - 1)]
    BY <1>2 DEF Shapes, PlacesOf
  <2> QED BY <1>2, <2>1 DEF Shapes, PlacesOf, Places
<1> QED BY <1>1, <1>2

LEMMA PlacesNext ==
    ASSUME Shapes', \A i \in Parties : PlacesOf(i)' PROVE Places'
<1>1. at' \in [Parties -> 1..(Len(Script') + 1)] /\ step' \in [Parties -> 0..3]
      /\ counter' \in [Parties -> 0..(CounterMod - 1)]
  BY DEF Shapes, PlacesOf
<1> QED BY <1>1 DEF Shapes, PlacesOf, Places

LEMMA AwaitsPlaces ==
    ASSUME Places, NEW c, NEW b, Counting(c, b), NEW i \in Parties, Running(i), Awaits(i), DOMAIN yao' = Parties
    PROVE  Places'
<1>1. PICK out, keep : Await(i, out, Wanted(i, step[i] + 1), keep)
  BY DEF Awaits
<1>2. /\ plan' = plan /\ given' = given /\ at' = at /\ counter' = counter /\ result' = result
      /\ aborted' = aborted /\ fail' = fail
      /\ step' = [step EXCEPT ![i] = @ + 1] /\ loc' = [loc EXCEPT ![i] = keep]
      /\ asked' = [asked EXCEPT ![i] = Wanted(i, step[i] + 1)]
  BY <1>1 DEF Await, hosts, AsksFor
<1>3. step'[i] \in 1..3 /\ Others(i) /\ Script' = Script
  BY <1>2, AwaitsKeepsCount, SameScript
<1>4. Shapes /\ \A j \in Parties : PlacesOf(j)
  BY PlacesApart
<1>5. Shapes'
  BY <1>2, <1>4 DEF Shapes
<1>6. PlacesOf(i)'
  <2>1. at[i] \in 1..Len(Script) /\ Len(Script) \in Nat
    BY AtCall, Zenon DEF Running
  <2> QED BY <1>2, <1>3, <1>4, <2>1 DEF PlacesOf
<1>7. \A j \in Parties \ {i} : PlacesOf(j)'
  BY <1>2, <1>3, <1>4 DEF PlacesOf, Others
<1> QED BY <1>5, <1>6, <1>7, PlacesNext

LEMMA ReturnsPlaces ==
    ASSUME Places, NEW c, NEW b, Counting(c, b), NEW i \in Parties, Running(i), Returns(i), DOMAIN yao' = Parties
    PROVE  Places'
<1>1. PICK out, value : Return(i, out, TagsOf(Call(i)), value)
  BY DEF Returns
<1>2. /\ plan' = plan /\ given' = given /\ at' = [at EXCEPT ![i] = @ + 1]
      /\ counter' = [counter EXCEPT ![i] = (@ + TagsOf(Call(i))) % CounterMod]
      /\ result' = [result EXCEPT ![i] = Append(@, value)] /\ aborted' = aborted /\ fail' = fail
      /\ step' = [step EXCEPT ![i] = 0] /\ loc' = [loc EXCEPT ![i] = <<>>]
      /\ asked' = [asked EXCEPT ![i] = {}]
  BY <1>1 DEF Return, hosts, AsksFor, TakeTags
<1>3. step'[i] = 0 /\ at'[i] = at[i] + 1 /\ Others(i) /\ Script' = Script
  BY <1>2, ReturnsKeepsCount, SameScript
<1>4. Shapes /\ \A j \in Parties : PlacesOf(j)
  BY PlacesApart
<1>5. Shapes'
  BY <1>2, <1>4 DEF Shapes
<1>6. PlacesOf(i)'
  <2>1. at[i] \in 1..Len(Script) /\ Len(Script) \in Nat
    BY AtCall, Zenon DEF Running
  <2>2. IsList(result'[i]) /\ Len(result'[i]) = at'[i] - 1
    <3>1. result'[i] = Append(result[i], value)
      BY <1>2, <1>4 DEF Shapes
    <3>2. IsList(result[i]) /\ Len(result[i]) = at[i] - 1
      BY <1>4 DEF PlacesOf
    <3>3. IsList(result'[i]) /\ Len(result'[i]) = Len(result[i]) + 1
      BY <3>1, <3>2, Appended
    <3> QED BY <1>3, <2>1, <3>2, <3>3
  <2>3. counter'[i] \in 0..(CounterMod - 1)
    <3>1. counter'[i] = (counter[i] + TagsOf(Call(i))) % CounterMod
      BY <1>2, <1>4 DEF Shapes
    <3>2. counter[i] + TagsOf(Call(i)) \in Nat /\ CounterMod \in Nat \ {0}
      BY <1>4, FewTags, RelayAssumption DEF PlacesOf
    <3>3. PICK a \in Nat : a = counter[i] + TagsOf(Call(i))
      BY <3>2
    <3>4. a % CounterMod \in 0..(CounterMod - 1)
      BY <3>2, Divide
    <3> QED BY <3>1, <3>3, <3>4
  <2> QED BY <1>3, <2>1, <2>2, <2>3 DEF PlacesOf
<1>7. \A j \in Parties \ {i} : PlacesOf(j)'
  BY <1>2, <1>3, <1>4 DEF PlacesOf, Others
<1> QED BY <1>5, <1>6, <1>7, PlacesNext

\* A step that ends the call of party i, or its part in all of them.
LEMMA FailsPlaces ==
    ASSUME Places, NEW i \in Parties, NEW error,
           plan' = plan, given' = given, at' = at, step' = step, counter' = counter, result' = result,
           fail' = [fail EXCEPT ![i] = error], DOMAIN asked' = Parties, DOMAIN loc' = Parties,
           DOMAIN yao' = Parties, aborted' \subseteq Parties
    PROVE  Places'
<1>3. Script' = Script
  BY SameScript
<1>4. Shapes /\ \A j \in Parties : PlacesOf(j)
  BY PlacesApart
<1>5. Shapes'
  BY <1>4 DEF Shapes
<1>6. \A j \in Parties : PlacesOf(j)'
  BY <1>3, <1>4 DEF PlacesOf
<1> QED BY <1>5, <1>6, PlacesNext

LEMMA ThrowPlaces ==
    ASSUME Places, NEW i \in Parties, NEW error, Throw(i, error), DOMAIN yao' = Parties
    PROVE  Places'
<1>1. /\ plan' = plan /\ given' = given /\ at' = at /\ step' = step /\ counter' = counter /\ result' = result
      /\ fail' = [fail EXCEPT ![i] = error] /\ asked' = [asked EXCEPT ![i] = {}] /\ loc' = loc
      /\ aborted' = aborted
  BY DEF Throw, hosts, own, AsksFor
<1>2. DOMAIN asked' = Parties /\ DOMAIN loc' = Parties /\ aborted' \subseteq Parties
  BY <1>1 DEF Places
<1> QED BY <1>1, <1>2, FailsPlaces

LEMMA AbortPlaces ==
    ASSUME Places, NEW i \in Parties, HostAborts(i)
    PROVE  Places'
<1>1. /\ plan' = plan /\ given' = given /\ at' = at /\ step' = step /\ counter' = counter /\ result' = result
      /\ fail' = [fail EXCEPT ![i] = "stopped"] /\ asked' = asked /\ loc' = loc /\ yao' = yao
      /\ aborted' = aborted \cup {i}
  BY DEF HostAborts, hosts, own
<1>2. DOMAIN asked' = Parties /\ DOMAIN loc' = Parties /\ DOMAIN yao' = Parties /\ aborted' \subseteq Parties
  BY <1>1 DEF Places
<1> QED BY <1>1, <1>2, FailsPlaces

LEMMA RetryPlaces ==
    ASSUME Places, Retry
    PROVE  Places'
<1>1. PICK f : f = Finished
  OBVIOUS
<1>2. /\ counter' = [j \in Parties |-> 0] /\ asked' = [j \in Parties |-> {}]
      /\ at' = [j \in Parties |-> f + 1] /\ step' = [j \in Parties |-> 0]
      /\ fail' = [j \in Parties |-> ""] /\ plan' = plan /\ given' = given
      /\ loc' = [j \in Parties |-> <<>>] /\ yao' = yao /\ aborted' = aborted
      /\ result' = [j \in Parties |-> SubSeq(result[j], 1, f)]
  BY <1>1, Zenon DEF Retry, hosts
<1>3. f \in 0..Len(Script) /\ \A j \in Parties : f < at[j]
  BY <1>1, RetryCounts, Zenon
<1>4. Shapes /\ \A j \in Parties : PlacesOf(j)
  BY PlacesApart
<1>5. Shapes'
  BY <1>2, <1>4, Zenon DEF Shapes
<1>6. Script' = Script /\ Len(Script) \in Nat
  BY <1>2, <1>4, SameScript, Scripts, Zenon DEF Shapes
<1>7. ASSUME NEW j \in Parties PROVE PlacesOf(j)'
  <2>1. at'[j] = f + 1 /\ step'[j] = 0 /\ counter'[j] = 0 /\ result'[j] = SubSeq(result[j], 1, f)
    BY <1>2, Zenon
  <2>2. IsList(result[j]) /\ f \in 0..Len(result[j])
    BY <1>3, <1>4, <1>6 DEF PlacesOf
  <2>3. IsList(result'[j]) /\ Len(result'[j]) = f
    BY <2>1, <2>2, Shortened
  <2>4. 0 \in 0..(CounterMod - 1)
    BY RelayAssumption
  <2> QED BY <1>3, <1>6, <2>1, <2>3, <2>4 DEF PlacesOf
<1> QED BY <1>5, <1>7, PlacesNext

\* The moves that change one party, or all at once, or nothing.


LEMMA NextCases ==
    ASSUME Next
    PROVE  \/ \E i \in Parties : Step(i)
           \/ \E i \in Parties : Running(i) /\ Throws(i) /\ UNCHANGED yao
           \/ \E i \in Parties : HostAborts(i)
           \/ Retry
           \/ UNCHANGED vars
<1>1. "MissingMessage" \in Errors /\ "AbortProtocol" \in Errors
  BY DEF Errors
<1>2. ASSUME NEW i \in Parties, Lost(i) PROVE Running(i) /\ Throws(i) /\ UNCHANGED yao
  BY <1>1, <1>2 DEF Lost, Throws
<1>3. ASSUME NEW i \in Parties, AbortProtocol(i) PROVE Running(i) /\ Throws(i) /\ UNCHANGED yao
  BY <1>1, <1>3 DEF AbortProtocol, Throws
<1> QED BY <1>2, <1>3, Zenon DEF Next, AllStopped

LEMMA TypesInit == Init => Types
<1> SUFFICES ASSUME Init PROVE Types
  OBVIOUS
<1>1. /\ plan \in DOMAIN Plans /\ given \in Plans[plan].givens
      /\ at = [i \in Parties |-> 1] /\ step = [i \in Parties |-> 0]
      /\ loc = [i \in Parties |-> <<>>] /\ result = [i \in Parties |-> <<>>]
      /\ yao = [i \in Parties |-> NoSetup] /\ fail = [i \in Parties |-> ""]
      /\ mail = <<>> /\ counter = [i \in Parties |-> 0] /\ asked = [i \in Parties |-> {}] /\ aborted = {}
  BY Zenon DEF Init, RelayInit
<1>0. /\ plan \in DOMAIN Plans /\ at = [i \in Parties |-> 1] /\ step = [i \in Parties |-> 0]
      /\ counter = [i \in Parties |-> 0]
  BY <1>1, Zenon
<1>2. Len(Script) \in Nat
  BY <1>1, Scripts, Zenon
<1>3. IsList(<<>>) /\ Len(<<>>) = 0
  <2>1. <<>> \in Seq({}) /\ Len(<<>>) = 0
    BY EmptySeq
  <2> QED BY <2>1 DEF IsList
<1>4. Places
  <2>1. at \in [Parties -> 1..(Len(Script) + 1)] /\ step \in [Parties -> 0..3]
    BY <1>0, <1>2
  <2>2. counter \in [Parties -> 0..(CounterMod - 1)]
    BY <1>0, RelayAssumption
  <2>3. \A i \in Parties : IsList(result[i]) /\ Len(result[i]) = at[i] - 1
    <3>1. \A i \in Parties : result[i] = <<>> /\ at[i] = 1
      BY <1>1, Zenon
    <3> QED BY <1>3, <3>1
  <2>4. \A i \in Parties : at[i] > Len(Script) => step[i] = 0
    BY <1>1, Zenon
  <2>5. /\ DOMAIN fail = Parties /\ DOMAIN asked = Parties /\ DOMAIN result = Parties
        /\ DOMAIN yao = Parties /\ DOMAIN loc = Parties /\ aborted \subseteq Parties
    BY <1>1, Zenon
  <2> QED BY <1>1, <2>1, <2>2, <2>3, <2>4, <2>5, Zenon DEF Places
<1>5. Failures
  BY <1>1, Zenon DEF Failures
<1>6. Setups
  <2>1. SeedsSent
    <3>1. DOMAIN <<>> = {}
      OBVIOUS
    <3>2. DOMAIN mail = {}
      BY <1>1, <3>1, Zenon
    <3> QED BY <3>2 DEF SeedsSent
  <2>2. IsSetup(NoSetup)
    <3>1. NoSetup = Setup({}, 0, 0, {}, 0) /\ {} \in Block
      BY DEF NoSetup, Setup, Block
    <3> QED BY <3>1, Zenon DEF IsSetup
  <2> QED BY <1>1, <2>1, <2>2, Zenon DEF Setups
<1>7. \E c, b : Counting(c, b)
  <2>0. 1 \in 1..(Len(Script) + 1) /\ plan \in DOMAIN Plans
    BY <1>0, <1>2
  <2>1. PICK c : Numbers(c, 1)
    BY <2>0, Numbering
  <2>2. Numbered(c, 1)
    <3>1. c[1] = 0 /\ 0 % CounterMod = 0
      BY <2>0, <2>1, RelayAssumption DEF Numbers
    <3> QED BY <1>0, <3>1 DEF Numbered
  <2>3. Asking(c)
    <3> SUFFICES ASSUME NEW i \in Parties PROVE AsksAt(c, i)
      BY DEF Asking
    <3>1. CASE at[i] <= Len(Script)
      <4>1. Legal(Call(i))
        BY <1>4, <3>1, AtCall
      <4>2. Incoming(Call(i), i, 0) = {}
        BY <4>1, NothingAtFirst
      <4> QED BY <1>1, <3>1, <4>2, Zenon DEF AsksAt
    <3>2. CASE ~ (at[i] <= Len(Script))
      BY <1>1, <3>2, Zenon DEF AsksAt, Running
    <3> QED BY <3>1, <3>2
  <2> QED BY <2>1, <2>2, <2>3 DEF Counting
<1> QED BY <1>4, <1>5, <1>6, <1>7 DEF Types

LEMMA FailuresStep ==
    ASSUME Places, Failures, NEW i \in Parties, Running(i), at' = at, plan' = plan, aborted \subseteq aborted',
           NEW error, fail' = [fail EXCEPT ![i] = error], error = "stopped" => i \in aborted'
    PROVE  Failures'
<1>1. Script' = Script
  BY SameScript
<1>2. at[i] <= Len(Script)
  BY Zenon DEF Running
<1> QED BY <1>1, <1>2, Zenon DEF Failures, Places

LEMMA StepTypes ==
    ASSUME Types, NEW i \in Parties, Step(i) PROVE Types'
<1>1. PICK c, b : Counting(c, b)
  BY DEF Types
<1>2. Places /\ Setups /\ Failures /\ Moves(i) /\ Running(i)
  BY StepMoves DEF Types, Moves
<1>3. Setups' /\ DOMAIN yao' = Parties
  BY <1>1, <1>2, StepYaos, StepSeeds DEF Setups
<1>4. CASE Awaits(i)
  <2>1. Counting(c, b)' /\ fail' = fail /\ at' = at /\ plan' = plan
    BY <1>1, <1>2, <1>4, AwaitsKeepsCount
  <2>2. Places'
    BY <1>1, <1>2, <1>3, <1>4, AwaitsPlaces
  <2>3. aborted' = aborted
    BY <1>4 DEF Awaits, Await
  <2>4. Failures'
    BY <1>2, <2>1, <2>3, SameScript, Zenon DEF Failures
  <2> QED BY <1>3, <2>1, <2>2, <2>4 DEF Types
<1>5. CASE Returns(i)
  <2>1. Counting(c, b)' /\ fail' = fail /\ at'[i] = at[i] + 1 /\ Others(i) /\ plan' = plan
    BY <1>1, <1>2, <1>5, ReturnsKeepsCount
  <2>2. Places'
    BY <1>1, <1>2, <1>3, <1>5, ReturnsPlaces
  <2>3. aborted' = aborted
    BY <1>5 DEF Returns, Return
  <2>4. Failures'
    <3>1. fail[i] = "" /\ Script' = Script
      BY <1>2, <2>1, SameScript, Zenon DEF Running
    <3> QED BY <1>2, <2>1, <2>3, <3>1, Zenon DEF Failures, Others
  <2> QED BY <1>3, <2>1, <2>2, <2>4 DEF Types
<1>6. CASE Throws(i)
  <2>1. PICK error \in Errors : Throw(i, error)
    BY <1>6 DEF Throws
  <2>2. error # "" /\ error # "stopped"
    BY NotStopped, Zenon
  <2>3. Counting(c, b)' /\ plan' = plan /\ at' = at
    BY <1>1, <1>2, <2>1, <2>2, ThrowKeepsCount, Zenon
  <2>4. Places'
    BY <1>2, <1>3, <2>1, ThrowPlaces
  <2>5. fail' = [fail EXCEPT ![i] = error] /\ aborted' = aborted
    BY <2>1 DEF Throw
  <2>6. Failures'
    BY <1>2, <2>2, <2>3, <2>5, FailuresStep, Zenon
  <2> QED BY <1>3, <2>3, <2>4, <2>6 DEF Types
<1> QED BY <1>2, <1>4, <1>5, <1>6 DEF Moves

LEMMA ThrowTypes ==
    ASSUME Types, NEW i \in Parties, Running(i), Throws(i), UNCHANGED yao PROVE Types'
<1>1. PICK c, b : Counting(c, b)
  BY DEF Types
<1>2. Places /\ Setups /\ Failures
  BY DEF Types
<1>3. PICK error \in Errors : Throw(i, error)
  BY DEF Throws
<1>4. error # "" /\ error # "stopped"
  BY NotStopped, Zenon
<1>5. Counting(c, b)' /\ plan' = plan /\ at' = at
  BY <1>1, <1>2, <1>3, <1>4, ThrowKeepsCount, Zenon
<1>6. Places'
  <2>1. DOMAIN yao' = Parties
    BY <1>2 DEF Places
  <2> QED BY <1>2, <1>3, <2>1, ThrowPlaces
<1>7. fail' = [fail EXCEPT ![i] = error] /\ aborted' = aborted /\ Exchange(i, <<>>)
  BY <1>3 DEF Throw
<1>8. Failures'
  BY <1>2, <1>4, <1>5, <1>7, FailuresStep, Zenon
<1>9. Setups'
  <2>1. \A a \in DOMAIN mail' : a \in DOMAIN mail /\ mail'[a] = mail[a]
    <3>1. DOMAIN <<>> = {}
      OBVIOUS
    <3> QED BY <1>7, <3>1, Exchanged
  <2> QED BY <1>2, <1>5, <2>1 DEF Setups, SeedsSent
<1> QED BY <1>5, <1>6, <1>8, <1>9 DEF Types

LEMMA AbortTypes ==
    ASSUME Types, NEW i \in Parties, HostAborts(i) PROVE Types'
<1>1. PICK c, b : Counting(c, b)
  BY DEF Types
<1>2. Places /\ Setups /\ Failures /\ Running(i)
  BY DEF Types, HostAborts
<1>3. Counting(c, b)' /\ plan' = plan /\ at' = at
  BY <1>1, <1>2, AbortKeepsCount
<1>4. Places'
  BY <1>2, AbortPlaces
<1>5. /\ fail' = [fail EXCEPT ![i] = "stopped"] /\ aborted' = aborted \cup {i}
      /\ mail' = mail /\ yao' = yao
  BY DEF HostAborts
<1>6. Failures'
  BY <1>2, <1>3, <1>5, FailuresStep
<1>7. Setups'
  BY <1>2, <1>3, <1>5 DEF Setups, SeedsSent
<1> QED BY <1>3, <1>4, <1>6, <1>7 DEF Types

LEMMA RetryTypes ==
    ASSUME Types, Retry PROVE Types'
<1>1. Places /\ Setups /\ Failures
  BY DEF Types
<1>2. Places' /\ \E c, b : Counting(c, b)'
  BY <1>1, RetryPlaces, RetryCounts, Zenon
<1>3. mail' = <<>> /\ yao' = yao /\ fail' = [i \in Parties |-> ""]
  BY Zenon DEF Retry
<1>4. DOMAIN mail' = {}
  <2>1. DOMAIN <<>> = {}
    OBVIOUS
  <2> QED BY <1>3, <2>1, Zenon
<1>5. Failures' /\ Setups'
  BY <1>1, <1>3, <1>4, Zenon DEF Failures, Setups, SeedsSent
<1> QED BY <1>2, <1>5 DEF Types

LEMMA StutterTypes ==
    ASSUME Types, UNCHANGED vars PROVE Types'
<1>1. PICK c, b : Counting(c, b)
  BY DEF Types
<1>2. /\ mail' = mail /\ counter' = counter /\ asked' = asked /\ aborted' = aborted
      /\ plan' = plan /\ given' = given /\ at' = at /\ step' = step /\ loc' = loc /\ result' = result
      /\ yao' = yao /\ fail' = fail /\ retries' = retries
  BY DEF vars, relayvars, hosts, own
<1>3. Script' = Script
  BY <1>2, SameScript
<1>4. Places' /\ Failures'
  BY <1>2, <1>3, Zenon DEF Types, Places, Failures
<1>5. Setups'
  BY <1>2 DEF Types, Setups, SeedsSent
<1>6. Counting(c, b)'
  <2>1. 0 \in Parties
    BY DEF Parties
  <2>2. Others(0)
    BY <1>2 DEF Others
  <2>3. 0 \in Parties /\ b <= at[0] /\ counter[0] = c[at[0]] % CounterMod /\ AsksAt(c, 0)
    BY <1>1, <2>1 DEF Counting, Numbered, Asking
  <2>4. AsksAt(c, 0)'
    <3>1. Call(0)' = Call(0) /\ (Running(0)' <=> Running(0))
      BY <1>2, <1>3, SameScript DEF Running
    <3> QED BY <1>2, <1>3, <2>3, <3>1 DEF AsksAt, Place, Incoming
  <2> QED BY <1>1, <1>2, <2>1, <2>2, <2>3, <2>4, OneCounted
<1> QED BY <1>4, <1>5, <1>6 DEF Types

LEMMA TypesNext == Types /\ [Next]_vars => Types'
<1> SUFFICES ASSUME Types, [Next]_vars PROVE Types'
  OBVIOUS
<1>1. CASE UNCHANGED vars
  BY <1>1, StutterTypes
<1>2. CASE Next
  BY <1>2, NextCases, StepTypes, ThrowTypes, AbortTypes, RetryTypes, StutterTypes
<1> QED BY <1>1, <1>2

LEMMA TypesHold == Spec => []Types
  BY TypesInit, TypesNext, PTL DEF Spec

LEMMA TypesTypeOK == Types => TypeOK
<1> SUFFICES ASSUME Types PROVE TypeOK
  OBVIOUS
<1>1. PICK c, b : Counting(c, b)
  BY DEF Types
<1>2. \A i \in Parties : yao[i].delta \in Block
  <2> SUFFICES ASSUME NEW i \in Parties PROVE yao[i].delta \in Block
    OBVIOUS
  <2>1. PICK crs, key, seed, delta, pos : yao[i] = Setup(crs, key, seed, delta, pos) /\ delta \in Block
    BY DEF Types, Setups, IsSetup
  <2> QED BY <2>1 DEF Setup
<1>3. \A i \in Parties : \A a \in asked[i] : a[2] = i
  <2> SUFFICES ASSUME NEW i \in Parties, NEW a \in asked[i] PROVE a[2] = i
    OBVIOUS
  <2>1. AsksAt(c, i)
    BY <1>1 DEF Counting, Asking
  <2>2. PICK l \in Incoming(Call(i), i, step[i]) : a = Place(c, at[i], l)
    BY <2>1 DEF AsksAt
  <2> QED BY <2>2 DEF Place, Incoming
<1> QED BY <1>2, <1>3 DEF Types, Places, TypeOK

\* The parties of a script stay on their calls and awaits, with as many values
\* as they have finished calls, with counters of 32 bits and with offsets that
\* are blocks, and ask only for messages to themselves: whatever the hosts run,
\* lose, abort and start over.
THEOREM RelayTypeOK == Spec => []TypeOK
  BY TypesHold, TypesTypeOK, PTL

-----------------------------------------------------------------------------
(* Tags that are not used twice.                                           *)

LEMMA FewBefore ==
    ASSUME plan \in DOMAIN Plans, NEW c, NEW b, Numbers(c, b)
    PROVE  \A k \in 1..(Len(Script) + 1) : c[k] <= 4 * (k - 1)
<1> DEFINE T == {n \in Nat : \A m \in 1..(Len(Script) + 1) : m = n + 1 => c[m] <= 4 * n}
<1>0. Len(Script) \in Nat /\ b \in Nat /\ b >= 1
  BY Scripts DEF Numbers
<1>1. 0 \in T
  BY <1>0 DEF Numbers
<1>2. \A n \in Nat : n \in T => n + 1 \in T
  <2> SUFFICES ASSUME NEW n \in Nat, n \in T, NEW m \in 1..(Len(Script) + 1), m = n + 2
               PROVE  c[m] <= 4 * (n + 1)
    BY <1>0
  <2>1. PICK h \in Nat : h = n + 1
    OBVIOUS
  <2>2. h \in 1..(Len(Script) + 1) /\ m = h + 1 /\ c[h] \in Nat /\ c[h] <= 4 * n
    BY <1>0, <2>1, SMTT(30) DEF Numbers
  <2>3. CASE m <= b
    <3>1. c[m] = 0
      BY <2>3 DEF Numbers
    <3> QED BY <3>1
  <2>4. CASE ~ (m <= b)
    <3>1. h \in b..Len(Script)
      BY <1>0, <2>2, <2>4
    <3>2. c[h + 1] = c[h] + TagsOf(Script[h])
      BY <3>1 DEF Numbers
    <3>3. PICK t \in 0..4 : t = TagsOf(Script[h])
      BY FewTags
    <3>4. c[m] = c[h] + t
      BY <2>2, <3>2, <3>3
    <3> QED BY <2>2, <3>4
  <2> QED BY <2>3, <2>4
<1>3. Nat \subseteq T
  <2> HIDE DEF T
  <2> QED BY <1>1, <1>2, NatSet
<1> SUFFICES ASSUME NEW k \in 1..(Len(Script) + 1) PROVE c[k] <= 4 * (k - 1)
  OBVIOUS
<1>4. PICK n \in Nat : k = n + 1
  BY <1>0
<1> QED BY <1>0, <1>3, <1>4

LEMMA Onward ==
    ASSUME plan \in DOMAIN Plans, NEW c, NEW b, Numbers(c, b), NEW k \in b..Len(Script)
    PROVE  \A m \in (k + 1)..(Len(Script) + 1) : c[k] + TagsOf(Script[k]) <= c[m]
<1> DEFINE T == {n \in Nat : \A m \in 1..(Len(Script) + 1) : m = k + 1 + n => c[k] + TagsOf(Script[k]) <= c[m]}
<1>0. Len(Script) \in Nat /\ b \in Nat /\ b >= 1 /\ k \in Nat /\ TagsOf(Script[k]) \in 0..4
  BY Scripts, FewTags DEF Numbers
<1>1. 0 \in T
  BY <1>0 DEF Numbers
<1>2. \A n \in Nat : n \in T => n + 1 \in T
  <2> SUFFICES ASSUME NEW n \in Nat, n \in T, NEW m \in 1..(Len(Script) + 1), m = k + 2 + n
               PROVE  c[k] + TagsOf(Script[k]) <= c[m]
    BY <1>0
  <2>1. PICK h \in Nat : h = k + 1 + n
    BY <1>0
  <2>2. h \in b..Len(Script) /\ m = h + 1 /\ h \in 1..(Len(Script) + 1) /\ k \in 1..(Len(Script) + 1)
    BY <1>0, <2>1
  <2>3. c[h + 1] = c[h] + TagsOf(Script[h]) /\ c[h] \in Nat /\ c[k] \in Nat
    BY <2>2 DEF Numbers
  <2>4. c[k] + TagsOf(Script[k]) <= c[h]
    BY <1>0, <2>1, <2>2
  <2>5. PICK t \in 0..4 : t = TagsOf(Script[h])
    BY FewTags
  <2>6. PICK u \in 0..4 : u = TagsOf(Script[k])
    BY FewTags
  <2>7. c[m] = c[h] + t
    BY <2>2, <2>3, <2>5
  <2>8. c[k] + u <= c[h]
    BY <2>4, <2>6, Zenon
  <2>9. c[k] + u <= c[m]
    <3>1. PICK x \in Nat, y \in Nat : x = c[k] /\ y = c[h]
      BY <2>3
    <3>2. x + u <= y /\ c[m] = y + t
      BY <2>7, <2>8, <3>1, Zenon
    <3>3. x + u <= y + t
      BY <3>2
    <3> QED BY <3>1, <3>2, <3>3, Zenon
  <2> QED BY <2>6, <2>9, Zenon
<1>3. Nat \subseteq T
  <2> HIDE DEF T
  <2> QED BY <1>1, <1>2, NatSet
<1> SUFFICES ASSUME NEW m \in (k + 1)..(Len(Script) + 1) PROVE c[k] + TagsOf(Script[k]) <= c[m]
  OBVIOUS
<1>4. m - (k + 1) \in Nat /\ m = k + 1 + (m - (k + 1)) /\ m \in 1..(Len(Script) + 1)
  BY <1>0
<1> QED BY <1>3, <1>4

\* A tag as a number.
LEMMA TagNumber ==
    ASSUME Unwrapped, plan \in DOMAIN Plans, NEW c, NEW b, Numbers(c, b),
           NEW k \in 1..Len(Script), NEW l \in Letters(Script[k])
    PROVE  /\ (c[k] + l.tag) % CounterMod = c[k] + l.tag
           /\ c[k] \in Nat /\ l.tag \in 1..TagsOf(Script[k]) /\ TagsOf(Script[k]) \in 0..4
<1>1. Len(Script) \in Nat /\ Legal(Script[k]) /\ 4 * Len(Script) < CounterMod /\ CounterMod \in Nat
  BY Scripts, RelayAssumption DEF Unwrapped, Script
<1>2. k \in 1..(Len(Script) + 1)
  BY <1>1
<1>3. c[k] \in Nat /\ c[k] <= 4 * (k - 1)
  BY <1>2, FewBefore DEF Numbers
<1>4. l.tag \in 1..TagsOf(Script[k]) /\ TagsOf(Script[k]) \in 0..4
  BY <1>1, LetterTables DEF Proper
<1>5. c[k] + l.tag \in Nat /\ c[k] + l.tag < CounterMod
  BY <1>1, <1>3, <1>4
<1>6. (c[k] + l.tag) % CounterMod = c[k] + l.tag
  BY <1>1, <1>5
<1> QED BY <1>3, <1>4, <1>6

\* No two letters are in one place.
LEMMA Apart ==
    ASSUME Unwrapped, plan \in DOMAIN Plans, NEW c, NEW b, Numbers(c, b),
           NEW k \in b..Len(Script), NEW m \in b..Len(Script),
           NEW l \in Letters(Script[k]), NEW n \in Letters(Script[m]), Place(c, k, l) = Place(c, m, n)
    PROVE  k = m /\ l = n
<1>1. Len(Script) \in Nat /\ b \in Nat /\ b >= 1 /\ k \in 1..Len(Script) /\ m \in 1..Len(Script)
  BY Scripts DEF Numbers
<1>2. /\ (c[k] + l.tag) % CounterMod = c[k] + l.tag
      /\ c[k] \in Nat /\ l.tag \in 1..TagsOf(Script[k]) /\ TagsOf(Script[k]) \in 0..4
  BY <1>1, TagNumber
<1>3. /\ (c[m] + n.tag) % CounterMod = c[m] + n.tag
      /\ c[m] \in Nat /\ n.tag \in 1..TagsOf(Script[m]) /\ TagsOf(Script[m]) \in 0..4
  BY <1>1, TagNumber
<1>4. l.from = n.from /\ l.to = n.to /\ c[k] + l.tag = c[m] + n.tag
  BY <1>2, <1>3 DEF Place
<1>6. ~ (k < m) /\ ~ (m < k)
  <2>1. k < m => c[k] + TagsOf(Script[k]) <= c[m]
    BY <1>1, Onward
  <2>2. m < k => c[m] + TagsOf(Script[m]) <= c[k]
    BY <1>1, Onward
  <2>3. PICK u \in Nat, v \in Nat : u = c[k] /\ v = c[m]
    BY <1>2, <1>3
  <2>4. PICK t \in Nat, w \in Nat : t = TagsOf(Script[k]) /\ w = TagsOf(Script[m])
    BY <1>2, <1>3, SMTT(30)
  <2>5. PICK x \in 1..t, y \in 1..w : x = l.tag /\ y = n.tag
    BY <1>2, <1>3, <2>4
  <2>6. u + x = v + y
    BY <1>4, <2>3, <2>5, Zenon
  <2>7. k < m => u + t <= v
    BY <2>1, <2>3, <2>4, Zenon
  <2>8. m < k => v + w <= u
    BY <2>2, <2>3, <2>4, Zenon
  <2>9. ~ (u + t <= v)
    BY <2>6
  <2>10. ~ (v + w <= u)
    BY <2>6
  <2> QED BY <2>7, <2>8, <2>9, <2>10, Zenon
<1>7. k = m
  BY <1>1, <1>6
<1>8. l.tag = n.tag
  BY <1>2, <1>3, <1>4, <1>7
<1>9. Distinct(Script[k])
  BY <1>1, Scripts, LetterTables
<1> QED BY <1>4, <1>7, <1>8, <1>9 DEF Distinct

-----------------------------------------------------------------------------
(* The ledger of letters.                                                  *)

Ledger(c) == Posted(c) /\ Kept(c) /\ Caused

\* A step of party i that passes an await or ends its call sends the letters
\* of that moment and takes those it awaited.
Passes(i) ==
    \A k \in 1..Len(Script) : \A l \in Letters(Script[k]) :
        /\ IsSent(k, l)' <=> IsSent(k, l) \/ (k = at[i] /\ l \in Outgoing(Call(i), i, step[i]))
        /\ IsTaken(k, l)' <=> IsTaken(k, l) \/ (k = at[i] /\ l \in Incoming(Call(i), i, step[i]))

\* The letters of all calls are of this kind.
LEMMA LettersProper ==
    ASSUME Places, NEW k \in 1..Len(Script), NEW l \in Letters(Script[k])
    PROVE  /\ l.from \in Parties /\ l.to \in Parties /\ l.from # l.to
           /\ l.sent \in 0..1 /\ l.taken \in 1..3
<1>1. Legal(Script[k])
  BY Scripts DEF Places
<1> QED BY <1>1, LetterTables DEF Proper

LEMMA AwaitsPasses ==
    ASSUME Places, NEW c, NEW b, Counting(c, b), NEW i \in Parties, Running(i), Awaits(i)
    PROVE  Passes(i)
<1>1. step'[i] = step[i] + 1 /\ at' = at /\ Others(i) /\ plan' = plan
  BY AwaitsKeepsCount
<1> SUFFICES ASSUME NEW k \in 1..Len(Script), NEW l \in Letters(Script[k])
             PROVE  /\ IsSent(k, l)' <=> IsSent(k, l) \/ (k = at[i] /\ l \in Outgoing(Call(i), i, step[i]))
                    /\ IsTaken(k, l)' <=> IsTaken(k, l) \/ (k = at[i] /\ l \in Incoming(Call(i), i, step[i]))
  BY DEF Passes
<1>2. l.from \in Parties /\ l.to \in Parties /\ l.sent \in 0..1 /\ l.taken \in 1..3 /\ l.from # l.to
  BY LettersProper
<1>3. at[i] = k => Call(i) = Script[k]
  BY DEF Call
<1>4. step[i] \in 0..3 /\ at[i] \in Nat
  BY Scripts DEF Places
<1>5. IsSent(k, l)' <=> IsSent(k, l) \/ (k = at[i] /\ l \in Outgoing(Call(i), i, step[i]))
  <2>1. CASE l.from = i
    BY <1>1, <1>2, <1>3, <1>4, <2>1 DEF IsSent, Outgoing
  <2>2. CASE l.from # i
    <3>1. step'[l.from] = step[l.from]
      BY <1>1, <1>2, <2>2 DEF Others
    <3> QED BY <1>1, <2>2, <3>1 DEF IsSent, Outgoing
  <2> QED BY <2>1, <2>2
<1>6. IsTaken(k, l)' <=> IsTaken(k, l) \/ (k = at[i] /\ l \in Incoming(Call(i), i, step[i]))
  <2>1. CASE l.to = i
    BY <1>1, <1>2, <1>3, <1>4, <2>1 DEF IsTaken, Incoming
  <2>2. CASE l.to # i
    <3>1. step'[l.to] = step[l.to]
      BY <1>1, <1>2, <2>2 DEF Others
    <3> QED BY <1>1, <2>2, <3>1 DEF IsTaken, Incoming
  <2> QED BY <2>1, <2>2
<1> QED BY <1>5, <1>6

LEMMA ReturnsPasses ==
    ASSUME Places, NEW c, NEW b, Counting(c, b), NEW i \in Parties, Running(i), Returns(i)
    PROVE  Passes(i)
<1>1. step'[i] = 0 /\ at'[i] = at[i] + 1 /\ Others(i) /\ plan' = plan
  BY ReturnsKeepsCount
<1>0. Ended(i)
  BY DEF Returns
<1> SUFFICES ASSUME NEW k \in 1..Len(Script), NEW l \in Letters(Script[k])
             PROVE  /\ IsSent(k, l)' <=> IsSent(k, l) \/ (k = at[i] /\ l \in Outgoing(Call(i), i, step[i]))
                    /\ IsTaken(k, l)' <=> IsTaken(k, l) \/ (k = at[i] /\ l \in Incoming(Call(i), i, step[i]))
  BY DEF Passes
<1>2. l.from \in Parties /\ l.to \in Parties /\ l.sent \in 0..1 /\ l.taken \in 1..3 /\ l.from # l.to
  BY LettersProper
<1>3. at[i] = k => Call(i) = Script[k] /\ (l.to = i => l.taken <= step[i]) /\ (l.from = i => l.sent <= step[i])
  BY <1>0 DEF Call, Ended
<1>4. step[i] \in 0..3 /\ at[i] \in Nat /\ k \in Nat
  BY Scripts DEF Places
<1>5. IsSent(k, l)' <=> IsSent(k, l) \/ (k = at[i] /\ l \in Outgoing(Call(i), i, step[i]))
  <2>1. CASE l.from = i
    BY <1>1, <1>2, <1>3, <1>4, <2>1 DEF IsSent, Outgoing
  <2>2. CASE l.from # i
    <3>1. step'[l.from] = step[l.from] /\ at'[l.from] = at[l.from]
      BY <1>1, <1>2, <2>2 DEF Others
    <3> QED BY <1>1, <2>2, <3>1 DEF IsSent, Outgoing
  <2> QED BY <2>1, <2>2
<1>6. IsTaken(k, l)' <=> IsTaken(k, l) \/ (k = at[i] /\ l \in Incoming(Call(i), i, step[i]))
  <2>1. CASE l.to = i
    BY <1>1, <1>2, <1>3, <1>4, <2>1 DEF IsTaken, Incoming
  <2>2. CASE l.to # i
    <3>1. step'[l.to] = step[l.to] /\ at'[l.to] = at[l.to]
      BY <1>1, <1>2, <2>2 DEF Others
    <3> QED BY <1>1, <2>2, <3>1 DEF IsTaken, Incoming
  <2> QED BY <2>1, <2>2
<1> QED BY <1>5, <1>6

\* What has not been taken belongs to a call since the relay was new.
LEMMA Recent ==
    ASSUME Places, NEW c, NEW b, Counting(c, b), NEW k \in 1..Len(Script), NEW l \in Letters(Script[k]),
           ~ IsTaken(k, l)
    PROVE  k \in b..Len(Script)
<1>1. l.to \in Parties
  BY LettersProper
<1>2. at[l.to] \in Nat /\ b \in Nat /\ b <= at[l.to] /\ k \in Nat
  BY <1>1, Scripts DEF Places, Counting, Numbers, Numbered
<1>3. ~ (at[l.to] > k)
  BY DEF IsTaken
<1> QED BY <1>2, <1>3

LEMMA PassesLedger ==
    ASSUME Unwrapped, Places, NEW c, NEW b, Counting(c, b), Ledger(c), NEW i \in Parties, Running(i), Complete(i),
           Passes(i), NEW out, Posts(i, out), Exchange(i, out), plan' = plan, fail' = fail
    PROVE  Ledger(c)'
<1>0. Script' = Script
  BY SameScript
<1>1. at[i] \in 1..Len(Script) /\ Len(Script) \in Nat /\ Call(i) = Script[at[i]]
  BY AtCall, Zenon DEF Running, Call
<1>2. asked[i] = {Place(c, at[i], l) : l \in Incoming(Call(i), i, step[i])} /\ asked[i] \subseteq DOMAIN mail
  BY DEF Counting, Asking, AsksAt, Complete
<1>3. \A l \in Outgoing(Call(i), i, step[i]) : Here(i, l) = Place(c, at[i], l)
  BY <1>1, HereIsPlace DEF Outgoing
<1>4. \A a : a \in DOMAIN mail' <=> a \in DOMAIN out \/ (a \in DOMAIN mail /\ a \notin asked[i])
  BY Exchanged
<1>5. b \in Nat /\ b <= at[i] /\ plan \in DOMAIN Plans /\ Numbers(c, b) /\ at[i] \in b..Len(Script)
  BY <1>1 DEF Counting, Numbers, Numbered, Places
<1>6. \A k, l : Place(c, k, l)' = Place(c, k, l)
  BY DEF Place
<1>7. Posted(c)'
  <2> SUFFICES ASSUME NEW a \in DOMAIN mail'
               PROVE  \E k \in 1..Len(Script) : \E l \in Letters(Script[k]) :
                         a = Place(c, k, l) /\ IsSent(k, l)' /\ ~ IsTaken(k, l)'
    BY <1>0, <1>6 DEF Posted
  <2>1. CASE a \in DOMAIN out
    <3>0. PICK k \in 1..Len(Script) : k = at[i]
      BY <1>1
    <3>1. PICK l \in Outgoing(Call(i), i, step[i]) : a = Place(c, at[i], l)
      BY <1>3, <2>1 DEF Posts
    <3>2. /\ l \in Letters(Script[k]) /\ l.from = i /\ l.sent = step[i] /\ l.to # i
          /\ k = at[i] /\ l \in Outgoing(Call(i), i, step[i])
      BY <1>1, <3>0, <3>1, LettersProper DEF Outgoing
    <3>3. IsSent(k, l)'
      BY <3>2, Zenon DEF Passes
    <3>4. ~ IsSent(k, l)
      <4>1. step[i] \in 0..3 /\ at[i] \in Nat
        BY <1>1 DEF Places
      <4> QED BY <3>2, <4>1 DEF IsSent
    <3>5. ~ IsTaken(k, l)
      BY <3>2, <3>4, Zenon DEF Ledger, Caused
    <3>6. ~ IsTaken(k, l)'
      <4>1. l \notin Incoming(Call(i), i, step[i])
        BY <3>2 DEF Incoming
      <4> QED BY <3>2, <3>5, <4>1, Zenon DEF Passes
    <3>7. a = Place(c, k, l)
      BY <3>0, <3>1
    <3> QED BY <3>2, <3>3, <3>6, <3>7, Zenon
  <2>2. CASE a \notin DOMAIN out
    <3>1. a \in DOMAIN mail /\ a \notin asked[i]
      BY <1>4, <2>2
    <3>2. PICK k \in 1..Len(Script) : \E l \in Letters(Script[k]) : a = Place(c, k, l) /\ IsSent(k, l) /\ ~ IsTaken(k, l)
      BY <3>1 DEF Ledger, Posted
    <3>3. PICK l \in Letters(Script[k]) : a = Place(c, k, l) /\ IsSent(k, l) /\ ~ IsTaken(k, l)
      BY <3>2
    <3>4. IsSent(k, l)'
      BY <3>3 DEF Passes
    <3>5. ~ (k = at[i] /\ l \in Incoming(Call(i), i, step[i]))
      BY <1>2, <3>1, <3>3
    <3>6. ~ IsTaken(k, l)'
      BY <3>3, <3>5 DEF Passes
    <3> QED BY <3>3, <3>4, <3>6
  <2> QED BY <2>1, <2>2
<1>8. Kept(c)'
  <2> SUFFICES ASSUME NEW k \in 1..Len(Script), NEW l \in Letters(Script[k]),
                      IsSent(k, l)', ~ IsTaken(k, l)', fail[l.to] = ""
               PROVE  Place(c, k, l) \in DOMAIN mail'
    BY <1>0, <1>6, Zenon DEF Kept
  <2>1. CASE k = at[i] /\ l \in Outgoing(Call(i), i, step[i])
    BY <1>3, <1>4, <2>1, Zenon DEF Posts
  <2>2. CASE ~ (k = at[i] /\ l \in Outgoing(Call(i), i, step[i]))
    <3>1. IsSent(k, l) /\ ~ IsTaken(k, l) /\ ~ (k = at[i] /\ l \in Incoming(Call(i), i, step[i]))
      BY <2>2, Zenon DEF Passes
    <3>2. Place(c, k, l) \in DOMAIN mail
      BY <3>1, Zenon DEF Ledger, Kept
    <3>3. Place(c, k, l) \notin asked[i]
      <4> SUFFICES ASSUME Place(c, k, l) \in asked[i] PROVE FALSE
        BY Zenon
      <4>0. PICK m \in b..Len(Script) : m = at[i]
        BY <1>5, Zenon
      <4>1. PICK n \in Incoming(Call(i), i, step[i]) : Place(c, k, l) = Place(c, m, n)
        BY <1>2, <4>0, Zenon
      <4>2. k \in b..Len(Script)
        BY <3>1, Recent, Zenon
      <4>3. n \in Letters(Script[m])
        BY <1>1, <4>0, <4>1, Zenon DEF Incoming
      <4>4. k = m /\ l = n
        BY <1>5, <4>1, <4>2, <4>3, Apart, ZenonT(40)
      <4> QED BY <3>1, <4>0, <4>1, <4>4, Zenon
    <3> QED BY <1>4, <3>2, <3>3, Zenon
  <2> QED BY <2>1, <2>2, Zenon
<1>9. Caused'
  <2> SUFFICES ASSUME NEW k \in 1..Len(Script), NEW l \in Letters(Script[k]), IsTaken(k, l)'
               PROVE  IsSent(k, l)'
    BY <1>0 DEF Caused
  <2>1. CASE IsTaken(k, l)
    BY <2>1 DEF Ledger, Caused, Passes
  <2>2. CASE ~ IsTaken(k, l)
    <3>1. k = at[i] /\ l \in Incoming(Call(i), i, step[i])
      BY <2>2 DEF Passes
    <3>2. Place(c, k, l) \in DOMAIN mail
      BY <1>2, <3>1
    <3>3. PICK m \in 1..Len(Script) :
            \E n \in Letters(Script[m]) : Place(c, k, l) = Place(c, m, n) /\ IsSent(m, n) /\ ~ IsTaken(m, n)
      BY <3>2 DEF Ledger, Posted
    <3>4. PICK n \in Letters(Script[m]) : Place(c, k, l) = Place(c, m, n) /\ IsSent(m, n) /\ ~ IsTaken(m, n)
      BY <3>3
    <3>5. m \in b..Len(Script) /\ k \in b..Len(Script)
      BY <1>5, <3>1, <3>4, Recent
    <3>6. k = m /\ l = n
      BY <1>5, <3>4, <3>5, Apart
    <3> QED BY <3>4, <3>6 DEF Passes
  <2> QED BY <2>1, <2>2
<1> QED BY <1>7, <1>8, <1>9 DEF Ledger

\* What only takes letters out that a failing party asked for.
LEMMA FailsLedger ==
    ASSUME Places, NEW c, NEW b, Counting(c, b), Ledger(c), NEW i \in Parties,
           plan' = plan, at' = at, step' = step, fail'[i] # "", Others(i),
           \A a : a \in DOMAIN mail' => a \in DOMAIN mail,
           \A a : a \in DOMAIN mail /\ a \notin asked[i] => a \in DOMAIN mail'
    PROVE  Ledger(c)'
<1>0. Script' = Script
  BY SameScript, Zenon
<1>1. \A k, l : /\ Place(c, k, l)' = Place(c, k, l)
                /\ IsSent(k, l)' <=> IsSent(k, l)
                /\ IsTaken(k, l)' <=> IsTaken(k, l)
  BY Zenon DEF Place, IsSent, IsTaken
<1>2. Posted(c)'
  BY <1>0, <1>1, Zenon DEF Ledger, Posted
<1>3. Caused'
  BY <1>0, <1>1, Zenon DEF Ledger, Caused
<1>4. Kept(c)'
  <2> SUFFICES ASSUME NEW k \in 1..Len(Script), NEW l \in Letters(Script[k]),
                      IsSent(k, l), ~ IsTaken(k, l), fail'[l.to] = ""
               PROVE  Place(c, k, l) \in DOMAIN mail'
    BY <1>0, <1>1, Zenon DEF Kept
  <2>1. l.to \in Parties /\ l.to # i
    BY LettersProper, Zenon
  <2>2. Place(c, k, l) \in DOMAIN mail
    BY <2>1, Zenon DEF Others, Ledger, Kept
  <2>3. Place(c, k, l) \notin asked[i]
    <3>1. ASSUME NEW a \in asked[i] PROVE a[2] = i
      <4>1. asked[i] = {} \/ asked[i] = {Place(c, at[i], n) : n \in Incoming(Call(i), i, step[i])}
        BY Zenon DEF Counting, Asking, AsksAt
      <4>2. PICK n \in Incoming(Call(i), i, step[i]) : a = Place(c, at[i], n)
        BY <4>1, Zenon
      <4> QED BY <4>2, Zenon DEF Place, Incoming
    <3>2. Place(c, k, l)[2] = l.to
      BY Zenon DEF Place
    <3> QED BY <2>1, <3>1, <3>2, Zenon
  <2> QED BY <2>2, <2>3, Zenon
<1> QED BY <1>2, <1>3, <1>4, Zenon DEF Ledger

-----------------------------------------------------------------------------
(* The relay and the tags together.                                        *)

LEMMA PlacesAre ==
    ASSUME Places
    PROVE  /\ plan \in DOMAIN Plans /\ Len(Script) \in Nat
           /\ \A k \in 1..Len(Script) : Legal(Script[k])
           /\ \A j \in Parties : /\ at[j] \in Nat /\ 1 <= at[j] /\ at[j] <= Len(Script) + 1
                                /\ step[j] \in 0..3
<1>1. plan \in DOMAIN Plans /\ at \in [Parties -> 1..(Len(Script) + 1)] /\ step \in [Parties -> 0..3]
  BY DEF Places
<1>2. Len(Script) \in Nat /\ \A k \in 1..Len(Script) : Legal(Script[k])
  BY <1>1, Scripts
<1> QED BY <1>1, <1>2

\* The tags count the calls and the relay holds the letters that are on their way.
Relayed == Types /\ \E c, b : Counting(c, b) /\ Ledger(c)

LEMMA RelayedInit == Init => Relayed
<1> SUFFICES ASSUME Init PROVE Relayed
  OBVIOUS
<1>1. Types
  BY TypesInit
<1>2. PICK c, b : Counting(c, b)
  BY <1>1 DEF Types
<1>3. at = [i \in Parties |-> 1] /\ step = [i \in Parties |-> 0] /\ mail = <<>>
  BY Zenon DEF Init, RelayInit
<1>4. ASSUME NEW k \in 1..Len(Script), NEW l \in Letters(Script[k]) PROVE ~ IsSent(k, l) /\ ~ IsTaken(k, l)
  <2>1. l.from \in Parties /\ l.to \in Parties /\ l.sent \in 0..1 /\ l.taken \in 1..3
    BY <1>1, LettersProper DEF Types
  <2>2. at[l.from] = 1 /\ at[l.to] = 1 /\ step[l.from] = 0 /\ step[l.to] = 0
    BY <1>3, <2>1
  <2>3. ~ (1 > k)
    <3>1. Len(Script) \in Nat
      BY <1>1, Scripts DEF Types, Places
    <3> QED BY <3>1
  <2> QED BY <2>1, <2>2, <2>3 DEF IsSent, IsTaken
<1>5. DOMAIN mail = {}
  <2>1. DOMAIN <<>> = {}
    OBVIOUS
  <2> QED BY <1>3, <2>1, Zenon
<1>6. Ledger(c)
  BY <1>4, <1>5, Zenon DEF Ledger, Posted, Kept, Caused
<1> QED BY <1>1, <1>2, <1>6 DEF Relayed

LEMMA ThrowAlone ==
    ASSUME Places, NEW i \in Parties, NEW error, Throw(i, error)
    PROVE  Others(i) /\ step' = step /\ fail'[i] = error
<1>1. /\ at' = at /\ fail' = [fail EXCEPT ![i] = error]
      /\ counter' = counter /\ step' = step /\ asked' = [asked EXCEPT ![i] = {}]
  BY DEF Throw, AsksFor, hosts, own
<1> QED BY <1>1 DEF Places, Others

LEMMA StepLedger ==
    ASSUME Unwrapped, Places, NEW c, NEW b, Counting(c, b), Ledger(c), NEW i \in Parties, Moves(i)
    PROVE  Counting(c, b)' /\ Ledger(c)'
<1>1. Running(i) /\ Complete(i)
  BY DEF Moves
<1>2. CASE Awaits(i)
  <2>1. Counting(c, b)' /\ plan' = plan /\ fail' = fail
    BY <1>1, <1>2, AwaitsKeepsCount
  <2>2. PICK out, keep : Posts(i, out) /\ Await(i, out, Wanted(i, step[i] + 1), keep)
    BY <1>2 DEF Awaits
  <2>3. Exchange(i, out)
    BY <2>2 DEF Await
  <2>4. Passes(i)
    BY <1>1, <1>2, AwaitsPasses
  <2> QED BY <1>1, <2>1, <2>2, <2>3, <2>4, PassesLedger
<1>3. CASE Returns(i)
  <2>1. Counting(c, b)' /\ plan' = plan /\ fail' = fail
    BY <1>1, <1>3, ReturnsKeepsCount
  <2>2. PICK out, value : Posts(i, out) /\ Return(i, out, TagsOf(Call(i)), value)
    BY <1>3 DEF Returns
  <2>3. Exchange(i, out)
    BY <2>2 DEF Return
  <2>4. Passes(i)
    BY <1>1, <1>3, ReturnsPasses
  <2> QED BY <1>1, <2>1, <2>2, <2>3, <2>4, PassesLedger
<1>4. CASE Throws(i)
  <2>1. PICK error \in Errors : Throw(i, error)
    BY <1>4 DEF Throws
  <2>2. error # "" /\ error # "stopped"
    BY NotStopped, Zenon
  <2>3. Counting(c, b)' /\ plan' = plan /\ at' = at
    BY <1>1, <2>1, <2>2, ThrowKeepsCount, Zenon
  <2>6. Others(i) /\ step' = step /\ fail'[i] = error
    BY <1>1, <2>1, ThrowAlone
  <2>4. Exchange(i, <<>>) /\ DOMAIN <<>> = {}
    BY <2>1 DEF Throw
  <2>5. \A a : a \in DOMAIN mail' <=> a \in DOMAIN mail /\ a \notin asked[i]
    BY <2>4, Exchanged
  <2> QED BY <1>1, <2>2, <2>3, <2>5, <2>6, FailsLedger, Zenon
<1> QED BY <1>2, <1>3, <1>4 DEF Moves

LEMMA ThrowLedger ==
    ASSUME Places, NEW c, NEW b, Counting(c, b), Ledger(c), NEW i \in Parties, Running(i), Throws(i)
    PROVE  Counting(c, b)' /\ Ledger(c)'
<1>1. PICK error \in Errors : Throw(i, error)
  BY DEF Throws
<1>2. error # "" /\ error # "stopped"
  BY NotStopped, Zenon
<1>3. Counting(c, b)' /\ plan' = plan /\ at' = at
  BY <1>1, <1>2, ThrowKeepsCount, Zenon
<1>6. Others(i) /\ step' = step /\ fail'[i] = error
  BY <1>1, ThrowAlone
<1>4. Exchange(i, <<>>) /\ DOMAIN <<>> = {}
  BY <1>1 DEF Throw
<1>5. \A a : a \in DOMAIN mail' <=> a \in DOMAIN mail /\ a \notin asked[i]
  BY <1>4, Exchanged
<1> QED BY <1>2, <1>3, <1>5, <1>6, FailsLedger, Zenon

LEMMA AbortLedger ==
    ASSUME Places, NEW c, NEW b, Counting(c, b), Ledger(c), NEW i \in Parties, HostAborts(i)
    PROVE  Counting(c, b)' /\ Ledger(c)'
<1>1. Counting(c, b)' /\ Others(i) /\ plan' = plan /\ step' = step /\ at' = at /\ fail'[i] = "stopped"
  BY AbortKeepsCount
<1>2. mail' = mail /\ "stopped" # ""
  BY DEF HostAborts
<1> QED BY <1>1, <1>2, FailsLedger, Zenon

LEMMA RetryLedger ==
    ASSUME Places, Retry, NEW c PROVE Ledger(c)'
<1>1. PICK f : f = Finished
  OBVIOUS
<1>2. /\ f \in 0..Len(Script)
      /\ \A i \in Parties : at'[i] = f + 1 /\ step'[i] = 0
  BY <1>1, RetryCounts, Zenon
<1>3. plan' = plan /\ mail' = <<>>
  BY Zenon DEF Retry, hosts
<1>4. Script' = Script /\ Len(Script) \in Nat
  BY <1>3, SameScript, Scripts DEF Places
<1>5. DOMAIN mail' = {}
  <2>1. DOMAIN <<>> = {}
    OBVIOUS
  <2> QED BY <1>3, <2>1, Zenon
<1>6. ASSUME NEW k \in 1..Len(Script), NEW l \in Letters(Script[k])
      PROVE  /\ IsSent(k, l)' <=> k <= f
             /\ IsTaken(k, l)' <=> k <= f
  <2>1. l.from \in Parties /\ l.to \in Parties /\ l.sent \in 0..1 /\ l.taken \in 1..3
    BY LettersProper
  <2>2. at'[l.from] = f + 1 /\ at'[l.to] = f + 1 /\ step'[l.from] = 0 /\ step'[l.to] = 0
    BY <1>2, <2>1
  <2>3. f \in Nat /\ k \in Nat
    BY <1>2, <1>4
  <2> QED BY <2>1, <2>2, <2>3 DEF IsSent, IsTaken
<1> QED BY <1>4, <1>5, <1>6, Zenon DEF Ledger, Posted, Kept, Caused

LEMMA StutterLedger ==
    ASSUME NEW c, Ledger(c), UNCHANGED vars PROVE Ledger(c)'
<1>1. mail' = mail /\ plan' = plan /\ at' = at /\ step' = step /\ fail' = fail
  BY DEF vars, relayvars, hosts, own
<1>2. Script' = Script
  BY <1>1, SameScript
<1>3. \A k, l : /\ Place(c, k, l)' = Place(c, k, l)
                /\ IsSent(k, l)' <=> IsSent(k, l)
                /\ IsTaken(k, l)' <=> IsTaken(k, l)
  BY <1>1 DEF Place, IsSent, IsTaken
<1> QED BY <1>1, <1>2, <1>3, Zenon DEF Ledger, Posted, Kept, Caused

LEMMA StutterCounted ==
    ASSUME NEW c, NEW b, Counting(c, b), UNCHANGED vars PROVE Counting(c, b)'
<1>1. counter' = counter /\ asked' = asked /\ plan' = plan /\ at' = at /\ step' = step /\ fail' = fail
  BY DEF vars, relayvars, hosts, own
<1>2. PICK i \in Parties : Others(i)
  <2>1. 0 \in Parties
    BY DEF Parties
  <2> QED BY <1>1, <2>1 DEF Others
<1>3. b <= at[i] /\ counter[i] = c[at[i]] % CounterMod /\ AsksAt(c, i)
  BY DEF Counting, Numbered, Asking
<1>4. AsksAt(c, i)'
  <2>1. Script' = Script /\ Call(i)' = Call(i) /\ (Running(i)' <=> Running(i))
    BY <1>1, SameScript DEF Running
  <2> QED BY <1>1, <1>3, <2>1 DEF AsksAt, Place, Incoming
<1> QED BY <1>1, <1>2, <1>3, <1>4, OneCounted

LEMMA RelayedNext ==
    ASSUME Unwrapped PROVE Relayed /\ [Next]_vars => Relayed'
<1> SUFFICES ASSUME Relayed, [Next]_vars PROVE Relayed'
  OBVIOUS
<1>1. Types' /\ Types /\ Places
  BY TypesNext DEF Relayed, Types
<1>2. PICK c, b : Counting(c, b) /\ Ledger(c)
  BY DEF Relayed
<1>3. CASE \E i \in Parties : Step(i)
  BY <1>1, <1>2, <1>3, StepMoves, StepLedger DEF Relayed
<1>4. CASE \E i \in Parties : Running(i) /\ Throws(i) /\ UNCHANGED yao
  BY <1>1, <1>2, <1>4, ThrowLedger DEF Relayed
<1>5. CASE \E i \in Parties : HostAborts(i)
  BY <1>1, <1>2, <1>5, AbortLedger DEF Relayed
<1>6. CASE Retry
  BY <1>1, <1>6, RetryCounts, RetryLedger, Zenon DEF Relayed
<1>7. CASE UNCHANGED vars
  BY <1>1, <1>2, <1>7, StutterCounted, StutterLedger DEF Relayed
<1> QED BY <1>3, <1>4, <1>5, <1>6, <1>7, NextCases

LEMMA RelayedHolds == ASSUME Unwrapped PROVE Spec => []Relayed
<1>1. Relayed /\ [Next]_vars => Relayed'
  BY RelayedNext
<1> QED BY <1>1, RelayedInit, PTL DEF Spec

LEMMA RelayedUnread == Relayed => NothingUnread
<1> SUFFICES ASSUME Relayed, \A i \in Parties : at[i] > Len(Script), NEW a \in DOMAIN mail PROVE FALSE
  BY DEF NothingUnread
<1>1. PICK c, b : Counting(c, b) /\ Ledger(c)
  BY DEF Relayed
<1>2. PICK k \in 1..Len(Script) : \E l \in Letters(Script[k]) : ~ IsTaken(k, l)
  BY <1>1 DEF Ledger, Posted
<1>3. PICK l \in Letters(Script[k]) : ~ IsTaken(k, l)
  BY <1>2
<1>4. Places
  BY DEF Relayed, Types
<1>5. l.to \in Parties
  BY <1>4, LettersProper
<1>6. at[l.to] > Len(Script) /\ Len(Script) \in Nat /\ at[l.to] \in Nat
  BY <1>4, <1>5, Scripts DEF Places
<1> QED BY <1>3, <1>6 DEF IsTaken

-----------------------------------------------------------------------------
(* Nobody waits in a circle.                                               *)

AllWait == \A j \in Parties : fail[j] = "" /\ (Running(j) => ~ Complete(j))

\* No party is at an earlier call than k, and i is there.
First(i, k) == k \in 1..Len(Script) /\ at[i] = k /\ \A j \in Parties : k <= at[j]

\* Letter l of call k keeps a party waiting; its sender has passed one await.
Lacks(i, k, l) ==
    /\ l \in Letters(Script[k]) /\ l.to = i /\ l.taken = step[i] /\ l.from \in Parties
    /\ at[l.from] = k /\ step[l.from] = 1 /\ l.sent = 1

\* A party that waits at the first call not all have finished waits for a
\* letter whose sender is at the same call and waits too, after an await.
LEMMA WaitsFor ==
    ASSUME Places, NEW c, NEW b, Counting(c, b), Ledger(c), AllWait, NEW i \in Parties, NEW k, First(i, k)
    PROVE  \E l : Lacks(i, k, l)
<1>0. k \in 1..Len(Script) /\ at[i] = k
  BY DEF First
<1>1. Len(Script) \in Nat /\ k \in Nat /\ k <= Len(Script) /\ Legal(Script[k]) /\ step[i] \in 0..3
  BY <1>0, PlacesAre
<1>2. ASSUME NEW j \in Parties, at[j] = k
      PROVE  /\ Running(j) /\ ~ Complete(j) /\ step[j] # 0
             /\ asked[j] = {Place(c, k, l) : l \in Incoming(Script[k], j, step[j])}
  <2>1. Running(j) /\ Call(j) = Script[k] /\ ~ Complete(j)
    BY <1>1, <1>2, Zenon DEF Running, Call, AllWait
  <2>2. asked[j] = {Place(c, k, l) : l \in Incoming(Script[k], j, step[j])}
    BY <1>2, <2>1 DEF Counting, Asking, AsksAt
  <2>3. Incoming(Script[k], j, 0) = {}
    BY <1>1, NothingAtFirst
  <2>4. asked[j] # {}
    BY <2>1 DEF Complete
  <2> QED BY <2>1, <2>2, <2>3, <2>4
<1>3. PICK l \in Incoming(Script[k], i, step[i]) : Place(c, k, l) \notin DOMAIN mail
  BY <1>0, <1>2 DEF Complete
<1>4. l \in Letters(Script[k]) /\ l.to = i /\ l.taken = step[i]
  BY <1>3 DEF Incoming
<1>5. l.from \in Parties /\ l.sent \in 0..1
  BY <1>0, <1>4, LettersProper
<1>6. ~ IsTaken(k, l)
  <2>1. ~ (k > k) /\ ~ (step[i] > step[i])
    BY <1>1
  <2> QED BY <1>0, <1>4, <2>1 DEF IsTaken
<1>7. ~ IsSent(k, l)
  <2>1. fail[l.to] = ""
    BY <1>4, Zenon DEF AllWait
  <2> QED BY <1>0, <1>3, <1>4, <1>6, <2>1, Zenon DEF Ledger, Kept
<1>8. at[l.from] = k /\ step[l.from] <= l.sent
  <2>1. at[l.from] \in Nat /\ step[l.from] \in 0..3 /\ k <= at[l.from]
    BY <1>5, PlacesAre DEF First
  <2>2. ~ (at[l.from] > k) /\ ~ (at[l.from] = k /\ step[l.from] > l.sent)
    BY <1>7, Zenon DEF IsSent
  <2> QED BY <1>1, <1>5, <2>1, <2>2
<1>9. step[l.from] # 0 /\ step[l.from] \in 0..3
  BY <1>2, <1>5, <1>8, PlacesAre
<1>10. step[l.from] = 1 /\ l.sent = 1
  BY <1>5, <1>8, <1>9
<1> QED BY <1>4, <1>5, <1>8, <1>10 DEF Lacks

LEMMA NoCircle ==
    ASSUME Places, NEW c, NEW b, Counting(c, b), Ledger(c), AllWait, NEW i \in Parties, Running(i)
    PROVE  FALSE
<1>1. PICK j \in Parties : \A m \in Parties : at[j] <= at[m]
  <2>1. at \in [Parties -> 1..(Len(Script) + 1)]
    BY DEF Places
  <2>2. PICK N \in Nat : N = Len(Script) + 1
    BY PlacesAre
  <2>3. at \in [Parties -> 1..N]
    BY <2>1, <2>2, Zenon
  <2> QED BY <2>3, Least
<1>2. PICK k : k = at[j]
  OBVIOUS
<1>3. First(j, k)
  <2>1. at[j] <= at[i] /\ at[i] <= Len(Script)
    BY <1>1, Zenon DEF Running
  <2>2. Len(Script) \in Nat /\ at[j] \in Nat /\ at[i] \in Nat /\ 1 <= at[j]
    BY PlacesAre
  <2>3. k \in 1..Len(Script)
    BY <1>2, <2>1, <2>2
  <2> QED BY <1>1, <1>2, <2>3, Zenon DEF First
<1>4. PICK l : Lacks(j, k, l)
  BY <1>3, WaitsFor
<1>5. PICK m \in Parties : m = l.from /\ at[m] = k /\ step[m] = 1
  BY <1>4 DEF Lacks
<1>6. First(m, k)
  BY <1>3, <1>5, Zenon DEF First
<1>7. PICK n : Lacks(m, k, n)
  BY <1>6, WaitsFor
<1>8. Prompt(Script[k])
  <2>1. Legal(Script[k])
    BY <1>3, PlacesAre DEF First
  <2> QED BY <2>1, LetterTables
<1>9. l \in Letters(Script[k]) /\ n \in Letters(Script[k]) /\ l.sent = 1 /\ n.to = l.from /\ n.taken = 1 /\ n.sent = 1
  BY <1>4, <1>5, <1>7 DEF Lacks
<1>10. n.sent = 0
  BY <1>8, <1>9, Zenon DEF Prompt
<1> QED BY <1>9, <1>10

LEMMA StillRunning ==
    ASSUME Places, NEW i \in Parties, ~ Stopped(i)
    PROVE  Running(i) /\ fail[i] = ""
<1>1. fail[i] = "" /\ ~ (at[i] > Len(Script))
  BY Zenon DEF Stopped
<1>2. PICK a \in Nat, n \in Nat : a = at[i] /\ n = Len(Script)
  <2>1. at[i] \in Nat /\ Len(Script) \in Nat
    BY PlacesAre
  <2> QED BY <2>1
<1>3. ~ (a > n)
  BY <1>1, <1>2, Zenon
<1>4. a <= n
  BY <1>3
<1>5. at[i] <= Len(Script)
  BY <1>2, <1>4, Zenon
<1> QED BY <1>1, <1>5, Zenon DEF Running

LEMMA RelayedWaits == Relayed => WaitsEnd
<1> SUFFICES ASSUME Relayed, \A i \in Parties : Running(i) => ~ Complete(i) /\ ~ SeesAbort(i),
                    NEW i \in Parties, ~ Stopped(i),
                    \A j \in Parties : ~ (fail[j] # "" /\ (fail[j] = "stopped" => i \notin AskAbort))
             PROVE  FALSE
  BY Zenon DEF WaitsEnd
<1>1. PICK c, b : Counting(c, b) /\ Ledger(c)
  BY Zenon DEF Relayed
<1>2. Places /\ Failures
  BY Zenon DEF Relayed, Types
<1>3. Running(i) /\ fail[i] = ""
  BY <1>2, StillRunning, Zenon
<1>4. CASE \A j \in Parties : fail[j] = ""
  <2>1. AllWait
    BY <1>4, Zenon DEF AllWait
  <2> QED BY <1>1, <1>2, <1>3, <2>1, NoCircle, Zenon
<1>5. CASE \E j \in Parties : fail[j] # ""
  <2>1. PICK j \in Parties : fail[j] = "stopped" /\ i \in AskAbort
    BY <1>5, Zenon
  <2>2. j \in aborted /\ j # i
    BY <1>2, <1>3, <2>1, Zenon DEF Failures
  <2>3. asked[i] # {}
    BY <1>3, Zenon DEF Complete
  <2>4. SeesAbort(i)
    BY <2>1, <2>2, <2>3, Zenon DEF SeesAbort
  <2> QED BY <1>3, <2>4, Zenon
<1> QED BY <1>4, <1>5, Zenon

\* When all parties have come to the end of their script, the relay is empty:
\* each letter a call sends was awaited by the party it went to, whatever was
\* lost, aborted and started over before.
THEOREM EveryLetterRead == ASSUME Unwrapped PROVE Spec => []NothingUnread
<1>1. Spec => []Relayed
  BY RelayedHolds
<1> QED BY <1>1, RelayedUnread, PTL

\* The awaits of the protocols never form a circle, however far the parties
\* drift apart: a party that waits for ever waits for one that failed.
THEOREM NoCircularWait == ASSUME Unwrapped PROVE Spec => []WaitsEnd
<1>1. Spec => []Relayed
  BY RelayedHolds
<1> QED BY <1>1, RelayedWaits, PTL

-----------------------------------------------------------------------------
(* The streams of the garblers.                                            *)

\* Scripts of these protocols alone: a party brings bits from outside and not
\* from its values, and both garblers bring equally many.
PlainPlans ==
    \A p \in DOMAIN Plans :
        /\ \A k \in DOMAIN Plans[p].calls :
             LET call == Plans[p].calls[k] IN
             /\ "mine" \notin DOMAIN call
             /\ call.op \in {"binary_to_yao", "batch_binary_to_yao", "yao_to_binary", "batch_yao_to_binary"} =>
                  call.args \in Seq({call.args[n] : n \in DOMAIN call.args})
        /\ \A bits \in Plans[p].givens : \A k \in DOMAIN Plans[p].calls : Len(bits[0][k]) = Len(bits[1][k])

Extra(s, n) == [s EXCEPT !.pos = @ + n]

\* The setup garblers have after call k, when they began it with s.
After(k, s) ==
    LET call == Script[k]
        n    == Len(given[0][k])
    IN  CASE call.op \in {"input_yao", "batch_input_yao"} -> Extra(s, n)
          [] call.op = "input_from" -> Extra(s, IF call.pid # 2 THEN 4 ELSE 6)
          [] call.op = "input_from_all" -> Extra(Extra(s, 8 * n), 6 * n)
          [] call.op \in {"circuit_eval", "map_circuit_eval"} -> Extra(s, Upto(call, Rounds(call)).draws)
          [] call.op \in {"binary_to_yao", "batch_binary_to_yao"} -> Extra(s, 7 * Len(call.args))
          [] call.op \in {"yao_to_binary", "batch_yao_to_binary"} -> Extra(s, 2 * Len(call.args))
          [] OTHER -> s

\* The setup garbler i has where it is in its call, when it began it with s.
Midway(i, s) ==
    CASE Call(i).op = "input_from_all" /\ step[i] # 0 -> Extra(s, 8 * Len(given[0][at[i]]))
      [] Call(i).op \in {"yao_to_binary", "batch_yao_to_binary"} /\ i = 1 /\ step[i] > 1 ->
           Extra(s, 2 * Len(Call(i).args))
      [] OTHER -> s

\* A party passes as many awaits as its call has.
Waited == \A i \in Parties : at[i] <= Len(Script) /\ step[i] # 0 => Incoming(Call(i), i, step[i]) # {}

LEMMA EqualDraws ==
    ASSUME PlainPlans, Places, NEW i \in {0, 1}, Running(i)
    PROVE  /\ Len(Mine(i)) = Len(given[0][at[i]])
           /\ Call(i).op \in {"binary_to_yao", "batch_binary_to_yao", "yao_to_binary", "batch_yao_to_binary"} =>
                Len(Args(i)) = Len(Call(i).args)
<1>1. at[i] \in DOMAIN Script /\ plan \in DOMAIN Plans /\ given \in Plans[plan].givens
  <2>1. i \in Parties
    BY DEF Parties
  <2>2. at[i] \in 1..Len(Script)
    BY <2>1, AtCall, Zenon DEF Running
  <2> QED BY <2>2, Scripts DEF Places
<1>2. Len(given[0][at[i]]) = Len(given[1][at[i]]) /\ "mine" \notin DOMAIN Call(i)
  BY <1>1 DEF PlainPlans, Script, Call
<1>3. Mine(i) = given[i][at[i]]
  BY <1>2 DEF Mine
<1>4. Len(Mine(i)) = Len(given[0][at[i]])
  BY <1>2, <1>3
<1>5. ASSUME Call(i).op \in {"binary_to_yao", "batch_binary_to_yao", "yao_to_binary", "batch_yao_to_binary"}
      PROVE  Len(Args(i)) = Len(Call(i).args)
  <2>1. PICK args : args = Call(i).args
    OBVIOUS
  <2>2. args \in Seq({args[n] : n \in DOMAIN args})
    BY <1>1, <1>5, <2>1 DEF PlainPlans, Script, Call
  <2>3. Len(args) \in Nat /\ DOMAIN args = 1..Len(args)
    BY <2>2
  <2>4. Args(i) = [n \in 1..Len(args) |-> Arg(i, args[n])]
    BY <2>1, <2>3 DEF Args
  <2>5. Args(i) \in Seq({Arg(i, args[n]) : n \in 1..Len(args)})
    BY <2>3, <2>4
  <2>6. DOMAIN Args(i) = 1..Len(args)
    BY <2>4
  <2> QED BY <2>1, <2>3, <2>5, <2>6
<1> QED BY <1>4, <1>5

LEMMA DrawingIs ==
    ASSUME DOMAIN yao = Parties, NEW i \in {0, 1}, IsSetup(yao[i]), Drawing(i), ~ Throws(i)
    PROVE  /\ DrawsNow(i) => yao'[i] = Extra(yao[i], Drawn(i))
           /\ ~ DrawsNow(i) => yao'[i] = yao[i]
<1>1. i \in Parties /\ Garbler(i)
  BY DEF Parties, Garbler
<1>2. CASE Drew(i, Drawn(i)) /\ DrawsNow(i)
  BY <1>1, <1>2, DrewIs DEF Extra
<1>3. CASE UNCHANGED yao /\ ~ DrawsNow(i)
  BY <1>3
<1> QED BY <1>1, <1>2, <1>3 DEF Drawing

\* The awaits of a garbler.
LEMMA GarblerAwaits ==
    ASSUME NEW i \in {0, 1}, NEW call, NEW n \in 1..4, Incoming(call, i, n) # {}
    PROVE  /\ call.op \notin {"input_yao", "batch_input_yao", "circuit_eval", "map_circuit_eval",
                              "binary_to_yao", "batch_binary_to_yao"}
           /\ call.op = "input_from" => call.pid = 2 /\ n = 1
           /\ call.op = "input_from_all" => n = 1
           /\ call.op \in {"yao_to_binary", "batch_yao_to_binary"} => i = 1 /\ n <= 2
           /\ call.op = "setup_yao" => n <= i + 1
<1>1. CASE call.op \in {"input_yao", "batch_input_yao"}
  BY <1>1, SameInputTable DEF Incoming, Letter
<1>2. CASE call.op \in {"circuit_eval", "map_circuit_eval"}
  BY <1>2, EvalTable DEF Incoming, Letter
<1>3. CASE call.op \in {"binary_to_yao", "batch_binary_to_yao"}
  BY <1>3, BinaryToYaoTable DEF Incoming, Letter
<1>4. CASE call.op = "input_from"
  BY <1>4, FromGarblerTable, FromEvaluatorTable DEF Incoming, Letter
<1>5. CASE call.op = "input_from_all"
  BY <1>5, AllTable DEF Incoming, Letter
<1>6. CASE call.op = "yao_to_binary"
  BY <1>6, ToBinaryTable DEF Incoming, Letter
<1>7. CASE call.op = "batch_yao_to_binary"
  BY <1>7, ToBinariesTable DEF Incoming, Letter
<1>8. CASE call.op = "setup_yao"
  BY <1>8, SetupTable DEF Incoming, Letter
<1> QED BY <1>1, <1>2, <1>3, <1>4, <1>5, <1>6, <1>7, <1>8

LEMMA EndedAfter ==
    ASSUME NEW i, Ended(i), NEW from, NEW tag, NEW name, NEW sent, NEW taken,
           Letter(from, i, tag, name, sent, taken) \in Letters(Call(i))
    PROVE  taken <= step[i]
<1>1. PICK l \in Letters(Call(i)) : l = Letter(from, i, tag, name, sent, taken)
  OBVIOUS
<1>2. l.to = i /\ l.taken = taken
  BY <1>1 DEF Letter
<1>3. l.taken <= step[i]
  BY <1>2 DEF Ended
<1> QED BY <1>2, <1>3

\* The awaits a garbler has passed when its call ends.
LEMMA GarblerEnds ==
    ASSUME NEW i \in {0, 1}, step[i] \in 0..3, Ended(i)
    PROVE  /\ Call(i).op = "input_from" /\ Call(i).pid = 2 => 1 <= step[i]
           /\ Call(i).op = "input_from_all" => 1 <= step[i]
           /\ Call(i).op \in {"yao_to_binary", "batch_yao_to_binary"} /\ i = 1 => 2 <= step[i]
           /\ Call(i).op = "setup_yao" /\ i = 1 => 2 <= step[i]
<1>1. ASSUME Call(i).op = "input_from" /\ Call(i).pid = 2 PROVE 1 <= step[i]
  <2>1. Letter(2, i, 1, "INPUT_YAO_FROM_FUNC_MSG1", 0, 1) \in Letters(Call(i))
    BY <1>1, FromEvaluatorTable
  <2> QED BY <2>1, EndedAfter
<1>2. ASSUME Call(i).op = "input_from_all" PROVE 1 <= step[i]
  <2>1. Letter(2, i, 1, "INPUT_YAO_FROM_ALL_MSG1", 0, 1) \in Letters(Call(i))
    BY <1>2, AllTable
  <2> QED BY <2>1, EndedAfter
<1>3. ASSUME Call(i).op \in {"yao_to_binary", "batch_yao_to_binary"}, i = 1 PROVE 2 <= step[i]
  <2>1. Letter(2, i, 3, "Y2B_FUNC_MSG3", 1, 2) \in Letters(Call(i))
    BY <1>3, ToBinaryTable, ToBinariesTable
  <2> QED BY <2>1, EndedAfter
<1>4. ASSUME Call(i).op = "setup_yao", i = 1 PROVE 2 <= step[i]
  <2>1. Letter(0, i, 2, "SETUP_YAO_FUNC_MSG2", 1, 2) \in Letters(Call(i))
    BY <1>4, SetupTable
  <2> QED BY <2>1, EndedAfter
<1> QED BY <1>1, <1>2, <1>3, <1>4

LEMMA AwaitDraws ==
    ASSUME PlainPlans, Places, NEW c, NEW b, Counting(c, b), NEW i \in {0, 1}, Running(i), IsSetup(yao[i]),
           Drawing(i), Awaits(i), ~ Throws(i), NEW s, yao[i] = Midway(i, s)
    PROVE  yao'[i] = Midway(i, s)'
<1>0. i \in Parties /\ DOMAIN yao = Parties /\ step[i] \in 0..3
  <2>1. i \in Parties
    BY DEF Parties
  <2>2. DOMAIN yao = Parties /\ step \in [Parties -> 0..3]
    BY Zenon DEF Places
  <2> QED BY <2>1, <2>2
<1>1. step'[i] = step[i] + 1 /\ at' = at /\ plan' = plan /\ step'[i] \in 1..3
  BY <1>0, AwaitsKeepsCount
<1>2. given' = given
  BY DEF Awaits, Await, hosts
<1>3. Call(i)' = Call(i)
  BY <1>1 DEF Call, Script
<1>4. Incoming(Call(i), i, step'[i]) # {}
  BY <1>1 DEF Awaits
<1>5. /\ Call(i).op \notin {"input_yao", "batch_input_yao", "circuit_eval", "map_circuit_eval",
                            "binary_to_yao", "batch_binary_to_yao"}
      /\ Call(i).op = "input_from" => Call(i).pid = 2 /\ step[i] = 0
      /\ Call(i).op = "input_from_all" => step[i] = 0
      /\ Call(i).op \in {"yao_to_binary", "batch_yao_to_binary"} => i = 1 /\ step[i] \in {0, 1}
  <2>1. PICK n \in 1..4 : n = step'[i]
    BY <1>1
  <2>2. Incoming(Call(i), i, n) # {}
    BY <1>4, <2>1
  <2>3. /\ Call(i).op \notin {"input_yao", "batch_input_yao", "circuit_eval", "map_circuit_eval",
                              "binary_to_yao", "batch_binary_to_yao"}
        /\ Call(i).op = "input_from" => Call(i).pid = 2 /\ n = 1
        /\ Call(i).op = "input_from_all" => n = 1
        /\ Call(i).op \in {"yao_to_binary", "batch_yao_to_binary"} => i = 1 /\ n <= 2
    BY <2>2, GarblerAwaits
  <2>4. n = step[i] + 1
    BY <1>1, <2>1
  <2> QED BY <1>0, <2>3, <2>4
<1>6. CASE Call(i).op = "input_from_all"
  <2>1. Midway(i, s) = s /\ Midway(i, s)' = Extra(s, 8 * Len(given[0][at[i]]))
    BY <1>1, <1>2, <1>3, <1>5, <1>6 DEF Midway
  <2>2. DrawsNow(i) /\ Drawn(i) = 8 * Len(Mine(i))
    BY <1>5, <1>6 DEF DrawsNow, Drawn
  <2>3. yao'[i] = Extra(yao[i], Drawn(i))
    BY <1>0, <2>2, DrawingIs
  <2> QED BY <2>1, <2>2, <2>3, EqualDraws
<1>7. CASE Call(i).op \in {"yao_to_binary", "batch_yao_to_binary"} /\ step[i] = 1
  <2>1. Midway(i, s) = s /\ Midway(i, s)' = Extra(s, 2 * Len(Call(i).args))
    BY <1>1, <1>2, <1>3, <1>5, <1>7 DEF Midway
  <2>2. DrawsNow(i) /\ Drawn(i) = 2 * Len(Args(i))
    BY <1>5, <1>7 DEF DrawsNow, Drawn
  <2>3. yao'[i] = Extra(yao[i], Drawn(i))
    BY <1>0, <2>2, DrawingIs
  <2> QED BY <1>7, <2>1, <2>2, <2>3, EqualDraws
<1>8. CASE Call(i).op \notin {"input_from_all", "yao_to_binary", "batch_yao_to_binary"} \/ (step[i] = 0 /\ Call(i).op # "input_from_all")
  <2>1. Midway(i, s) = s /\ Midway(i, s)' = s
    BY <1>0, <1>1, <1>2, <1>3, <1>8 DEF Midway
  <2>2. ~ DrawsNow(i)
    BY <1>5, <1>8 DEF DrawsNow
  <2>3. yao'[i] = yao[i]
    BY <1>0, <2>2, DrawingIs
  <2> QED BY <2>1, <2>3
<1> QED BY <1>5, <1>6, <1>7, <1>8

LEMMA ReturnDraws ==
    ASSUME PlainPlans, Places, Waited, NEW i \in {0, 1}, Running(i), IsSetup(yao[i]),
           Drawing(i), Returns(i), ~ Throws(i), NEW s, yao[i] = Midway(i, s)
    PROVE  yao'[i] = After(at[i], s)
<1>0. i \in Parties /\ DOMAIN yao = Parties /\ step[i] \in 0..3 /\ Call(i) = Script[at[i]] /\ Ended(i)
      /\ at[i] <= Len(Script)
  <2>1. i \in Parties
    BY DEF Parties
  <2>2. Ended(i)
    BY DEF Returns
  <2> QED BY <2>1, <2>2, Zenon DEF Places, Call, Running
<1>1. step[i] # 0 => Incoming(Call(i), i, step[i]) # {}
  BY <1>0 DEF Waited
<1>2. /\ step[i] # 0 => Call(i).op \notin {"input_yao", "batch_input_yao", "circuit_eval", "map_circuit_eval",
                            "binary_to_yao", "batch_binary_to_yao"}
      /\ Call(i).op = "input_from" /\ Call(i).pid = 2 => step[i] = 1
      /\ Call(i).op = "input_from_all" => step[i] = 1
      /\ Call(i).op \in {"yao_to_binary", "batch_yao_to_binary"} => step[i] = 2 * i
  <2>1. PICK n \in 0..3 : n = step[i]
    BY <1>0
  <2>2. n # 0 => /\ Call(i).op \notin {"input_yao", "batch_input_yao", "circuit_eval", "map_circuit_eval",
                              "binary_to_yao", "batch_binary_to_yao"}
                 /\ Call(i).op = "input_from" => Call(i).pid = 2 /\ n = 1
                 /\ Call(i).op = "input_from_all" => n = 1
                 /\ Call(i).op \in {"yao_to_binary", "batch_yao_to_binary"} => i = 1 /\ n <= 2
    BY <1>1, <2>1, GarblerAwaits
  <2>3. /\ Call(i).op = "input_from" /\ Call(i).pid = 2 => 1 <= n
        /\ Call(i).op = "input_from_all" => 1 <= n
        /\ Call(i).op \in {"yao_to_binary", "batch_yao_to_binary"} /\ i = 1 => 2 <= n
    BY <1>0, <2>1, GarblerEnds
  <2>4. /\ n # 0 => Call(i).op \notin {"input_yao", "batch_input_yao", "circuit_eval", "map_circuit_eval",
                              "binary_to_yao", "batch_binary_to_yao"}
        /\ Call(i).op = "input_from" /\ Call(i).pid = 2 => n = 1
        /\ Call(i).op = "input_from_all" => n = 1
        /\ Call(i).op \in {"yao_to_binary", "batch_yao_to_binary"} => n = 2 * i
    BY <2>2, <2>3
  <2> QED BY <2>1, <2>4
<1>3. Drawing(i) => Call(i).op # "setup_yao"
  BY DEF Drawing
<1>4. CASE Call(i).op = "input_from_all"
  <2>1. Midway(i, s) = Extra(s, 8 * Len(given[0][at[i]]))
    BY <1>2, <1>4 DEF Midway
  <2>2. After(at[i], s) = Extra(Extra(s, 8 * Len(given[0][at[i]])), 6 * Len(given[0][at[i]]))
    BY <1>0, <1>4 DEF After
  <2>3. DrawsNow(i) /\ Drawn(i) = 6 * Len(Mine(i))
    BY <1>2, <1>4 DEF DrawsNow, Drawn
  <2>4. yao'[i] = Extra(yao[i], Drawn(i))
    BY <1>0, <2>3, DrawingIs
  <2> QED BY <2>1, <2>2, <2>3, <2>4, EqualDraws
<1>5. CASE Call(i).op \in {"yao_to_binary", "batch_yao_to_binary"}
  <2>1. After(at[i], s) = Extra(s, 2 * Len(Call(i).args))
    BY <1>0, <1>5 DEF After
  <2>2. CASE i = 0
    <3>1. Midway(i, s) = s /\ DrawsNow(i) /\ Drawn(i) = 2 * Len(Args(i))
      BY <1>2, <1>5, <2>2 DEF Midway, DrawsNow, Drawn
    <3>2. yao'[i] = Extra(yao[i], Drawn(i))
      BY <1>0, <3>1, DrawingIs
    <3> QED BY <1>5, <2>1, <3>1, <3>2, EqualDraws
  <2>3. CASE i = 1
    <3>1. Midway(i, s) = Extra(s, 2 * Len(Call(i).args)) /\ ~ DrawsNow(i)
      BY <1>2, <1>5, <2>3 DEF Midway, DrawsNow
    <3>2. yao'[i] = yao[i]
      BY <1>0, <3>1, DrawingIs
    <3> QED BY <2>1, <3>1, <3>2
  <2> QED BY <2>2, <2>3
<1>6. CASE /\ Call(i).op \in {"input_yao", "batch_input_yao", "input_from", "circuit_eval", "map_circuit_eval",
                              "binary_to_yao", "batch_binary_to_yao"}
  <2>1. Midway(i, s) = s
    BY <1>6 DEF Midway
  <2>2. DrawsNow(i)
    BY <1>2, <1>6 DEF DrawsNow
  <2>3. yao'[i] = Extra(s, Drawn(i))
    BY <1>0, <2>1, <2>2, DrawingIs
  <2>4. CASE Call(i).op \in {"input_yao", "batch_input_yao"}
    BY <1>0, <2>3, <2>4, EqualDraws DEF After, Drawn
  <2>5. CASE Call(i).op = "input_from"
    BY <1>0, <2>3, <2>5 DEF After, Drawn
  <2>6. CASE Call(i).op \in {"circuit_eval", "map_circuit_eval"}
    BY <1>0, <2>3, <2>6 DEF After, Drawn
  <2>7. CASE Call(i).op \in {"binary_to_yao", "batch_binary_to_yao"}
    <3>1. Len(Args(i)) = Len(Call(i).args)
      BY <2>7, EqualDraws
    <3>2. Drawn(i) = 7 * Len(Args(i)) /\ After(at[i], s) = Extra(s, 7 * Len(Call(i).args))
      BY <1>0, <2>7 DEF After, Drawn
    <3> QED BY <2>3, <3>1, <3>2
  <2> QED BY <1>6, <2>4, <2>5, <2>6, <2>7
<1>7. CASE Call(i).op \notin {"input_yao", "batch_input_yao", "input_from", "circuit_eval", "map_circuit_eval",
                              "binary_to_yao", "batch_binary_to_yao", "input_from_all", "yao_to_binary",
                              "batch_yao_to_binary"}
  <2>1. Midway(i, s) = s /\ After(at[i], s) = s /\ ~ DrawsNow(i)
    BY <1>0, <1>7 DEF Midway, After, DrawsNow
  <2>2. yao'[i] = yao[i]
    BY <1>0, <2>1, DrawingIs
  <2> QED BY <2>1, <2>2
<1> QED BY <1>4, <1>5, <1>6, <1>7

Seed == Letter(0, 1, 2, "SETUP_YAO_FUNC_MSG2", 1, 2)

\* y[k] is the setup both garblers begin call k with, as far as one has come:
\* a garbler has it, call after call draws on it, and a new one is made of the
\* seed that is still on its way to garbler 1.
Synced(y) == \A i \in {0, 1} : fail[i] = "" => yao[i] = Midway(i, y[at[i]])

Steady(y) ==
    \A k \in 1..Len(Script) :
        Script[k].op # "setup_yao" /\ (at[0] > k \/ at[1] > k) => y[k + 1] = After(k, y[k])

Sown(c, y) ==
    \A k \in 1..Len(Script) :
        /\ Script[k].op = "setup_yao" /\ IsSent(k, Seed) /\ ~ IsTaken(k, Seed) /\ Place(c, k, Seed) \in DOMAIN mail
        => y[k + 1] = GarblerSetup(mail[Place(c, k, Seed)][1], mail[Place(c, k, Seed)][2])

Streams(c, y) == DOMAIN y = 1..(Len(Script) + 1) /\ Synced(y) /\ Steady(y) /\ Sown(c, y)

LEMMA SeedIs ==
    /\ Seed.from = 0 /\ Seed.to = 1 /\ Seed.sent = 1 /\ Seed.taken = 2 /\ Seed.name = "SETUP_YAO_FUNC_MSG2"
    /\ \A call : call.op = "setup_yao" => Seed \in Letters(call)
<1>1. \A call : call.op = "setup_yao" => Seed \in Letters(call)
  BY SetupTable DEF Seed
<1> QED BY <1>1 DEF Seed, Letter

\* Garbler 0 sends the seed as its setup ends, so garbler 1 ends it later.
LEMMA SeedSent ==
    ASSUME Places, Waited, NEW k \in 1..Len(Script), Script[k].op = "setup_yao", IsSent(k, Seed) PROVE at[0] > k
<1>1. at[0] > k \/ (at[0] = k /\ step[0] > 1)
  BY SeedIs DEF IsSent
<1>2. ASSUME at[0] = k, step[0] > 1 PROVE FALSE
  <2>1. 0 \in Parties /\ Call(0).op = "setup_yao" /\ step[0] \in 0..3 /\ at[0] <= Len(Script)
    <3>1. k <= Len(Script)
      BY Scripts DEF Places
    <3> QED BY <1>2, <3>1 DEF Parties, Places, Call
  <2>2. PICK n \in 1..4 : n = step[0] /\ n > 1
    BY <1>2, <2>1
  <2>3. Incoming(Call(0), 0, n) # {}
    BY <2>1, <2>2 DEF Waited
  <2>4. n <= 0 + 1
    BY <2>1, <2>3, GarblerAwaits
  <2> QED BY <2>2, <2>4
<1> QED BY <1>1, <1>2

LEMMA SetupTaken ==
    ASSUME Places, Waited, Caused, NEW k \in 1..Len(Script), Script[k].op = "setup_yao", at[1] > k PROVE at[0] > k
<1>1. IsTaken(k, Seed)
  BY SeedIs DEF IsTaken
<1>2. IsSent(k, Seed)
  BY <1>1, SeedIs DEF Caused
<1> QED BY <1>2, SeedSent

\* The setup a step that sends the seed makes is y's next.
Planted(c, i, z) ==
    Call(i).op = "setup_yao" /\ Seed \in Outgoing(Call(i), i, step[i]) =>
        z[at[i] + 1] = GarblerSetup(mail'[Place(c, at[i], Seed)][1], mail'[Place(c, at[i], Seed)][2])

\* z is y as far as garbler 0 has come.
Alike(y, z) == \A k \in 1..Len(Script) : at[0] > k => z[k + 1] = y[k + 1]

LEMMA SownStep ==
    ASSUME Unwrapped, Places, Waited, NEW c, NEW b, Counting(c, b), NEW i \in Parties, Running(i), Passes(i),
           NEW out, Posts(i, out), Exchange(i, out), plan' = plan,
           NEW y, NEW z, Sown(c, y), Alike(y, z), Planted(c, i, z)
    PROVE  Sown(c, z)'
<1>1. Script' = Script /\ at[i] \in b..Len(Script) /\ at[i] \in 1..Len(Script) /\ Call(i) = Script[at[i]]
  <2>1. at[i] \in 1..Len(Script) /\ Len(Script) \in Nat
    BY AtCall, Zenon DEF Running
  <2> QED BY <2>1, SameScript DEF Counting, Numbers, Numbered, Call
<1>2. SUFFICES ASSUME NEW k \in 1..Len(Script), Script[k].op = "setup_yao", IsSent(k, Seed)', ~ IsTaken(k, Seed)',
                      Place(c, k, Seed) \in DOMAIN mail'
               PROVE  z[k + 1] = GarblerSetup(mail'[Place(c, k, Seed)][1], mail'[Place(c, k, Seed)][2])
  <2>1. \A k : Place(c, k, Seed)' = Place(c, k, Seed)
    BY DEF Place, Seed, Letter
  <2> QED BY <1>1, <2>1 DEF Sown
<1>3. Seed \in Letters(Script[k]) /\ ~ IsTaken(k, Seed)
  BY <1>2, SeedIs DEF Passes
<1>4. CASE k = at[i] /\ Seed \in Outgoing(Call(i), i, step[i])
  BY <1>1, <1>2, <1>4 DEF Planted
<1>5. CASE ~ (k = at[i] /\ Seed \in Outgoing(Call(i), i, step[i]))
  <2>1. IsSent(k, Seed)
    BY <1>2, <1>3, <1>5 DEF Passes
  <2>2. Place(c, k, Seed) \notin DOMAIN out
    <3> SUFFICES ASSUME Place(c, k, Seed) \in DOMAIN out PROVE FALSE
      OBVIOUS
    <3>1. PICK l \in Outgoing(Call(i), i, step[i]) : Place(c, k, Seed) = Here(i, l)
      BY DEF Posts
    <3>2. PICK m \in b..Len(Script) : m = at[i]
      BY <1>1
    <3>3. l \in Letters(Script[m]) /\ Place(c, k, Seed) = Place(c, m, l)
      BY <1>1, <3>1, <3>2, HereIsPlace, Zenon DEF Outgoing, Running
    <3>4. k \in b..Len(Script)
      BY <1>3, Recent
    <3>5. k = m /\ Seed = l
      BY <1>3, <3>3, <3>4, Apart DEF Places, Counting
    <3> QED BY <1>5, <3>1, <3>2, <3>5
  <2>3. PICK a : a = Place(c, k, Seed)
    OBVIOUS
  <2>4. a \in DOMAIN mail /\ mail'[a] = mail[a]
    BY <1>2, <2>2, <2>3, Exchanged
  <2>5. y[k + 1] = GarblerSetup(mail[a][1], mail[a][2])
    BY <1>2, <1>3, <2>1, <2>3, <2>4 DEF Sown
  <2>6. z[k + 1] = y[k + 1]
    BY <1>2, <2>1, SeedSent DEF Alike
  <2> QED BY <2>3, <2>4, <2>5, <2>6
<1> QED BY <1>4, <1>5

\* A step that sends nothing and takes at most letters of a party that fails.
LEMMA SownStays ==
    ASSUME plan' = plan, at' = at, step' = step, NEW c, NEW y, Sown(c, y),
           \A a \in DOMAIN mail' : a \in DOMAIN mail /\ mail'[a] = mail[a]
    PROVE  Sown(c, y)'
<1>1. Script' = Script
  BY DEF Script
<1>2. \A k : /\ Place(c, k, Seed)' = Place(c, k, Seed)
             /\ IsSent(k, Seed)' <=> IsSent(k, Seed)
             /\ IsTaken(k, Seed)' <=> IsTaken(k, Seed)
  BY DEF Place, IsSent, IsTaken, Seed, Letter
<1> QED BY <1>1, <1>2 DEF Sown

\* A garbler that is where it was, in the setup it should have there.
Keeps(j, y) == at'[j] = at[j] /\ (fail'[j] = "" => fail[j] = "" /\ yao'[j] = Midway(j, y[at[j]])')

LEMMA SteadyStays ==
    ASSUME plan' = plan, given' = given, NEW y, DOMAIN y = 1..(Len(Script) + 1), Steady(y), Keeps(0, y), Keeps(1, y)
    PROVE  DOMAIN y = (1..(Len(Script) + 1))' /\ Synced(y)' /\ Steady(y)'
<1>1. Script' = Script
  BY DEF Script
<1>2. \A k, s : After(k, s)' = After(k, s)
  BY <1>1 DEF After
<1>3. Steady(y)'
  BY <1>1, <1>2, Zenon DEF Steady, Keeps
<1>4. Synced(y)'
  BY Zenon DEF Synced, Keeps
<1> QED BY <1>1, <1>3, <1>4

LEMMA MidwayStays ==
    ASSUME plan' = plan, given' = given, NEW j, at'[j] = at[j], step'[j] = step[j], NEW s
    PROVE  Midway(j, s)' = Midway(j, s)
<1>1. Call(j)' = Call(j)
  BY DEF Call, Script
<1> QED BY <1>1 DEF Midway

LEMMA OthersKeep ==
    ASSUME plan' = plan, given' = given, NEW i \in Parties, Others(i), NEW j \in {0, 1}, j # i, yao'[j] = yao[j],
           NEW y, Synced(y)
    PROVE  Keeps(j, y)
<1>1. j \in Parties /\ at'[j] = at[j] /\ step'[j] = step[j] /\ fail'[j] = fail[j]
  BY DEF Parties, Others
<1>2. fail[j] = "" => yao[j] = Midway(j, y[at[j]])
  BY Zenon DEF Synced
<1>3. PICK s : s = y[at[j]]
  OBVIOUS
<1>4. Midway(j, s)' = Midway(j, s)
  BY <1>1, MidwayStays
<1> QED BY <1>1, <1>2, <1>3, <1>4, Zenon DEF Keeps

\* z is y with the setup of garbler i after its call, unless the other one had
\* come there before.
Branch(i, y, z) ==
    /\ DOMAIN z = DOMAIN y /\ z[at[i] + 1] = yao'[i]
    /\ \A m \in DOMAIN y : m # at[i] + 1 => z[m] = y[m]
    /\ at[1 - i] > at[i] => z = y

LEMMA BranchExists ==
    ASSUME NEW i, NEW y, at[i] + 1 \in DOMAIN y, at[1 - i] > at[i] => yao'[i] = y[at[i] + 1]
    PROVE  \E z : Branch(i, y, z)
<1>1. CASE at[1 - i] > at[i]
  BY <1>1, Zenon DEF Branch
<1>2. CASE ~ (at[1 - i] > at[i])
  <2>1. PICK n : n = at[i] + 1 /\ n \in DOMAIN y
    OBVIOUS
  <2>2. PICK v : v = yao'[i]
    OBVIOUS
  <2>3. PICK z : z = [y EXCEPT ![n] = v]
    OBVIOUS
  <2>4. DOMAIN z = DOMAIN y /\ z[n] = v /\ \A m \in DOMAIN y : m # n => z[m] = y[m]
    BY <2>1, <2>3
  <2> QED BY <1>2, <2>1, <2>2, <2>4, Zenon DEF Branch
<1> QED BY <1>1, <1>2

LEMMA BranchSynced ==
    ASSUME Places, plan' = plan, given' = given, NEW i \in {0, 1}, at[i] <= Len(Script), at'[i] = at[i] + 1,
           step'[i] = 0, Others(i), yao'[1 - i] = yao[1 - i],
           NEW y, DOMAIN y = 1..(Len(Script) + 1), Synced(y), NEW z, Branch(i, y, z)
    PROVE  Synced(z)'
<1>1. PICK h \in {0, 1} : h = 1 - i /\ h # i
  <2>1. 1 - i \in {0, 1} /\ 1 - i # i
    OBVIOUS
  <2> QED BY <2>1
<1>2. i \in Parties /\ h \in Parties /\ at'[h] = at[h] /\ step'[h] = step[h] /\ fail'[h] = fail[h] /\ yao'[h] = yao[h]
  BY <1>1 DEF Parties, Others
<1>3. yao'[i] = Midway(i, z[at[i]])'
  <2>1. PICK v : v = z[at'[i]]
    OBVIOUS
  <2>2. Midway(i, v)' = v
    BY DEF Midway
  <2> QED BY <2>1, <2>2 DEF Branch
<1>4. z[at[h]] = y[at[h]]
  <2>1. at[h] \in 1..(Len(Script) + 1) /\ at[i] \in 1..Len(Script) /\ Len(Script) \in Nat
    BY <1>2, AtCall DEF Places
  <2>2. CASE at[h] > at[i]
    BY <1>1, <2>2 DEF Branch
  <2>3. CASE ~ (at[h] > at[i])
    <3>1. at[h] # at[i] + 1
      BY <2>1, <2>3
    <3> QED BY <2>1, <3>1 DEF Branch
  <2> QED BY <2>2, <2>3
<1>5. fail'[h] = "" => yao'[h] = Midway(h, z[at[h]])'
  <2>1. fail[h] = "" => yao[h] = Midway(h, y[at[h]])
    BY Zenon DEF Synced
  <2>2. PICK s : s = y[at[h]]
    OBVIOUS
  <2>3. Midway(h, s)' = Midway(h, s)
    BY <1>2, MidwayStays
  <2> QED BY <1>2, <1>4, <2>1, <2>2, <2>3, Zenon
<1>6. \A j \in {0, 1} : j = i \/ j = h
  BY <1>1
<1> QED BY <1>2, <1>3, <1>5, <1>6, Zenon DEF Synced

LEMMA BranchSteady ==
    ASSUME Places, plan' = plan, given' = given, NEW i \in {0, 1}, at[i] <= Len(Script), at'[i] = at[i] + 1,
           Others(i), NEW y, DOMAIN y = 1..(Len(Script) + 1), Steady(y), NEW z, Branch(i, y, z),
           Call(i).op # "setup_yao" => yao'[i] = After(at[i], y[at[i]])
    PROVE  Steady(z)'
<1>1. PICK h \in {0, 1} : h = 1 - i /\ h # i
  <2>1. 1 - i \in {0, 1} /\ 1 - i # i
    OBVIOUS
  <2> QED BY <2>1
<1>2. i \in Parties /\ h \in Parties /\ at'[h] = at[h]
  BY <1>1 DEF Parties, Others
<1>3. Script' = Script /\ Call(i) = Script[at[i]]
  BY DEF Script, Call
<1>4. \A k, s : After(k, s)' = After(k, s)
  BY <1>3 DEF After
<1>5. PICK n \in Nat, p \in Nat, q \in Nat :
        p \in 1..n /\ q \in 1..(n + 1) /\ n = Len(Script) /\ p = at[i] /\ q = at[h]
  <2>1. at[h] \in 1..(Len(Script) + 1) /\ at[i] \in 1..Len(Script) /\ Len(Script) \in Nat
    BY <1>2, AtCall DEF Places
  <2> QED BY <2>1
<1>12. p \in 1..n /\ q \in 1..(n + 1)
  BY <1>5
<1>6. \A k : (at'[0] > k \/ at'[1] > k) <=> (at'[i] > k \/ at'[h] > k)
  BY <1>1
<1>7. \A k : (at[0] > k \/ at[1] > k) <=> (p > k \/ q > k)
  BY <1>1, <1>5
<1>8. \A k : (at'[0] > k \/ at'[1] > k) <=> (p + 1 > k \/ q > k)
  BY <1>2, <1>5, <1>6
<1> SUFFICES ASSUME NEW k \in 1..n, Script[k].op # "setup_yao", p + 1 > k \/ q > k
             PROVE  z[k + 1] = After(k, z[k])
  BY <1>3, <1>4, <1>5, <1>8 DEF Steady
<1>9. DOMAIN y = 1..(n + 1) /\ z[p + 1] = yao'[i] /\ (\A m \in DOMAIN y : m # p + 1 => z[m] = y[m]) /\ (q > p => z = y)
  BY <1>1, <1>5 DEF Branch
<1>10. CASE k = p
  <2>1. z[p] = y[p]
    <3>1. p \in 1..(n + 1) /\ p # p + 1
      BY <1>12
    <3> QED BY <1>9, <3>1
  <2>2. yao'[i] = After(p, y[p])
    BY <1>3, <1>5, <1>10
  <2> QED BY <1>9, <1>10, <2>1, <2>2
<1>11. CASE k # p
  <2>1. p > k \/ q > k
    BY <1>11, <1>12
  <2>2. y[k + 1] = After(k, y[k])
    BY <1>5, <1>7, <2>1 DEF Steady
  <2>3. z[k + 1] = y[k + 1]
    <3>1. k + 1 \in 1..(n + 1) /\ k + 1 # p + 1
      BY <1>11
    <3> QED BY <1>9, <3>1
  <2>4. z[k] = y[k]
    <3>1. CASE k = p + 1
      <4>1. q > p
        BY <1>12, <2>1, <3>1
      <4> QED BY <1>9, <4>1
    <3>2. CASE k # p + 1
      <4>1. k \in 1..(n + 1)
        OBVIOUS
      <4> QED BY <1>9, <3>2, <4>1
    <3> QED BY <3>1, <3>2
  <2> QED BY <2>2, <2>3, <2>4
<1> QED BY <1>10, <1>11

LEMMA StepSparesYaos ==
    ASSUME Places, NEW c, NEW b, Counting(c, b), Setups, NEW i \in Parties, Step(i)
    PROVE  \A j \in Parties \ {i} : yao'[j] = yao[j]
<1>1. DOMAIN yao = Parties /\ IsSetup(yao[i])
  BY DEF Places, Setups
<1>2. CASE SetupYao(i)
  <2>1. CASE UNCHANGED yao
    BY <2>1
  <2>2. CASE \E s : IsSetup(s) /\ yao' = [yao EXCEPT ![i] = s]
    BY <1>1, <2>2
  <2> QED BY <1>2, <2>1, <2>2, SetupYaoSetups
<1>3. CASE ~ SetupYao(i)
  <2>1. Drawing(i)
    BY <1>3, StepDraws
  <2>2. CASE UNCHANGED yao
    BY <2>2
  <2>3. CASE Drew(i, Drawn(i))
    BY <1>1, <2>3, DrewIs
  <2> QED BY <2>1, <2>2, <2>3 DEF Drawing
<1> QED BY <1>2, <1>3

LEMMA SetupAwaits ==
    ASSUME Places, NEW i \in {0, 1}, SetupYao(i), Awaits(i), Call(i).op = "setup_yao"
    PROVE  UNCHANGED yao
<1>1. i \in Parties /\ step[i] \in 0..3
  <2>1. i \in Parties
    BY DEF Parties
  <2>2. step \in [Parties -> 0..3]
    BY Zenon DEF Places
  <2> QED BY <2>1, <2>2
<1>2. PICK n \in 1..4 : n = step[i] + 1
  BY <1>1
<1>3. Incoming(Call(i), i, n) # {}
  BY <1>2 DEF Awaits
<1>4. n <= i + 1
  BY <1>3, GarblerAwaits
<1>5. i # 2 /\ (i = 0 => step[i] # 1) /\ (i = 1 => step[i] # 2)
  BY <1>1, <1>2, <1>4
<1>6. ~ SetupEvaluator(i) /\ ~ SetupGarbler0(i)
  BY <1>5 DEF SetupEvaluator, SetupGarbler0, On
<1>7. CASE SetupGarbler1(i)
  <2>1. i = 1
    BY <1>7, Zenon DEF SetupGarbler1
  <2>2. ~ On(i, "setup_yao", 2)
    BY <1>5, <2>1 DEF On
  <2> QED BY <1>7, <2>2, Zenon DEF SetupGarbler1
<1>8. CASE ~ SetupGarbler1(i)
  BY <1>6, <1>8, Zenon DEF SetupYao
<1> QED BY <1>7, <1>8

\* Garbler 0 makes the setup of the seed that it sends.
LEMMA SetupSows ==
    ASSUME Places, NEW c, NEW b, Counting(c, b), Running(0), SetupYao(0), Returns(0), Waited, Call(0).op = "setup_yao"
    PROVE  yao'[0] = GarblerSetup(mail'[Place(c, at[0], Seed)][1], mail'[Place(c, at[0], Seed)][2])
<1>1. 0 \in Parties /\ at[0] <= Len(Script) /\ DOMAIN yao = Parties
  <2>1. 0 \in Parties
    BY DEF Parties
  <2>2. at[0] <= Len(Script)
    BY Zenon DEF Running
  <2> QED BY <2>1, <2>2 DEF Places
<1>2. SetupGarbler0(0)
  <2>1. ~ SetupEvaluator(0) /\ ~ SetupGarbler1(0)
    BY DEF SetupEvaluator, SetupGarbler1
  <2>2. at'[0] = at[0] + 1 /\ at[0] \in Nat
    BY <1>1, ReturnsKeepsCount, AtCall
  <2>3. ~ Await(0, <<>>, Ask(0, {2}, SetupTag(0, 1)), <<>>)
    BY <2>2 DEF Await, own
  <2> QED BY <2>1, <2>3, Zenon DEF SetupYao
<1>3. PICK seed, crs :
        /\ Return(0, Both(Sent(0, 1, SetupTag(0, 2), <<seed, crs>>), Sent(0, 2, SetupTag(0, 3), GarbleKey(seed))),
                  3, <<>>)
        /\ yao' = [yao EXCEPT ![0] = GarblerSetup(seed, crs)]
  BY <1>2, Zenon DEF SetupGarbler0
<1>4. PICK out : out = Both(Sent(0, 1, SetupTag(0, 2), <<seed, crs>>), Sent(0, 2, SetupTag(0, 3), GarbleKey(seed)))
  OBVIOUS
<1>5. Exchange(0, out)
  BY <1>3, <1>4 DEF Return
<1>6. PICK a : a = <<0, 1, SetupTag(0, 2)>>
  OBVIOUS
<1>7. a \in DOMAIN out /\ out[a] = <<seed, crs>>
  BY <1>4, <1>6 DEF Both, Sent
<1>8. a = Place(c, at[0], Seed)
  <2>1. Here(0, Seed) = <<0, 1, SetupTag(0, 2)>>
    BY HereIs DEF Seed, SetupTag
  <2>2. Here(0, Seed) = Place(c, at[0], Seed)
    BY <1>1, HereIsPlace, SeedIs
  <2> QED BY <1>6, <2>1, <2>2
<1>9. mail'[a] = <<seed, crs>>
  BY <1>5, <1>7, Exchanged
<1>10. yao'[0] = GarblerSetup(seed, crs)
  BY <1>1, <1>3
<1> QED BY <1>8, <1>9, <1>10

\* Garbler 1 makes it of the seed that it receives.
LEMMA SetupReaps ==
    ASSUME Unwrapped, Places, NEW c, NEW b, Counting(c, b), Ledger(c), Running(1), SetupYao(1), Returns(1), Waited,
           Call(1).op = "setup_yao", NEW y, Sown(c, y)
    PROVE  yao'[1] = y[at[1] + 1] /\ at[0] > at[1]
<1>1. /\ 1 \in Parties /\ at[1] \in 1..Len(Script) /\ Len(Script) \in Nat /\ DOMAIN yao = Parties
      /\ Call(1) = Script[at[1]]
  <2>1. 1 \in Parties
    BY DEF Parties
  <2> QED BY <2>1, AtCall, Zenon DEF Running, Places, Call
<1>2. PICK error : Finish(1, error, <<>>, 3, <<>>) /\ On(1, "setup_yao", 2) /\ LET m == Got(1, 0, SetupTag(1, 2)) IN
           /\ error = (IF m[2] # loc[1] THEN "InconsistentMessage" ELSE "")
           /\ yao' = [yao EXCEPT ![1] = GarblerSetup(m[1], loc[1])]
  <2>1. ~ SetupEvaluator(1) /\ ~ SetupGarbler0(1)
    BY DEF SetupEvaluator, SetupGarbler0
  <2>2. at'[1] = at[1] + 1 /\ at[1] \in Nat
    BY <1>1, ReturnsKeepsCount
  <2>3. \A wanted, keep : ~ Await(1, <<>>, wanted, keep)
    BY <2>2 DEF Await, own
  <2>4. SetupGarbler1(1)
    BY <2>1, <2>3, Zenon DEF SetupYao
  <2> QED BY <2>3, <2>4, Zenon DEF SetupGarbler1
<1>3. PICK m : m = Got(1, 0, SetupTag(1, 2))
  OBVIOUS
<1>4. m[2] = loc[1] /\ yao'[1] = GarblerSetup(m[1], loc[1])
  <2>1. error = "" \/ Throw(1, error)
    BY <1>2, Zenon DEF Finish
  <2>2. at'[1] = at[1] + 1 /\ at[1] \in Nat
    BY <1>1, ReturnsKeepsCount
  <2>3. ~ Throw(1, error)
    BY <2>2 DEF Throw, own
  <2>4. error = ""
    BY <2>1, <2>3, Zenon
  <2> QED BY <1>1, <1>2, <1>3, <2>4, Zenon
<1>5. PICK a : a = <<0, 1, SetupTag(1, 2)>>
  OBVIOUS
<1>6. a \in DOMAIN mail /\ m = mail[a]
  BY <1>2, <1>3, <1>5, SeedArrives, Zenon DEF Got
<1>7. a = Place(c, at[1], Seed)
  <2>1. Here(1, Seed) = <<0, 1, SetupTag(1, 2)>>
    BY HereIs DEF Seed, SetupTag
  <2>2. Here(1, Seed) = Place(c, at[1], Seed)
    BY <1>1, HereIsPlace, SeedIs, Zenon DEF Running
  <2> QED BY <1>5, <2>1, <2>2
<1>8. PICK k \in 1..Len(Script) : k = at[1]
  BY <1>1
<1>9. Seed \in Letters(Script[k]) /\ ~ IsTaken(k, Seed) /\ Script[k].op = "setup_yao"
  <2>1. step[1] = 2
    BY <1>2, Zenon DEF On
  <2>2. Script[k].op = "setup_yao"
    BY <1>1, <1>8
  <2>3. ~ (at[1] > k) /\ ~ (step[1] > 2)
    BY <1>8, <2>1
  <2>4. ~ IsTaken(k, Seed)
    BY <2>3, SeedIs DEF IsTaken
  <2> QED BY <2>2, <2>4, SeedIs
<1>10. IsSent(k, Seed)
  <2>1. PICK m2 \in 1..Len(Script) :
          \E l \in Letters(Script[m2]) : a = Place(c, m2, l) /\ IsSent(m2, l) /\ ~ IsTaken(m2, l)
    BY <1>6 DEF Ledger, Posted
  <2>2. PICK l \in Letters(Script[m2]) : a = Place(c, m2, l) /\ IsSent(m2, l) /\ ~ IsTaken(m2, l)
    BY <2>1
  <2>3. m2 \in b..Len(Script) /\ k \in b..Len(Script)
    BY <1>9, <2>2, Recent
  <2>5. Place(c, k, Seed) = Place(c, m2, l) /\ plan \in DOMAIN Plans /\ Numbers(c, b)
    BY <1>7, <1>8, <2>2 DEF Places, Counting
  <2>4. k = m2 /\ Seed = l
    BY <1>9, <2>2, <2>3, <2>5, Apart
  <2> QED BY <2>2, <2>4
<1>11. at[0] > k
  BY <1>9, <1>10, SeedSent
<1>12. y[k + 1] = GarblerSetup(mail[a][1], mail[a][2])
  BY <1>6, <1>7, <1>8, <1>9, <1>10 DEF Sown
<1> QED BY <1>4, <1>6, <1>8, <1>11, <1>12

LEMMA Given ==
    ASSUME NEW i \in Parties, Awaits(i) \/ Returns(i) \/ Throws(i)
    PROVE  plan' = plan /\ given' = given /\ retries' = retries
<1>1. CASE Awaits(i)
  BY <1>1 DEF Awaits, Await, hosts
<1>2. CASE Returns(i)
  BY <1>2 DEF Returns, Return, hosts
<1>3. CASE Throws(i)
  BY <1>3 DEF Throws, Throw, hosts
<1> QED BY <1>1, <1>2, <1>3

LEMMA ThrowStreams ==
    ASSUME Places, NEW i \in Parties, Throws(i), NEW c, NEW y, Streams(c, y),
           \A j \in Parties \ {i} : yao'[j] = yao[j]
    PROVE  Streams(c, y)'
<1>1. PICK error \in Errors : Throw(i, error)
  BY DEF Throws
<1>2. error # ""
  BY <1>1, NotStopped, Zenon
<1>3. plan' = plan /\ given' = given
  BY Given
<1>4. Others(i) /\ step' = step /\ fail'[i] = error
  BY <1>1, ThrowAlone
<1>5. at' = at /\ Exchange(i, <<>>)
  BY <1>1 DEF Throw, own
<1>6. ASSUME NEW j \in {0, 1} PROVE Keeps(j, y)
  <2>1. CASE j = i
    BY <1>2, <1>4, <1>5, <2>1, Zenon DEF Keeps
  <2>2. CASE j # i
    <3>1. yao'[j] = yao[j]
      BY <2>2 DEF Parties
    <3> QED BY <1>3, <1>4, <2>2, <3>1, OthersKeep DEF Streams
  <2> QED BY <2>1, <2>2
<1>7. DOMAIN y = (1..(Len(Script) + 1))' /\ Synced(y)' /\ Steady(y)'
  BY <1>3, <1>6, SteadyStays DEF Streams
<1>8. \A a \in DOMAIN mail' : a \in DOMAIN mail /\ mail'[a] = mail[a]
  <2>1. DOMAIN <<>> = {}
    OBVIOUS
  <2> QED BY <1>5, <2>1, Exchanged, Zenon
<1>9. Sown(c, y)'
  BY <1>3, <1>4, <1>5, <1>8, SownStays DEF Streams
<1> QED BY <1>7, <1>9 DEF Streams

LEMMA AwaitStreams ==
    ASSUME Unwrapped, PlainPlans, Places, Setups, Waited, NEW c, NEW b, Counting(c, b), NEW y, Streams(c, y),
           NEW i \in Parties, Step(i), Running(i), Awaits(i), ~ Throws(i)
    PROVE  Streams(c, y)'
<1>1. /\ Others(i) /\ step'[i] = step[i] + 1 /\ at' = at /\ fail' = fail /\ plan' = plan /\ given' = given
      /\ Passes(i)
  BY AwaitsKeepsCount, AwaitsPasses, Given
<1>2. ASSUME NEW j \in {0, 1} PROVE Keeps(j, y)
  <2>1. CASE j # i
    <3>1. yao'[j] = yao[j]
      BY <2>1, StepSparesYaos DEF Parties
    <3> QED BY <1>1, <2>1, <3>1, OthersKeep DEF Streams
  <2>2. CASE j = i
    <3>1. i \in {0, 1} /\ fail[i] = "" /\ yao[i] = Midway(i, y[at[i]]) /\ IsSetup(yao[i])
      BY <2>2, Zenon DEF Streams, Synced, Setups, Running
    <3>2. PICK s : s = y[at[i]]
      OBVIOUS
    <3>3. yao'[i] = Midway(i, s)'
      <4>1. CASE SetupYao(i)
        <5>1. Call(i).op = "setup_yao"
          BY <4>1, Zenon DEF SetupYao, SetupEvaluator, SetupGarbler0, SetupGarbler1, On
        <5>2. Call(i)' = Call(i)
          BY <1>1 DEF Call, Script
        <5>3. Midway(i, s) = s /\ Midway(i, s)' = s
          BY <5>1, <5>2 DEF Midway
        <5>4. UNCHANGED yao
          BY <3>1, <4>1, <5>1, SetupAwaits, Zenon
        <5> QED BY <3>1, <3>2, <5>3, <5>4, Zenon
      <4>2. CASE ~ SetupYao(i)
        <5>1. Drawing(i)
          BY <4>2, StepDraws
        <5>2. yao[i] = Midway(i, s)
          BY <3>1, <3>2, Zenon
        <5> QED BY <3>1, <5>1, <5>2, AwaitDraws, Zenon
      <4> QED BY <4>1, <4>2
    <3> QED BY <1>1, <2>2, <3>1, <3>2, <3>3, Zenon DEF Keeps
  <2> QED BY <2>1, <2>2
<1>3. DOMAIN y = (1..(Len(Script) + 1))' /\ Synced(y)' /\ Steady(y)'
  BY <1>1, <1>2, SteadyStays DEF Streams
<1>4. Planted(c, i, y)
  <2> SUFFICES ASSUME Call(i).op = "setup_yao", Seed \in Outgoing(Call(i), i, step[i]) PROVE FALSE
    BY DEF Planted
  <2>1. i = 0 /\ step[i] = 1
    BY SeedIs DEF Outgoing
  <2>2. PICK n \in 1..4 : n = step[i] + 1 /\ n = 2
    BY <2>1
  <2>3. Incoming(Call(i), i, n) # {}
    BY <2>2 DEF Awaits
  <2>4. n <= i + 1
    BY <2>1, <2>3, GarblerAwaits
  <2> QED BY <2>1, <2>2, <2>4
<1>5. PICK out, keep : Posts(i, out) /\ Await(i, out, Wanted(i, step[i] + 1), keep)
  BY DEF Awaits
<1>6. Exchange(i, out)
  BY <1>5 DEF Await
<1>7. Sown(c, y)'
  <2>1. Alike(y, y) /\ Sown(c, y)
    BY DEF Alike, Streams
  <2> QED BY <1>1, <1>4, <1>5, <1>6, <2>1, SownStep
<1> QED BY <1>3, <1>7 DEF Streams

LEMMA EvaluatorStreams ==
    ASSUME Unwrapped, Places, Setups, Waited, NEW c, NEW b, Counting(c, b), NEW y, Streams(c, y),
           Step(2), Running(2), Returns(2)
    PROVE  Streams(c, y)'
<1>0. 2 \in Parties
  BY DEF Parties
<1>1. Others(2) /\ fail' = fail /\ plan' = plan /\ given' = given /\ Passes(2)
  BY <1>0, ReturnsKeepsCount, ReturnsPasses, Given
<1>2. ASSUME NEW j \in {0, 1} PROVE Keeps(j, y)
  <2>1. j # 2 /\ yao'[j] = yao[j]
    BY <1>0, StepSparesYaos DEF Parties
  <2> QED BY <1>0, <1>1, <2>1, OthersKeep DEF Streams
<1>3. DOMAIN y = (1..(Len(Script) + 1))' /\ Synced(y)' /\ Steady(y)'
  BY <1>1, <1>2, SteadyStays DEF Streams
<1>4. Planted(c, 2, y) /\ Alike(y, y) /\ Sown(c, y)
  BY SeedIs DEF Planted, Outgoing, Alike, Streams
<1>5. PICK out, value : Posts(2, out) /\ Return(2, out, TagsOf(Call(2)), value)
  BY DEF Returns
<1>6. Exchange(2, out)
  BY <1>5 DEF Return
<1>7. Sown(c, y)'
  BY <1>0, <1>1, <1>4, <1>5, <1>6, SownStep
<1> QED BY <1>3, <1>7 DEF Streams

\* The setup with which a garbler ends its call is the one the other has.
LEMMA GarblerComes ==
    ASSUME Unwrapped, PlainPlans, Places, Setups, Waited, NEW c, NEW b, Counting(c, b), Ledger(c),
           NEW y, Streams(c, y), NEW i \in {0, 1}, Step(i), Running(i), Returns(i), ~ Throws(i)
    PROVE  /\ Call(i).op # "setup_yao" => yao'[i] = After(at[i], y[at[i]])
           /\ at[1 - i] > at[i] => yao'[i] = y[at[i] + 1]
           /\ Call(i).op = "setup_yao" /\ i = 1 => at[0] > at[1]
           /\ Call(i).op = "setup_yao" /\ i = 0 =>
                yao'[0] = GarblerSetup(mail'[Place(c, at[0], Seed)][1], mail'[Place(c, at[0], Seed)][2])
<1>1. /\ i \in Parties /\ fail[i] = "" /\ yao[i] = Midway(i, y[at[i]]) /\ IsSetup(yao[i])
  <2>1. i \in Parties
    BY DEF Parties
  <2>2. fail[i] = ""
    BY Zenon DEF Running
  <2> QED BY <2>1, <2>2, Zenon DEF Streams, Synced, Setups
<1>2. PICK k \in 1..Len(Script) : k = at[i] /\ Call(i) = Script[k]
  BY <1>1, AtCall, Zenon DEF Running, Call
<1>3. CASE ~ SetupYao(i)
  <2>1. Drawing(i) /\ Call(i).op # "setup_yao"
    BY <1>1, <1>3, StepDraws, Zenon DEF Drawing
  <2>2. PICK s : s = y[at[i]]
    OBVIOUS
  <2>3. yao'[i] = After(at[i], s)
    BY <1>1, <2>1, <2>2, ReturnDraws, Zenon
  <2>4. at[1 - i] > at[i] => yao'[i] = y[at[i] + 1]
    <3> SUFFICES ASSUME at[1 - i] > at[i] PROVE yao'[i] = y[at[i] + 1]
      OBVIOUS
    <3>1. at[0] > k \/ at[1] > k
      BY <1>2
    <3>2. y[k + 1] = After(k, y[k])
      BY <1>2, <2>1, <3>1 DEF Streams, Steady
    <3> QED BY <1>2, <2>2, <2>3, <3>2
  <2> QED BY <2>1, <2>2, <2>3, <2>4
<1>4. CASE SetupYao(i)
  <2>1. Call(i).op = "setup_yao"
    BY <1>4, Zenon DEF SetupYao, SetupEvaluator, SetupGarbler0, SetupGarbler1, On
  <2>2. CASE i = 0
    <3>1. yao'[0] = GarblerSetup(mail'[Place(c, at[0], Seed)][1], mail'[Place(c, at[0], Seed)][2])
      BY <1>4, <2>1, <2>2, SetupSows
    <3>2. ~ (at[1 - i] > at[i])
      <4> SUFFICES ASSUME at[1 - i] > at[i] PROVE FALSE
        OBVIOUS
      <4>1. at[1] > k /\ ~ (at[0] > k) /\ Script[k].op = "setup_yao"
        BY <1>2, <2>1, <2>2
      <4> QED BY <4>1, SetupTaken DEF Ledger
    <3> QED BY <2>1, <2>2, <3>1, <3>2
  <2>3. CASE i = 1
    <3>1. yao'[1] = y[at[1] + 1] /\ at[0] > at[1]
      BY <1>4, <2>1, <2>3, SetupReaps DEF Streams
    <3> QED BY <2>1, <2>3, <3>1
  <2> QED BY <2>2, <2>3
<1> QED BY <1>3, <1>4

LEMMA GarblerStreams ==
    ASSUME Unwrapped, PlainPlans, Places, Setups, Waited, NEW c, NEW b, Counting(c, b), Ledger(c),
           NEW y, Streams(c, y), NEW i \in {0, 1}, Step(i), Running(i), Returns(i), ~ Throws(i)
    PROVE  \E z : Streams(c, z)'
<1>0. /\ i \in Parties /\ at[i] \in 1..Len(Script) /\ Len(Script) \in Nat /\ at[i] <= Len(Script)
      /\ DOMAIN y = 1..(Len(Script) + 1)
  <2>1. i \in Parties
    BY DEF Parties
  <2> QED BY <2>1, AtCall, Zenon DEF Running, Streams
<1>1. /\ Others(i) /\ step'[i] = 0 /\ at'[i] = at[i] + 1 /\ fail' = fail /\ plan' = plan /\ given' = given
      /\ Passes(i)
  BY <1>0, ReturnsKeepsCount, ReturnsPasses, Given
<1>2. yao'[1 - i] = yao[1 - i]
  <2>1. 1 - i \in Parties \ {i}
    BY DEF Parties
  <2> QED BY <1>0, <2>1, StepSparesYaos
<1>3. PICK z : Branch(i, y, z)
  <2>1. at[i] + 1 \in DOMAIN y
    BY <1>0
  <2>2. at[1 - i] > at[i] => yao'[i] = y[at[i] + 1]
    BY GarblerComes
  <2> QED BY <2>1, <2>2, BranchExists
<1>4. Synced(z)'
  BY <1>0, <1>1, <1>2, <1>3, BranchSynced DEF Streams
<1>5. Steady(z)'
  <2>1. Call(i).op # "setup_yao" => yao'[i] = After(at[i], y[at[i]])
    BY GarblerComes
  <2> QED BY <1>0, <1>1, <1>3, <2>1, BranchSteady DEF Streams
<1>6. Alike(y, z)
  <2> SUFFICES ASSUME NEW k \in 1..Len(Script), at[0] > k PROVE z[k + 1] = y[k + 1]
    BY DEF Alike
  <2>1. CASE k # at[i]
    <3>1. k + 1 \in DOMAIN y /\ k + 1 # at[i] + 1
      BY <1>0, <2>1
    <3> QED BY <1>3, <3>1 DEF Branch
  <2>2. CASE k = at[i]
    <3>1. i = 1
      BY <1>0, <2>2
    <3>2. at[1 - i] > at[i]
      BY <2>2, <3>1
    <3> QED BY <1>3, <3>2 DEF Branch
  <2> QED BY <2>1, <2>2
<1>7. Planted(c, i, z)
  <2> SUFFICES ASSUME Call(i).op = "setup_yao", Seed \in Outgoing(Call(i), i, step[i])
               PROVE  z[at[i] + 1] = GarblerSetup(mail'[Place(c, at[i], Seed)][1], mail'[Place(c, at[i], Seed)][2])
    BY DEF Planted
  <2>1. i = 0
    BY SeedIs DEF Outgoing
  <2>2. yao'[0] = GarblerSetup(mail'[Place(c, at[0], Seed)][1], mail'[Place(c, at[0], Seed)][2])
    BY <2>1, GarblerComes
  <2> QED BY <1>3, <2>1, <2>2 DEF Branch
<1>8. PICK out, value : Posts(i, out) /\ Return(i, out, TagsOf(Call(i)), value)
  BY DEF Returns
<1>9. Exchange(i, out)
  BY <1>8 DEF Return
<1>10. Sown(c, z)'
  <2>1. Sown(c, y)
    BY DEF Streams
  <2> QED BY <1>0, <1>1, <1>6, <1>7, <1>8, <1>9, <2>1, SownStep
<1>11. DOMAIN z = (1..(Len(Script) + 1))'
  BY <1>0, <1>1, <1>3 DEF Branch, Script
<1> QED BY <1>4, <1>5, <1>10, <1>11 DEF Streams

LEMMA StepStreams ==
    ASSUME Unwrapped, PlainPlans, Places, Setups, Waited, NEW c, NEW b, Counting(c, b), Ledger(c),
           NEW y, Streams(c, y), NEW i \in Parties, Step(i)
    PROVE  \E z : Streams(c, z)'
<1>1. Running(i) /\ (Awaits(i) \/ Returns(i) \/ Throws(i))
  BY StepMoves DEF Moves
<1>2. \A j \in Parties \ {i} : yao'[j] = yao[j]
  BY StepSparesYaos
<1>3. CASE Throws(i)
  BY <1>2, <1>3, ThrowStreams
<1>4. CASE Awaits(i) /\ ~ Throws(i)
  BY <1>1, <1>4, AwaitStreams
<1>5. CASE Returns(i) /\ ~ Throws(i) /\ i = 2
  <2>1. Step(2) /\ Running(2) /\ Returns(2)
    BY <1>1, <1>5
  <2> QED BY <2>1, EvaluatorStreams
<1>6. CASE Returns(i) /\ ~ Throws(i) /\ i # 2
  <2>1. i \in {0, 1}
    BY <1>6 DEF Parties
  <2> QED BY <1>1, <1>6, <2>1, GarblerStreams
<1> QED BY <1>1, <1>3, <1>4, <1>5, <1>6

LEMMA AbortStreams ==
    ASSUME Places, NEW i \in Parties, HostAborts(i), NEW c, NEW b, Counting(c, b), NEW y, Streams(c, y)
    PROVE  Streams(c, y)'
<1>1. /\ Others(i) /\ plan' = plan /\ step' = step /\ at' = at /\ fail'[i] = "stopped"
  BY AbortKeepsCount
<1>2. given' = given /\ mail' = mail /\ yao' = yao /\ "stopped" # ""
  BY DEF HostAborts, hosts
<1>3. ASSUME NEW j \in {0, 1} PROVE Keeps(j, y)
  <2>1. CASE j = i
    BY <1>1, <1>2, <2>1, Zenon DEF Keeps
  <2>2. CASE j # i
    <3>1. yao'[j] = yao[j]
      BY <1>2
    <3> QED BY <1>1, <1>2, <2>2, <3>1, OthersKeep DEF Streams
  <2> QED BY <2>1, <2>2
<1>4. DOMAIN y = (1..(Len(Script) + 1))' /\ Synced(y)' /\ Steady(y)'
  BY <1>1, <1>2, <1>3, SteadyStays DEF Streams
<1>5. \A a \in DOMAIN mail' : a \in DOMAIN mail /\ mail'[a] = mail[a]
  BY <1>2
<1>6. Sown(c, y)'
  BY <1>1, <1>5, SownStays DEF Streams
<1> QED BY <1>4, <1>6 DEF Streams

LEMMA StutterStreams ==
    ASSUME NEW c, NEW y, Streams(c, y), UNCHANGED vars PROVE Streams(c, y)'
<1>1. /\ mail' = mail /\ plan' = plan /\ given' = given /\ at' = at /\ step' = step /\ fail' = fail /\ yao' = yao
  BY DEF vars, relayvars, hosts, own
<1>2. ASSUME NEW j \in {0, 1} PROVE Keeps(j, y)
  <2>1. PICK s : s = y[at[j]]
    OBVIOUS
  <2>2. Midway(j, s)' = Midway(j, s)
    BY <1>1, MidwayStays
  <2>3. fail[j] = "" => yao[j] = Midway(j, s)
    BY <2>1, Zenon DEF Streams, Synced
  <2> QED BY <1>1, <2>1, <2>2, <2>3, Zenon DEF Keeps
<1>3. DOMAIN y = (1..(Len(Script) + 1))' /\ Synced(y)' /\ Steady(y)'
  BY <1>1, <1>2, SteadyStays DEF Streams
<1>4. \A a \in DOMAIN mail' : a \in DOMAIN mail /\ mail'[a] = mail[a]
  BY <1>1
<1>5. Sown(c, y)'
  BY <1>1, <1>4, SownStays DEF Streams
<1> QED BY <1>3, <1>5 DEF Streams

-----------------------------------------------------------------------------
(* How far each has come in its call.                                      *)

WaitedAt(i) == at[i] <= Len(Script) /\ step[i] # 0 => Incoming(Call(i), i, step[i]) # {}

LEMMA WaitedStays ==
    ASSUME plan' = plan, NEW i, at'[i] = at[i], step'[i] = step[i], WaitedAt(i) PROVE WaitedAt(i)'
<1>1. Script' = Script /\ Call(i)' = Call(i)
  BY SameScript
<1> QED BY <1>1 DEF WaitedAt, Incoming

LEMMA OthersWaited ==
    ASSUME Waited, plan' = plan, NEW i \in Parties, Others(i), WaitedAt(i)' PROVE Waited'
<1>1. ASSUME NEW j \in Parties PROVE WaitedAt(j)'
  <2>1. CASE j = i
    BY <2>1
  <2>2. CASE j # i
    <3>1. at'[j] = at[j] /\ step'[j] = step[j]
      BY <2>2 DEF Others
    <3>2. WaitedAt(j)
      BY DEF Waited, WaitedAt
    <3> QED BY <3>1, <3>2, WaitedStays
  <2> QED BY <2>1, <2>2
<1> QED BY <1>1 DEF Waited, WaitedAt

LEMMA MoveWaited ==
    ASSUME Places, Waited, NEW c, NEW b, Counting(c, b), NEW i \in Parties, Running(i),
           Awaits(i) \/ Returns(i) \/ Throws(i)
    PROVE  Waited'
<1>1. CASE Awaits(i)
  <2>1. Others(i) /\ plan' = plan /\ at' = at /\ step'[i] = step[i] + 1
    BY <1>1, AwaitsKeepsCount
  <2>2. Incoming(Call(i), i, step'[i]) # {}
    BY <1>1, <2>1 DEF Awaits
  <2>3. Call(i)' = Call(i)
    BY <2>1, SameScript
  <2>4. WaitedAt(i)'
    BY <2>2, <2>3 DEF WaitedAt, Incoming
  <2> QED BY <2>1, <2>4, OthersWaited
<1>2. CASE Returns(i)
  <2>1. Others(i) /\ plan' = plan /\ step'[i] = 0
    BY <1>2, ReturnsKeepsCount
  <2>2. WaitedAt(i)'
    BY <2>1 DEF WaitedAt
  <2> QED BY <2>1, <2>2, OthersWaited
<1>3. CASE Throws(i)
  <2>1. PICK error \in Errors : Throw(i, error)
    BY <1>3 DEF Throws
  <2>2. Others(i) /\ step' = step /\ at' = at /\ plan' = plan
    <3>1. at' = at /\ plan' = plan
      BY <2>1 DEF Throw, own, hosts
    <3> QED BY <2>1, <3>1, ThrowAlone
  <2>3. WaitedAt(i)
    BY DEF Waited, WaitedAt
  <2>4. WaitedAt(i)'
    BY <2>2, <2>3, WaitedStays
  <2> QED BY <2>2, <2>4, OthersWaited
<1> QED BY <1>1, <1>2, <1>3

LEMMA StillWaited ==
    ASSUME Waited, plan' = plan, at' = at, step' = step PROVE Waited'
<1>1. ASSUME NEW j \in Parties PROVE WaitedAt(j)'
  <2>1. WaitedAt(j)
    BY DEF Waited, WaitedAt
  <2> QED BY <2>1, WaitedStays
<1> QED BY <1>1 DEF Waited, WaitedAt

-----------------------------------------------------------------------------
(* Garblers and rounds keep in step.                                       *)

\* While nobody has started over, the garblers are on common streams.
Ordered ==
    /\ Types /\ Waited /\ retries \in Nat
    /\ \E c, b : Counting(c, b) /\ Ledger(c) /\ (retries = 0 => \E y : Streams(c, y))

LEMMA OrderedInit == Init => Ordered
<1> SUFFICES ASSUME Init PROVE Ordered
  OBVIOUS
<1>1. Types /\ \E c, b : Counting(c, b) /\ Ledger(c)
  BY RelayedInit DEF Relayed
<1>2. PICK c, b : Counting(c, b) /\ Ledger(c)
  BY <1>1
<1>3. /\ at = [i \in Parties |-> 1] /\ step = [i \in Parties |-> 0] /\ yao = [i \in Parties |-> NoSetup]
      /\ retries = 0 /\ mail = <<>>
  BY Zenon DEF Init, RelayInit
<1>4. Waited
  <2>1. \A i \in Parties : step[i] = 0
    BY <1>3
  <2> QED BY <2>1 DEF Waited
<1>5. DOMAIN mail = {}
  <2>1. DOMAIN <<>> = {}
    OBVIOUS
  <2> QED BY <1>3, <2>1, Zenon
<1>6. Len(Script) \in Nat
  BY <1>1, Scripts DEF Types, Places
<1>7. PICK y : y = [k \in 1..(Len(Script) + 1) |-> NoSetup]
  OBVIOUS
<1>8. 0 \in Parties /\ 1 \in Parties
  BY DEF Parties
<1>9. at[0] = 1 /\ at[1] = 1 /\ step[0] = 0 /\ step[1] = 0 /\ yao[0] = NoSetup /\ yao[1] = NoSetup
  BY <1>3, <1>8
<1>10. DOMAIN y = 1..(Len(Script) + 1) /\ y[1] = NoSetup
  BY <1>6, <1>7
<1>11. Synced(y)
  <2> SUFFICES ASSUME NEW i \in {0, 1} PROVE yao[i] = Midway(i, y[at[i]])
    BY Zenon DEF Synced
  <2>1. at[i] = 1 /\ step[i] = 0 /\ yao[i] = NoSetup
    BY <1>9
  <2>2. \A s : Midway(i, s) = s
    BY <2>1 DEF Midway
  <2> QED BY <1>10, <2>1, <2>2
<1>12. Steady(y)
  <2> SUFFICES ASSUME NEW k \in 1..Len(Script) PROVE ~ (at[0] > k) /\ ~ (at[1] > k)
    BY DEF Steady
  <2> QED BY <1>6, <1>9
<1>13. Sown(c, y)
  BY <1>5 DEF Sown
<1>14. Streams(c, y)
  BY <1>10, <1>11, <1>12, <1>13 DEF Streams
<1> QED BY <1>1, <1>2, <1>3, <1>4, <1>14 DEF Ordered

LEMMA OrderedNext ==
    ASSUME Unwrapped, PlainPlans PROVE Ordered /\ [Next]_vars => Ordered'
<1> SUFFICES ASSUME Ordered, [Next]_vars PROVE Ordered'
  OBVIOUS
<1>1. Types' /\ Types /\ Places /\ Setups /\ Waited /\ retries \in Nat
  BY TypesNext DEF Ordered, Types
<1>2. PICK c, b : Counting(c, b) /\ Ledger(c) /\ (retries = 0 => \E y : Streams(c, y))
  BY DEF Ordered
<1>3. ASSUME NEW i \in Parties, Step(i) PROVE Ordered'
  <2>1. Running(i) /\ (Awaits(i) \/ Returns(i) \/ Throws(i)) /\ Moves(i)
    BY <1>3, StepMoves DEF Moves
  <2>2. Counting(c, b)' /\ Ledger(c)'
    BY <1>1, <1>2, <2>1, StepLedger
  <2>3. Waited'
    BY <1>1, <1>2, <2>1, MoveWaited
  <2>4. retries' = retries
    BY <2>1, Given
  <2>5. ASSUME retries = 0 PROVE \E y : Streams(c, y)'
    <3>1. PICK y : Streams(c, y)
      BY <1>2, <2>5
    <3> QED BY <1>1, <1>2, <1>3, <3>1, StepStreams
  <2> QED BY <1>1, <2>2, <2>3, <2>4, <2>5 DEF Ordered
<1>4. ASSUME NEW i \in Parties, Running(i), Throws(i), UNCHANGED yao PROVE Ordered'
  <2>1. Counting(c, b)' /\ Ledger(c)'
    BY <1>1, <1>2, <1>4, ThrowLedger
  <2>2. Waited' /\ retries' = retries
    BY <1>1, <1>2, <1>4, MoveWaited, Given
  <2>3. ASSUME retries = 0 PROVE \E y : Streams(c, y)'
    <3>1. PICK y : Streams(c, y)
      BY <1>2, <2>3
    <3>2. \A j \in Parties \ {i} : yao'[j] = yao[j]
      BY <1>4
    <3> QED BY <1>1, <1>4, <3>1, <3>2, ThrowStreams
  <2> QED BY <1>1, <2>1, <2>2, <2>3 DEF Ordered
<1>5. ASSUME NEW i \in Parties, HostAborts(i) PROVE Ordered'
  <2>1. Counting(c, b)' /\ Ledger(c)'
    BY <1>1, <1>2, <1>5, AbortLedger
  <2>2. plan' = plan /\ step' = step /\ at' = at /\ retries' = retries
    <3>1. retries' = retries
      BY <1>5 DEF HostAborts
    <3> QED BY <1>1, <1>2, <1>5, <3>1, AbortKeepsCount
  <2>3. Waited'
    BY <1>1, <2>2, StillWaited
  <2>4. ASSUME retries = 0 PROVE \E y : Streams(c, y)'
    <3>1. PICK y : Streams(c, y)
      BY <1>2, <2>4
    <3> QED BY <1>1, <1>2, <1>5, <3>1, AbortStreams
  <2> QED BY <1>1, <2>1, <2>2, <2>3, <2>4 DEF Ordered
<1>6. CASE Retry
  <2>1. /\ \E e, d : Counting(e, d)'
        /\ \A i \in Parties : step'[i] = 0
    BY <1>1, <1>6, RetryCounts, Zenon
  <2>2. PICK e, d : Counting(e, d)'
    BY <2>1
  <2>3. Ledger(e)'
    BY <1>1, <1>6, RetryLedger
  <2>4. Waited'
    BY <2>1 DEF Waited
  <2>5. retries' \in Nat /\ retries' # 0
    <3>1. retries' = retries + 1
      BY <1>6, Zenon DEF Retry
    <3> QED BY <1>1, <3>1
  <2> QED BY <1>1, <2>2, <2>3, <2>4, <2>5 DEF Ordered
<1>7. CASE UNCHANGED vars
  <2>1. Counting(c, b)' /\ Ledger(c)'
    BY <1>2, <1>7, StutterCounted, StutterLedger
  <2>2. plan' = plan /\ step' = step /\ at' = at /\ retries' = retries
    BY <1>7 DEF vars, hosts, own
  <2>3. Waited'
    BY <1>1, <2>2, StillWaited
  <2>4. ASSUME retries = 0 PROVE \E y : Streams(c, y)'
    <3>1. PICK y : Streams(c, y)
      BY <1>2, <2>4
    <3> QED BY <1>7, <3>1, StutterStreams
  <2> QED BY <1>1, <2>1, <2>2, <2>3, <2>4 DEF Ordered
<1> QED BY <1>3, <1>4, <1>5, <1>6, <1>7, NextCases

LEMMA MidwayStart == ASSUME NEW i, step[i] = 0, NEW s PROVE Midway(i, s) = s
  BY DEF Midway

LEMMA OrderedInStep == Ordered => InStep
<1> SUFFICES ASSUME Ordered, NEW i \in Parties, NEW j \in Parties, at[i] = at[j]
             PROVE  /\ counter[i] = counter[j]
                    /\ /\ Garbler(i) /\ Garbler(j) /\ step[i] = 0 /\ step[j] = 0
                       /\ fail[i] = "" /\ fail[j] = "" /\ retries = 0
                       => yao[i] = yao[j]
  BY Zenon DEF InStep
<1>1. PICK c, b : Counting(c, b) /\ Ledger(c) /\ (retries = 0 => \E y : Streams(c, y))
  BY DEF Ordered
<1>2. counter[i] = counter[j]
  <2>1. counter[i] = c[at[i]] % CounterMod /\ counter[j] = c[at[j]] % CounterMod
    BY <1>1 DEF Counting, Numbered
  <2> QED BY <2>1
<1>3. ASSUME Garbler(i), Garbler(j), step[i] = 0, step[j] = 0, fail[i] = "", fail[j] = "", retries = 0
      PROVE  yao[i] = yao[j]
  <2>1. PICK y : Streams(c, y)
    BY <1>1, <1>3, Zenon
  <2>2. i \in {0, 1} /\ j \in {0, 1}
    <3>1. i # 2 /\ j # 2
      BY <1>3, Zenon DEF Garbler
    <3> QED BY <3>1 DEF Parties
  <2>3. yao[i] = Midway(i, y[at[i]]) /\ yao[j] = Midway(j, y[at[j]])
    BY <1>3, <2>1, <2>2, Zenon DEF Streams, Synced
  <2>4. PICK s, t : s = y[at[i]] /\ t = y[at[j]] /\ s = t
    OBVIOUS
  <2>5. Midway(i, s) = s /\ Midway(j, t) = t
    BY <1>3, MidwayStart, Zenon
  <2> QED BY <2>3, <2>4, <2>5
<1> QED BY <1>2, <1>3, Zenon

\* Garblers that have come equally far drew equally much from their common
\* stream, and parties that have come equally far took equally many tags: no
\* message says so, the calls and the letters of the setups do.
THEOREM GarblersInStep == ASSUME Unwrapped, PlainPlans PROVE Spec => []InStep
<1>1. Ordered /\ [Next]_vars => Ordered'
  BY OrderedNext
<1>2. Spec => []Ordered
  BY <1>1, OrderedInit, PTL DEF Spec
<1> QED BY <1>2, OrderedInStep, PTL

-----------------------------------------------------------------------------
(* Blocks and bits.                                                        *)

Bit == {0, 1}

LEMMA LsbBit == ASSUME NEW x PROVE lsb(x) \in Bit
  BY DEF lsb, Bit

LEMMA FlipBit == ASSUME NEW b, NEW c PROVE Flip(b, c) \in Bit
  BY DEF Flip, Bit

LEMMA LabelBlock ==
    ASSUME NEW b, NEW f \in Block, NEW delta \in Block PROVE LabelOf(b, f, delta) \in Block
  BY DEF LabelOf, If, Block, \oplus

LEMMA XorBlock == ASSUME NEW x \in Block, NEW y \in Block PROVE x \oplus y \in Block
  BY DEF Block, \oplus

\* The lowest bit of a label is the bit it stands for, flipped by that of the
\* FALSE-label.
LEMMA LabelLsb ==
    ASSUME NEW b \in Bit, NEW f, NEW delta, Lsb \in delta
    PROVE  lsb(LabelOf(b, f, delta)) = Flip(b, lsb(f))
<1>1. CASE b = 0 BY <1>1 DEF LabelOf, If, lsb, Flip, \oplus
<1>2. CASE b = 1 BY <1>2 DEF LabelOf, If, lsb, Flip, \oplus
<1> QED BY <1>1, <1>2 DEF Bit

\* The labels of a wire differ.
LEMMA LabelsDiffer ==
    ASSUME NEW f, NEW delta, Lsb \in delta PROVE LabelOf(0, f, delta) # LabelOf(1, f, delta)
<1>1. lsb(LabelOf(0, f, delta)) = Flip(0, lsb(f)) /\ lsb(LabelOf(1, f, delta)) = Flip(1, lsb(f))
  BY LabelLsb DEF Bit
<1>2. Flip(0, lsb(f)) # Flip(1, lsb(f))
  BY LsbBit DEF Flip, Bit
<1> QED BY <1>1, <1>2

\* Labels of two wires add up to a label of the sum.
LEMMA LabelSum ==
    ASSUME NEW b \in Bit, NEW c \in Bit, NEW f, NEW g, NEW delta
    PROVE  LabelOf(b, f, delta) \oplus LabelOf(c, g, delta) = LabelOf(Flip(b, c), f \oplus g, delta)
<1>1. CASE b = 0 /\ c = 0 BY <1>1 DEF LabelOf, If, Flip, \oplus
<1>2. CASE b = 0 /\ c = 1 BY <1>2 DEF LabelOf, If, Flip, \oplus
<1>3. CASE b = 1 /\ c = 0 BY <1>3 DEF LabelOf, If, Flip, \oplus
<1>4. CASE b = 1 /\ c = 1 BY <1>4 DEF LabelOf, If, Flip, \oplus
<1> QED BY <1>1, <1>2, <1>3, <1>4 DEF Bit

LEMMA FlipFlip ==
    ASSUME NEW b \in Bit, NEW c \in Bit, NEW d \in Bit
    PROVE  /\ Flip(Flip(b, c), c) = b
           /\ Flip(b, Flip(b, c)) = c
           /\ Flip(Flip(b, c), d) = Flip(b, Flip(c, d))
           /\ Flip(b, c) = Flip(c, b)
  BY DEF Flip, Bit

\* A garbler that holds the FALSE-label and the offset accepts the label the
\* evaluator holds, reads its bit off it, and reads no other bit off a label it
\* accepts (output.rs, and every decoding of the conversions).
THEOREM LabelsDecode ==
    ASSUME NEW f \in Block, NEW delta \in Block, Lsb \in delta
    PROVE  /\ \A b \in Bit : /\ MatchesWire(LabelOf(b, f, delta), f, delta)
                            /\ Decoded(LabelOf(b, f, delta), f) = b
           /\ \A label \in Block : MatchesWire(label, f, delta) =>
                label = LabelOf(Decoded(label, f), f, delta)
<1>1. ASSUME NEW b \in Bit PROVE Decoded(LabelOf(b, f, delta), f) = b
  <2>1. lsb(LabelOf(b, f, delta)) = Flip(b, lsb(f))
    BY LabelLsb
  <2> QED BY <2>1, LsbBit, FlipFlip DEF Decoded
<1>2. f = LabelOf(0, f, delta) /\ f \oplus delta = LabelOf(1, f, delta)
  BY DEF LabelOf, If, \oplus, Block
<1>3. ASSUME NEW b \in Bit PROVE MatchesWire(LabelOf(b, f, delta), f, delta)
  BY <1>2 DEF MatchesWire, InPair, Bit
<1>4. ASSUME NEW label \in Block, MatchesWire(label, f, delta)
      PROVE  label = LabelOf(Decoded(label, f), f, delta)
  <2>1. PICK b \in Bit : label = LabelOf(b, f, delta)
    BY <1>2, <1>4 DEF MatchesWire, InPair, Bit
  <2> QED BY <2>1, <1>1
<1> QED BY <1>1, <1>3, <1>4

\* Commitments to different messages differ.
LEMMA CommitsDiffer ==
    ASSUME NEW crs \in Block, NEW m \in Block, NEW w \in Block, NEW n \in Block, NEW v \in Block,
           m # n
    PROVE  Commit(crs, m, w) # Commit(crs, n, v)
<1>1. Committed(Commit(crs, m, w)) = <<m, w>> /\ Committed(Commit(crs, n, v)) = <<n, v>>
  BY CommitAssumption
<1>2. <<m, w>> # <<n, v>>
  OBVIOUS
<1> QED BY <1>1, <1>2

-----------------------------------------------------------------------------
(* Input.                                                                  *)

\* What the two garblers send when garbler pid brings bit x.
From12Message(crs, delta, r, pid, x) ==
    [i \in {0, 1} |-> LET m == From12Msg1(crs, delta, r)
                      IN  [coms |-> m.coms, open |-> m.open[IF i = pid THEN x ELSE 0]]]

\* The input of a garbler's bit: the evaluator finds exactly one of the two
\* commitments opened, and the label in it is that of the bit under the
\* FALSE-label the garblers keep.
THEOREM InputOfGarbler ==
    ASSUME NEW crs \in Block, NEW delta \in Block, Lsb \in delta, NEW r \in [1..4 -> Block],
           NEW pid \in {0, 1}, NEW x \in Bit
    PROVE  LET m == From12Message(crs, delta, r, pid, x) IN
           /\ From12Error(crs, m, pid) = ""
           /\ m[pid].open[1] = LabelOf(x, From12Msg1(crs, delta, r).f, delta)
<1> DEFINE L(b) == LabelOf(b, r[2], delta)
           msg == From12Msg1(crs, delta, r)
           m == From12Message(crs, delta, r, pid, x)
<1>1. r[1] \in Block /\ r[2] \in Block /\ r[3] \in Block /\ r[4] \in Block
  OBVIOUS
<1>2. L(0) \in Block /\ L(1) \in Block /\ L(0) # L(1)
  BY <1>1, LabelBlock, LabelsDiffer
<1>3. msg.open = [b \in {0, 1} |-> <<L(b), r[3 + b]>>] /\ msg.f = r[2]
  BY DEF From12Msg1
<1>4. msg.coms = IF lsb(r[1]) = 0 THEN <<Commit(crs, L(1), r[4]), Commit(crs, L(0), r[3])>>
                 ELSE <<Commit(crs, L(0), r[3]), Commit(crs, L(1), r[4])>>
  BY DEF From12Msg1
<1>5. Commit(crs, L(0), r[3]) # Commit(crs, L(1), r[4])
  <2> HIDE DEF L
  <2> QED BY <1>1, <1>2, CommitsDiffer
<1>6. m[0].coms = msg.coms /\ m[1].coms = msg.coms /\ m[pid].open = msg.open[x]
  BY DEF From12Message
<1>7. m[pid].open = <<L(x), r[3 + x]>>
  BY <1>3, <1>6 DEF Bit
<1>8. From12Error(crs, m, pid) = ""
  <2> HIDE DEF L, m, msg
  <2>1. Verify(crs, m[pid].open, m[0].coms[1]) # Verify(crs, m[pid].open, m[0].coms[2])
    <3>1. CASE x = 0 BY <3>1, <1>4, <1>5, <1>6, <1>7 DEF Verify
    <3>2. CASE x = 1 BY <3>2, <1>4, <1>5, <1>6, <1>7 DEF Verify
    <3> QED BY <3>1, <3>2 DEF Bit
  <2> QED BY <2>1, <1>6 DEF From12Error
<1>9. m[pid].open[1] = LabelOf(x, msg.f, delta)
  BY <1>3, <1>7
<1> QED BY <1>8, <1>9, Zenon

\* What garbler 0 and 1 answer to the halves x[1] and x[2] of the evaluator's
\* bit.
From3Message(crs, delta, r, x) ==
    [i \in {0, 1} |-> LET m == From3Msg2(crs, delta, r)
                      IN  [coms |-> m.coms, open |-> m.open[i + 1][x[i + 1]]]]

\* The input of the evaluator's bit: both openings are good, and the labels of
\* the halves add up to that of the bit.
THEOREM InputOfEvaluator ==
    ASSUME NEW crs, NEW delta, NEW r, NEW x \in Bit \X Bit, NEW invalid
    PROVE  LET m == From3Message(crs, delta, r, x) IN
           /\ From3Error(crs, m, x, invalid) = ""
           /\ m[0].open[1] \oplus m[1].open[1]
                = LabelOf(Flip(x[1], x[2]), From3Msg2(crs, delta, r).f, delta)
<1> DEFINE msg == From3Msg2(crs, delta, r)
           m == From3Message(crs, delta, r, x)
           L(k, b) == LabelOf(b, r[k], delta)
<1>1. x[1] \in Bit /\ x[2] \in Bit
  OBVIOUS
<1>2. /\ msg.open[1][x[1]] = <<L(1, x[1]), r[3 + x[1]]>>
      /\ msg.open[2][x[2]] = <<L(2, x[2]), r[5 + x[2]]>>
      /\ msg.coms[1][x[1]] = Commit(crs, L(1, x[1]), r[3 + x[1]])
      /\ msg.coms[2][x[2]] = Commit(crs, L(2, x[2]), r[5 + x[2]])
      /\ msg.f = r[1] \oplus r[2]
  BY <1>1 DEF From3Msg2, Bit
<1>3. /\ m[0] = [coms |-> msg.coms, open |-> msg.open[1][x[1]]]
      /\ m[1] = [coms |-> msg.coms, open |-> msg.open[2][x[2]]]
  BY DEF From3Message
<1>4. L(1, x[1]) \oplus L(2, x[2]) = LabelOf(Flip(x[1], x[2]), r[1] \oplus r[2], delta)
  BY <1>1, LabelSum
<1>5. From3Error(crs, m, x, invalid) = ""
  <2> HIDE DEF m, msg, L
  <2>1. m[0].coms = msg.coms /\ m[1].coms = msg.coms /\ 1 - 1 = 0 /\ 2 - 1 = 1
    BY <1>3
  <2>2. Verify(crs, m[0].open, m[0].coms[1][x[1]])
    BY <1>2, <1>3, <2>1 DEF Verify
  <2>3. Verify(crs, m[1].open, m[0].coms[2][x[2]])
    BY <1>2, <1>3, <2>1 DEF Verify
  <2> QED BY <2>1, <2>2, <2>3, Zenon DEF From3Error
<1>6. m[0].open[1] \oplus m[1].open[1] = LabelOf(Flip(x[1], x[2]), msg.f, delta)
  <2> HIDE DEF m, msg, L
  <2>1. m[0].open[1] = L(1, x[1]) /\ m[1].open[1] = L(2, x[2])
    BY <1>2, <1>3
  <2> QED BY <1>2, <1>4, <2>1 DEF L
<1> QED BY <1>5, <1>6, Zenon

-----------------------------------------------------------------------------
(* Conversions.                                                            *)

LEMMA XorLsb == ASSUME NEW x, NEW y PROVE lsb(x \oplus y) = Flip(lsb(x), lsb(y))
  BY DEF lsb, Flip, \oplus

\* The messages of the garblers for a replicated bit with parts x.
B2YMessage(crs, delta, r, x) ==
    [i \in {0, 1} |-> IF i = 0 THEN B2YMsg1P1(crs, delta, r, Replicated(x, 0))
                      ELSE B2YMsg1P2(crs, delta, r, Replicated(x, 1))]

\* What party i reads off its replicated share are the two parts it has.
LEMMA Parts ==
    ASSUME NEW x \in [0..2 -> Bit]
    PROVE  \A i \in 0..2 : /\ Replicated(x, i).value2 = x[i]
                           /\ Flip(Replicated(x, i).value1, Replicated(x, i).value2) = x[(i + 2) % 3]
<1>1. ASSUME NEW i \in 0..2
      PROVE  /\ Replicated(x, i).value2 = x[i]
             /\ Flip(Replicated(x, i).value1, Replicated(x, i).value2) = x[(i + 2) % 3]
  <2>1. Replicated(x, i) = [value1 |-> Flip(x[i], x[(i + 2) % 3]), value2 |-> x[i]]
    BY DEF Replicated
  <2>2. (i + 2) % 3 \in 0..2
    OBVIOUS
  <2>3. x[i] \in Bit /\ x[(i + 2) % 3] \in Bit
    BY <2>2
  <2>4. Flip(Flip(x[i], x[(i + 2) % 3]), x[i]) = x[(i + 2) % 3]
    BY <2>3 DEF Flip, Bit
  <2> QED BY <2>1, <2>4
<1> QED BY <1>1

\* A replicated bit becomes a Yao share: the evaluator accepts what the
\* garblers send, and adds up the label of the bit under their FALSE-label.
THEOREM BitToYao ==
    ASSUME NEW crs, NEW delta, NEW r, NEW x \in [0..2 -> Bit]
    PROVE  LET m == B2YMessage(crs, delta, r, x) IN
           /\ B2YError(crs, m, Replicated(x, 2)) = ""
           /\ B2YLabel(m) = LabelOf(Flip(Flip(x[0], x[1]), x[2]), B2YFLabel(delta, r), delta)
<1> DEFINE l == B2YLabels(delta, r)
           m == B2YMessage(crs, delta, r, x)
           coms(j) == [b \in {0, 1} |-> Commit(crs, l.open[j][b][1], l.open[j][b][2])]
           L(k, b) == LabelOf(b, l.f[k], delta)
<1>1. x[0] \in Bit /\ x[1] \in Bit /\ x[2] \in Bit
  OBVIOUS
<1>2. /\ Replicated(x, 0).value2 = x[0]
      /\ Flip(Replicated(x, 0).value1, Replicated(x, 0).value2) = x[2]
      /\ Replicated(x, 1).value2 = x[1]
      /\ Flip(Replicated(x, 1).value1, Replicated(x, 1).value2) = x[0]
      /\ Replicated(x, 2).value2 = x[2]
      /\ Flip(Replicated(x, 2).value1, Replicated(x, 2).value2) = x[1]
  <2>1. (0 + 2) % 3 = 2 /\ (1 + 2) % 3 = 0 /\ (2 + 2) % 3 = 1 /\ 0 \in 0..2 /\ 1 \in 0..2 /\ 2 \in 0..2
    OBVIOUS
  <2> QED BY <2>1, Parts
<1>3. m[0] = [label_1 |-> L(1, x[0]), coms |-> coms(3), decom |-> l.open[3][x[2]], hash |-> coms(2)]
  <2>1. m[0] = B2YMsg1(crs, delta, r, 3, x[0], x[2])
    BY <1>2 DEF B2YMessage, B2YMsg1P1
  <2>2. 5 - 3 = 2
    OBVIOUS
  <2> QED BY <2>1, <2>2 DEF B2YMsg1
<1>4. m[1] = [label_1 |-> L(1, x[0]), coms |-> coms(2), decom |-> l.open[2][x[1]], hash |-> coms(3)]
  <2>1. m[1] = B2YMsg1(crs, delta, r, 2, x[0], x[1])
    BY <1>2 DEF B2YMessage, B2YMsg1P2
  <2>2. 5 - 2 = 3
    OBVIOUS
  <2> QED BY <2>1, <2>2 DEF B2YMsg1
<1>5. l.open[2][x[1]][1] = L(2, x[1]) /\ l.open[3][x[2]][1] = L(3, x[2])
  BY <1>1 DEF B2YLabels, Bit
<1>6. B2YError(crs, m, Replicated(x, 2)) = ""
  <2> HIDE DEF m, l, L
  <2>1. Verify(crs, m[1].decom, m[1].coms[x[1]]) /\ Verify(crs, m[0].decom, m[0].coms[x[2]])
    BY <1>1, <1>3, <1>4, SMTT(30) DEF Verify, Bit
  <2>2. m[0].label_1 = m[1].label_1 /\ m[1].coms = m[0].hash /\ m[0].coms = m[1].hash
    BY <1>3, <1>4, SMTT(30)
  <2> QED BY <1>2, <2>1, <2>2 DEF B2YError
<1>7. B2YLabel(m) = LabelOf(Flip(Flip(x[0], x[1]), x[2]), B2YFLabel(delta, r), delta)
  <2>1. L(1, x[0]) \oplus L(2, x[1]) = LabelOf(Flip(x[0], x[1]), l.f[1] \oplus l.f[2], delta)
    BY <1>1, LabelSum
  <2>2. LabelOf(Flip(x[0], x[1]), l.f[1] \oplus l.f[2], delta) \oplus L(3, x[2])
          = LabelOf(Flip(Flip(x[0], x[1]), x[2]), (l.f[1] \oplus l.f[2]) \oplus l.f[3], delta)
    BY <1>1, FlipBit, LabelSum
  <2>3. B2YLabel(m) = (L(1, x[0]) \oplus L(2, x[1])) \oplus L(3, x[2])
    <3> HIDE DEF m, l, L
    <3> QED BY <1>3, <1>4, <1>5, SMTT(30) DEF B2YLabel
  <2>4. B2YFLabel(delta, r) = (l.f[1] \oplus l.f[2]) \oplus l.f[3]
    BY DEF B2YFLabel
  <2> QED BY <2>1, <2>2, <2>3, <2>4
<1> QED BY <1>6, <1>7, Zenon

\* A Yao share of bit v becomes a replicated one: with any mask, the
\* evaluator's masked label is one the garbler knows, the evaluator accepts
\* the garblers' commitments, and the three shares are of one sharing of v.
THEOREM YaoToBit ==
    ASSUME NEW crs, NEW delta, Lsb \in delta, NEW r, NEW f, NEW wyr, NEW v \in Bit, NEW y \in Bit
    PROVE  LET wr0   == Y2BMask(delta, y, wyr)
               label == LabelOf(v, f, delta)
               wxz   == label \oplus wyr
               msg   == Y2BMsg2(crs, wr0, r, f, delta)
               m     == [i \in {0, 1} |-> [coms |-> msg.coms, wits |-> msg.wits]]
           IN  /\ InPair(wxz, msg.wz[0], msg.wz[1])
               /\ Y2BError(crs, m, wxz, lsb(label), y) = ""
               /\ \E x \in [0..2 -> Bit] :
                    /\ Flip(Flip(x[0], x[1]), x[2]) = v
                    /\ Y2BShare0(f, y) = Replicated(x, 0)
                    /\ Y2BShare1(f, wxz, wr0) = Replicated(x, 1)
                    /\ Y2BShare2(label, y) = Replicated(x, 2)
<1> DEFINE wr0   == Y2BMask(delta, y, wyr)
           label == LabelOf(v, f, delta)
           wxz   == label \oplus wyr
           msg   == Y2BMsg2(crs, wr0, r, f, delta)
           m     == [i \in {0, 1} |-> [coms |-> msg.coms, wits |-> msg.wits]]
           p     == lsb(label)
           q     == Flip(p, y)
<1>1. p = Flip(v, lsb(f)) /\ p \in Bit /\ lsb(f) \in Bit /\ q \in Bit
  BY LabelLsb, LsbBit, FlipBit
<1>2. wxz = LabelOf(Flip(v, y), wr0 \oplus f, delta)
  <2>1. CASE v = 0 /\ y = 0 BY <2>1 DEF LabelOf, If, Flip, Y2BMask, \oplus
  <2>2. CASE v = 0 /\ y = 1 BY <2>2 DEF LabelOf, If, Flip, Y2BMask, \oplus
  <2>3. CASE v = 1 /\ y = 0 BY <2>3 DEF LabelOf, If, Flip, Y2BMask, \oplus
  <2>4. CASE v = 1 /\ y = 1 BY <2>4 DEF LabelOf, If, Flip, Y2BMask, \oplus
  <2> QED BY <2>1, <2>2, <2>3, <2>4 DEF Bit
<1>3. msg.wz = [b \in {0, 1} |-> LabelOf(b, wr0 \oplus f, delta)]
  BY DEF Y2BMsg2
<1>4. msg.wz[Flip(v, y)] = wxz
  <2>1. Flip(v, y) \in {0, 1} BY FlipBit DEF Bit
  <2> HIDE DEF msg, wxz
  <2> QED BY <1>2, <1>3, <2>1
<1>5. InPair(wxz, msg.wz[0], msg.wz[1])
  <2> HIDE DEF msg, wxz
  <2> QED BY <1>4, FlipBit DEF InPair, Bit
<1>6. Y2BError(crs, m, wxz, p, y) = ""
  <2>1. Flip(q, lsb(f)) = Flip(v, y)
    <3> HIDE DEF p
    <3> QED BY <1>1 DEF Flip, Bit
  <2>2. msg.coms[q] = Commit(crs, msg.wz[Flip(q, lsb(f))], r[q + 1])
    BY <1>1 DEF Y2BMsg2, Bit
  <2>3. msg.wits[q + 1] = r[q + 1]
    <3>1. msg.wits = <<r[1], r[2]>> BY DEF Y2BMsg2
    <3> HIDE DEF msg, q
    <3>2. q = 0 \/ q = 1 BY <1>1 DEF Bit
    <3> QED BY <3>1, <3>2
  <2>4. Verify(crs, <<wxz, m[0].wits[q + 1]>>, m[0].coms[q])
    <3>1. m[0].wits = msg.wits /\ m[0].coms = msg.coms
      OBVIOUS
    <3> HIDE DEF m, msg, q, wxz
    <3> QED BY <3>1, <2>1, <2>2, <2>3, <1>4 DEF Verify
  <2>5. m[0].coms = m[1].coms /\ m[0].wits = m[1].wits
    OBVIOUS
  <2> HIDE DEF m, wxz, p
  <2> QED BY <2>4, <2>5 DEF Y2BError
<1>7. \E x \in [0..2 -> Bit] :
        /\ Flip(Flip(x[0], x[1]), x[2]) = v
        /\ Y2BShare0(f, y) = Replicated(x, 0)
        /\ Y2BShare1(f, wxz, wr0) = Replicated(x, 1)
        /\ Y2BShare2(label, y) = Replicated(x, 2)
  <2> DEFINE x == [i \in 0..2 |-> IF i = 0 THEN lsb(f) ELSE IF i = 1 THEN q ELSE y]
  <2>1. x \in [0..2 -> Bit]
    BY <1>1
  <2>2. x[0] = lsb(f) /\ x[1] = q /\ x[2] = y
    OBVIOUS
  <2>3. (0 + 2) % 3 = 2 /\ (1 + 2) % 3 = 0 /\ (2 + 2) % 3 = 1
    OBVIOUS
  <2>4. Flip(lsb(wxz), lsb(wr0)) = q
    <3>1. lsb(wxz) = Flip(p, lsb(wyr))
      BY XorLsb
    <3>2. lsb(wr0) = Flip(y, lsb(wyr))
      BY LabelLsb DEF Y2BMask
    <3>3. lsb(wyr) \in Bit
      BY LsbBit
    <3> HIDE DEF p, wxz, wr0
    <3> QED BY <1>1, <3>1, <3>2, <3>3 DEF Flip, Bit
  <2> HIDE DEF x
  <2>5. Flip(Flip(x[0], x[1]), x[2]) = v
    <3> HIDE DEF p
    <3> QED BY <1>1, <2>2 DEF Flip, Bit
  <2>6. Y2BShare0(f, y) = Replicated(x, 0)
    BY <2>2, <2>3 DEF Y2BShare0, Replicated
  <2>7. Y2BShare1(f, wxz, wr0) = Replicated(x, 1)
    <3> HIDE DEF q, wxz, wr0
    <3> QED BY <2>2, <2>3, <2>4 DEF Y2BShare1, Replicated
  <2>8. Y2BShare2(label, y) = Replicated(x, 2)
    BY <2>2, <2>3 DEF Y2BShare2, Replicated, Flip
  <2> QED BY <2>1, <2>5, <2>6, <2>7, <2>8
<1> QED BY <1>5, <1>6, <1>7, Zenon

=============================================================================
