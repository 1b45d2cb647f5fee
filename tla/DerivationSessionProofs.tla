---------------------- MODULE DerivationSessionProofs ----------------------
(***************************************************************************)
(* Proofs about DerivationSession: type correctness, the order in which    *)
(* the output is opened, that only a sharing that fits opens it, that      *)
(* finished sessions stay finished, and that the session implements        *)
(* KeyRelease.                                                             *)
(*                                                                         *)
(* They follow from one inductive invariant, IInv.  Its core is            *)
(* Truthful: what a message on its way claims about its sender (a TRUE     *)
(* verification bit, the output labels, the decoded bits) is so.  The      *)
(* claims are about states a sender never leaves, so delaying, reordering  *)
(* and repeating messages keeps them true.  Two more invariants follow, of *)
(* where the sessions' values come from (Traces) and of the order of their *)
(* messages (Exchange).                                                    *)
(***************************************************************************)
EXTENDS DerivationSession, SequenceTheorems, TLAPS

Truthful(m) ==
    /\ MaxStale = 0 => m.run = This
    /\ m.run = This =>
         /\ m.kind = "Bit" /\ m.val.bit => m.from \in said
         /\ m.kind = "Labels" => 2 \in said
         /\ m.kind = "Bits" => phase[m.from] = "Done"

\* What the transport may hold for p, and what p's session may buffer.
Box(p) == {m \in Message : Addressed(p, m) /\ Truthful(m)}
Buf(p) == {m \in Box(p) : m.kind # "Abort"}

PhaseTypes ==
    /\ phase \in [Party -> PhaseName]
    /\ phase[2] \in EvaluatorPhases /\ \A q \in Garbler : phase[q] \in GarblerPhases

DataTypes ==
    /\ ctx \in [Party -> Context]
    /\ keyPrev \in [Party -> SUBSET Runs]
    /\ wires \in Wires
    /\ keys \in [Party -> SUBSET Runs]

SessionTypes == PhaseTypes /\ DataTypes /\ said \subseteq Party

SlotTypes ==
    /\ slot \in [Party -> [Party -> Message \cup {NoMsg}]]
    /\ \A p, q \in Party : slot[p][q] = NoMsg \/ (slot[p][q] \in Buf(p) /\ slot[p][q].from = q)

InboxTypes ==
    /\ inbox \in [Party -> Seq(Message)]
    /\ \A p \in Party : inbox[p] \in Seq(Box(p))

PendingTypes ==
    /\ pending \in [Party -> Seq(Message)]
    /\ \A p \in Party : pending[p] \in Seq(Buf(p))

HostTypes ==
    /\ active \in Party \cup {Nobody}
    /\ rejected \in [Party -> Rejection \cup {NoReject}]
    /\ stopped \in [Party -> BOOLEAN]
    /\ faults \in Nat

Ordered ==
    MaxStale = 0 =>
      /\ OutputInOrder
      /\ \A q \in Garbler : phase[q] = "GarblerWaitLabels" => q \in said

\* A finished session holds no message and no call of it is running.
Quiet == \A p \in Party : phase[p] \in Terminal => pending[p] = <<>> /\ active # p

IInv == /\ SessionTypes /\ SlotTypes /\ InboxTypes /\ PendingTypes /\ HostTypes
        /\ Ordered /\ Quiet

\* What no step takes back.
Growth == /\ said \subseteq said'
          /\ \A q \in Party : phase[q] = "Done" => phase'[q] = "Done"

\* p's label stream moves on by n.
Advance(p, n) == ctx' = [ctx EXCEPT ![p].prf = @ + n]

-----------------------------------------------------------------------------
(* Sequences.                                                              *)

\* Removing an element keeps the type of a sequence (Vec::remove).
LEMMA RemoveAtInSeq ==
  ASSUME NEW S, NEW s \in Seq(S), NEW i \in DOMAIN s
  PROVE  RemoveAt(s, i) \in Seq(S)
<1>1. Len(s) \in Nat /\ DOMAIN s = 1..Len(s) /\ \A k \in 1..Len(s) : s[k] \in S
  BY LenProperties, ElementOfSeq
<1>2. SubSeq(s, 1, i - 1) \in Seq(S)
  <2>1. \A k \in 1..(i - 1) : s[k] \in S
    BY <1>1
  <2> QED BY <2>1, <1>1, SubSeqProperties
<1>3. SubSeq(s, i + 1, Len(s)) \in Seq(S)
  <2>1. \A k \in (i + 1)..Len(s) : s[k] \in S
    BY <1>1
  <2> QED BY <2>1, <1>1, SubSeqProperties
<1> QED BY <1>2, <1>3, ConcatProperties DEF RemoveAt

\* A batch of one message and what it leaves are sequences of the same type.
LEMMA SinglesInSeq ==
  ASSUME NEW S, NEW s \in Seq(S), NEW b \in Singles(s)
  PROVE  b.msgs \in Seq(S) /\ b.rest \in Seq(S) /\ b.msgs[1] \in S
<1>1. PICK i \in Deliverable(s) : b = [msgs |-> <<s[i]>>, rest |-> RemoveAt(s, i)]
  BY DEF Singles
<1>2. i \in DOMAIN s /\ s[i] \in S
  BY <1>1, LenProperties, ElementOfSeq DEF Deliverable
<1> QED BY <1>1, <1>2, RemoveAtInSeq

\* So are a batch of any length and what it leaves.
LEMMA BatchesInSeq ==
  ASSUME NEW S, NEW s \in Seq(S), NEW b \in Batches(s)
  PROVE  b.msgs \in Seq(S) /\ b.rest \in Seq(S)
<1>1. CASE b \in Singles(s)
  BY <1>1, SinglesInSeq
<1>2. CASE b \in Doubles(s)
  <2>1. PICK t \in Singles(s) : \E j \in Deliverable(t.rest) :
          b = [msgs |-> Append(t.msgs, t.rest[j]), rest |-> RemoveAt(t.rest, j)]
    BY <1>2 DEF Doubles
  <2> PICK j \in Deliverable(t.rest) :
          b = [msgs |-> Append(t.msgs, t.rest[j]), rest |-> RemoveAt(t.rest, j)]
    BY <2>1
  <2>2. t.msgs \in Seq(S) /\ t.rest \in Seq(S)
    BY SinglesInSeq
  <2>3. j \in DOMAIN t.rest /\ t.rest[j] \in S
    BY <2>2, LenProperties, ElementOfSeq DEF Deliverable
  <2> QED BY <2>2, <2>3, RemoveAtInSeq
<1> QED BY <1>1, <1>2 DEF Batches

\* A sequence all of whose elements are in a subset is a sequence over it.
LEMMA SeqOfSubset ==
  ASSUME NEW S, NEW T, NEW s \in Seq(S), \A i \in DOMAIN s : s[i] \in T
  PROVE  s \in Seq(T)
<1>1. Len(s) \in Nat /\ DOMAIN s = 1..Len(s) /\ s \in [1..Len(s) -> S]
  BY LenProperties
<1>2. s \in [1..Len(s) -> T]
  BY <1>1
<1> QED BY <1>1, <1>2, SeqDef

-----------------------------------------------------------------------------
(* Messages.                                                               *)

\* A payload with any of its fields set is a payload.
LEMMA PayloadType ==
  ASSUME NEW c \in SUBSET Runs, NEW d \in SUBSET Runs, NEW o \in SUBSET Runs,
         NEW n \in Nat, NEW b \in BOOLEAN
  PROVE  [crs |-> c, seed |-> d, own |-> o, prf |-> n, bit |-> b] \in Payload
BY DEF Payload

\* A message of p is a message, addressed to its receiver; unless it makes a
\* claim, it is truthful.
LEMMA NewMessage ==
  ASSUME NEW p \in Party, NEW q \in Party, NEW k \in Kind, NEW v \in Payload
  PROVE  /\ Msg(p, q, k, v) \in Message
         /\ Addressed(q, Msg(p, q, k, v))
         /\ k \notin {"Bit", "Labels", "Bits"} => Msg(p, q, k, v) \in Box(q)
         /\ k \notin {"Bit", "Labels", "Bits"} => Msg(p, q, k, v) \in Box(q)'
         /\ Truthful(Msg(p, q, k, v))' => Msg(p, q, k, v) \in Box(q)'
<1>1. Msg(p, q, k, v) \in Message /\ Addressed(q, Msg(p, q, k, v))
  BY RunsAssumption DEF Msg, Message, Addressed
<1>2. k \notin {"Bit", "Labels", "Bits"} => Truthful(Msg(p, q, k, v)) /\ Truthful(Msg(p, q, k, v))'
  BY DEF Msg, Truthful
<1> QED BY <1>1, <1>2 DEF Box, Addressed

\* As long as nothing is taken back, a truthful message stays truthful.
LEMMA StaysTruthful ==
  ASSUME Growth, NEW p \in Party
  PROVE  Box(p) \subseteq Box(p)' /\ Buf(p) \subseteq Buf(p)'
<1>1. ASSUME NEW m \in Message, Truthful(m) PROVE Truthful(m)'
  BY <1>1 DEF Truthful, Growth, Message
<1> QED BY <1>1 DEF Box, Buf, Addressed

\* Posting truthful messages keeps the transport's type.
LEMMA PostStep ==
  ASSUME InboxTypes, Growth, NEW out, Post(out), \A q \in Party : out[q] \in Seq(Box(q)')
  PROVE  InboxTypes'
<1>1. ASSUME NEW q \in Party PROVE inbox'[q] \in Seq(Box(q)') /\ inbox'[q] \in Seq(Message)
  <2>1. inbox[q] \in Seq(Box(q)')
    BY StaysTruthful, SeqMonotonic DEF InboxTypes
  <2>2. inbox'[q] = inbox[q] \o out[q]
    BY DEF Post
  <2>3. inbox'[q] \in Seq(Box(q)')
    BY <2>1, <2>2, ConcatProperties
  <2>4. Box(q)' \subseteq Message
    BY DEF Box
  <2> QED BY <2>3, <2>4, SeqMonotonic
<1>2. inbox' \in [Party -> Seq(Message)]
  BY <1>1 DEF Post
<1> QED BY <1>1, <1>2 DEF InboxTypes

\* Short sequences.
LEMMA ShortSeq ==
  ASSUME NEW S
  PROVE  /\ <<>> \in Seq(S)
         /\ \A a \in S : <<a>> \in Seq(S)
         /\ \A a, b \in S : <<a, b>> \in Seq(S)
OBVIOUS

\* An unchanged transport keeps its type.
LEMMA NoPostStep ==
  ASSUME InboxTypes, Growth, UNCHANGED inbox
  PROVE  InboxTypes'
BY StaysTruthful, SeqMonotonic DEF InboxTypes

\* Emptying p's collecting state keeps the slots' type.
LEMMA EmptySlots ==
  ASSUME SlotTypes, Growth, NEW p \in Party, slot' = [slot EXCEPT ![p] = NoSlots]
  PROVE  SlotTypes'
BY StaysTruthful DEF SlotTypes, NoSlots

\* So does filing a buffered message away.
LEMMA FillSlot ==
  ASSUME SlotTypes, Growth, NEW p \in Party, NEW m \in Buf(p), slot' = [slot EXCEPT ![p] = Filled(p, m)]
  PROVE  SlotTypes'
<1>1. m \in Message /\ m.from \in Party
  BY DEF Buf, Box, Message
<1>2. slot' \in [Party -> [Party -> Message \cup {NoMsg}]]
  BY <1>1 DEF SlotTypes, Filled
<1>3. ASSUME NEW r \in Party, NEW q \in Party
      PROVE  slot'[r][q] = NoMsg \/ (slot'[r][q] \in Buf(r) /\ slot'[r][q].from = q)
  BY <1>1 DEF SlotTypes, Filled
<1> QED BY <1>2, <1>3, StaysTruthful DEF SlotTypes

\* The messages in a pair come from the parties they are filed under.
LEMMA FilledTypes ==
  ASSUME SlotTypes, NEW p \in Party, NEW m \in Buf(p), NEW q \in Party, Filled(p, m)[q] # NoMsg
  PROVE  Filled(p, m)[q] \in Buf(p) /\ Filled(p, m)[q].from = q
<1>1. m \in Message /\ m.from \in Party
  BY DEF Buf, Box, Message
<1> QED BY <1>1 DEF SlotTypes, Filled

-----------------------------------------------------------------------------
(* One message handled.                                                    *)

\* What handling one message of p keeps.
Kept(p) == /\ SessionTypes' /\ SlotTypes' /\ InboxTypes' /\ Ordered' /\ Growth
           /\ \A q \in Party \ {p} : phase'[q] = phase[q]
           /\ phase'[p] # "Aborted"

\* The phases p can be in short of the output's opening.
Before(p) == (IF p = 2 THEN EvaluatorPhases ELSE GarblerPhases \ {"GarblerWaitLabels"}) \ Terminal

\* A step from a phase to another, short of the output's opening.
LEMMA PlainStep ==
  ASSUME SessionTypes, Ordered, NEW p \in Party, NEW next \in Before(p),
         phase' = [phase EXCEPT ![p] = next], said' = said, phase[p] \notin Terminal
  PROVE  /\ PhaseTypes' /\ Ordered' /\ Growth
         /\ \A q \in Party \ {p} : phase'[q] = phase[q]
         /\ phase'[p] # "Aborted"
<1>0. next \in PhaseName /\ next \notin Terminal /\ (p \in Garbler => next # "GarblerWaitLabels")
  BY DEF Before, PhaseName, EvaluatorPhases, GarblerPhases, SetupPhases, InputPhases,
         VerifyPhases, OutputPhases, Party, Garbler
<1>1. PhaseTypes'
  BY <1>0 DEF SessionTypes, PhaseTypes, Party, Garbler, Before
<1>2. Growth /\ (\A q \in Party \ {p} : phase'[q] = phase[q]) /\ phase'[p] # "Aborted"
  BY <1>0 DEF SessionTypes, PhaseTypes, Growth, Terminal
<1>3. Ordered'
  BY <1>0 DEF SessionTypes, PhaseTypes, Ordered, OutputInOrder, Terminal, Party, Garbler
<1> QED BY <1>1, <1>2, <1>3

\* Such a step with the messages it sends.
LEMMA GotoPost ==
  ASSUME IInv, NEW p \in Party, NEW next \in Before(p), Goto(p, next), said' = said,
         phase[p] \notin Terminal, DataTypes',
         NEW out, Post(out), \A q \in Party : out[q] \in Seq(Box(q)')
  PROVE  Kept(p)
<1>1. SessionTypes' /\ Ordered' /\ Growth /\ (\A q \in Party \ {p} : phase'[q] = phase[q])
        /\ phase'[p] # "Aborted"
  BY PlainStep DEF IInv, SessionTypes, Goto
<1>2. SlotTypes'
  BY <1>1, EmptySlots DEF IInv, Goto
<1>3. InboxTypes'
  BY <1>1, PostStep DEF IInv
<1> QED BY <1>1, <1>2, <1>3 DEF Kept

\* Such a step that sends nothing.
LEMMA GotoQuiet ==
  ASSUME IInv, NEW p \in Party, NEW next \in Before(p), Goto(p, next), said' = said,
         phase[p] \notin Terminal, DataTypes', UNCHANGED inbox
  PROVE  Kept(p)
<1>1. SessionTypes' /\ Ordered' /\ Growth /\ (\A q \in Party \ {p} : phase'[q] = phase[q])
        /\ phase'[p] # "Aborted"
  BY PlainStep DEF IInv, SessionTypes, Goto
<1>2. SlotTypes'
  BY <1>1, EmptySlots DEF IInv, Goto
<1>3. InboxTypes'
  BY <1>1, NoPostStep DEF IInv
<1> QED BY <1>1, <1>2, <1>3 DEF Kept

\* Messages that claim nothing may be sent at any time.
PlainKind == Kind \ {"Bit", "Labels", "Bits"}

LEMMA PlainSends ==
  ASSUME NEW p \in Party, NEW k \in PlainKind, NEW v \in Payload
  PROVE  /\ \A R, q : q \in Party => ToEach(R, p, k, v)[q] \in Seq(Box(q)')
         /\ \A r, q \in Party : To(r, Msg(p, r, k, v))[q] \in Seq(Box(q)')
<1>1. \A q \in Party : Msg(p, q, k, v) \in Box(q)'
  BY NewMessage DEF PlainKind
<1>2. ASSUME NEW R, NEW q \in Party PROVE ToEach(R, p, k, v)[q] \in Seq(Box(q)')
  <2>1. ToEach(R, p, k, v)[q] = IF q \in R THEN <<Msg(p, q, k, v)>> ELSE <<>>
    BY DEF ToEach
  <2> QED BY <1>1, <2>1, ShortSeq
<1>3. ASSUME NEW r \in Party, NEW q \in Party
      PROVE  To(r, Msg(p, r, k, v))[q] \in Seq(Box(q)')
  <2>1. To(r, Msg(p, r, k, v))[q] = IF q = r THEN <<Msg(p, r, k, v)>> ELSE <<>>
    BY DEF To
  <2> QED BY <1>1, <2>1, ShortSeq
<1> QED BY <1>2, <1>3

\* The kinds of the session's messages.
LEMMA PlainKinds ==
  /\ {"Bit", "Labels", "Bits"} \subseteq Kind
  /\ {"CommCrs", "PrfSeed", "GarbleKey", "KeyNext", "ShamirToRss", "EvaluatorBits",
      "GarblerInputCommit", "GarblerI3Commit", "Hash", "GarbledTables", "Label"} \subseteq PlainKind
BY DEF PlainKind, Kind, CommonRandomnessKinds, ShamirToRssKinds, BatchInputKinds,
       CircuitEvalKinds, OutputVerificationKinds, BatchOutputKinds

\* What a buffered message carries.
LEMMA BufTypes ==
  ASSUME NEW p \in Party, NEW m \in Buf(p)
  PROVE  /\ m \in Message /\ m.from \in Party /\ m.kind \in Kind /\ m.run \in Runs
         /\ m.val \in Payload
         /\ m.val.crs \in SUBSET Runs /\ m.val.seed \in SUBSET Runs /\ m.val.own \in SUBSET Runs
         /\ m.val.prf \in Nat /\ m.val.bit \in BOOLEAN
         /\ m.to = p /\ m.kind # "Abort" /\ Truthful(m)
<1>1. m \in Message /\ m.to = p /\ m.kind # "Abort" /\ Truthful(m)
  BY DEF Buf, Box, Addressed
<1>2. m.from \in Party /\ m.kind \in Kind /\ m.run \in Runs /\ m.val \in Payload
  BY <1>1 DEF Message
<1> QED BY <1>1, <1>2 DEF Payload

\* Setup: CRS, label seed and garble key (SetupYaoState::handle_message).
LEMMA SetupStep ==
  ASSUME IInv, NEW p \in Party, NEW m \in Buf(p),
         (p = 0 /\ SetupCrs0(m)) \/ (p = 1 /\ (SetupCrs1(m) \/ SetupPrf(m)))
           \/ (p = 2 /\ SetupGarbleKey(m))
  PROVE  Kept(p)
<1> DEFINE w == [Blank EXCEPT !.own = Mine]
<1>m. m.val.crs \in SUBSET Runs /\ m.val.seed \in SUBSET Runs
  BY BufTypes
<1>r. Mine \in SUBSET Runs
  BY RunsAssumption DEF Mine
<1>w. w \in Payload
  BY <1>r DEF Payload, Blank
<1>d. DataTypes
  BY DEF IInv, SessionTypes
<1>1. CASE p = 0 /\ SetupCrs0(m)
  <2> DEFINE v == [Blank EXCEPT !.crs = m.val.crs, !.seed = Mine]
             x == [Blank EXCEPT !.seed = Mine]
             out == [q \in Party |->
                       CASE q = 1 -> <<Msg(0, 1, "PrfSeed", v), Msg(0, 1, "KeyNext", w)>>
                         [] q = 2 -> <<Msg(0, 2, "GarbleKey", x)>>
                         [] OTHER -> <<>>]
  <2>1. v \in Payload /\ x \in Payload
    BY <1>m, <1>r DEF Payload, Blank
  <2>2. DataTypes'
    BY <1>1, <1>m, <1>r, <1>d DEF SetupCrs0, DataTypes, Context
  <2>3. "CommonRandomness" \in Before(p) /\ phase[p] \notin Terminal
    BY <1>1 DEF SetupCrs0, AcceptsCrs, Before, GarblerPhases, EvaluatorPhases, Terminal
  <2>4. Goto(p, "CommonRandomness") /\ said' = said /\ Post(out)
    BY <1>1 DEF SetupCrs0
  <2> HIDE DEF v, w, x
  <2>5. /\ Msg(0, 1, "PrfSeed", v) \in Box(1)' /\ Msg(0, 1, "KeyNext", w) \in Box(1)'
        /\ Msg(0, 2, "GarbleKey", x) \in Box(2)'
    BY <1>w, <2>1, NewMessage, PlainKinds DEF PlainKind, Party
  <2>6. \A q \in Party : out[q] \in Seq(Box(q)')
    BY <2>5, ShortSeq DEF Party
  <2> HIDE DEF out
  <2> QED BY <2>2, <2>3, <2>4, <2>6, GotoPost
<1>2. CASE p = 1 /\ SetupCrs1(m)
  <2>1. DataTypes'
    BY <1>2, <1>m, <1>d DEF SetupCrs1, DataTypes, Context
  <2>2. "WaitPrf" \in Before(p) /\ phase[p] \notin Terminal
    BY <1>2 DEF SetupCrs1, AcceptsCrs, Before, GarblerPhases, EvaluatorPhases, Terminal
  <2> QED BY <1>2, <2>1, <2>2, GotoQuiet DEF SetupCrs1
<1>3. CASE p = 1 /\ SetupPrf(m)
  <2>1. DataTypes'
    BY <1>3, <1>m, <1>d, ZenonT(40) DEF SetupPrf, DataTypes, Context
  <2>2. "CommonRandomness" \in Before(p) /\ phase[p] \notin Terminal
    BY <1>3 DEF SetupPrf, AcceptsPrf, Before, GarblerPhases, EvaluatorPhases, Terminal
  <2>3. Post(To(2, Msg(p, 2, "KeyNext", w))) /\ Goto(p, "CommonRandomness") /\ said' = said
    BY <1>3 DEF SetupPrf
  <2> HIDE DEF w
  <2>4. \A q \in Party : To(2, Msg(p, 2, "KeyNext", w))[q] \in Seq(Box(q)')
    BY <1>w, PlainSends, PlainKinds DEF Party
  <2> QED BY <2>1, <2>2, <2>3, <2>4, GotoPost
<1>4. CASE p = 2 /\ SetupGarbleKey(m)
  <2>1. DataTypes'
    BY <1>4, <1>m, <1>d DEF SetupGarbleKey, DataTypes, Context
  <2>2. "CommonRandomness" \in Before(p) /\ phase[p] \notin Terminal
    BY <1>4 DEF SetupGarbleKey, AcceptsGarbleKey, Before, GarblerPhases, EvaluatorPhases, Terminal
  <2>3. Post(To(0, Msg(p, 0, "KeyNext", w))) /\ Goto(p, "CommonRandomness") /\ said' = said
    BY <1>4 DEF SetupGarbleKey
  <2> HIDE DEF w
  <2>4. \A q \in Party : To(0, Msg(p, 0, "KeyNext", w))[q] \in Seq(Box(q)')
    BY <1>w, PlainSends, PlainKinds DEF Party
  <2> QED BY <2>1, <2>2, <2>3, <2>4, GotoPost
<1> QED BY <1>1, <1>2, <1>3, <1>4

\* The key of the previous party (CommonRandomnessState::handle_message).
LEMMA CommonRandomnessStep ==
  ASSUME IInv, NEW p \in Party, NEW m \in Buf(p), CommonRandomness(p, m)
  PROVE  Kept(p)
<1> DEFINE v == [Blank EXCEPT !.own = m.val.own \cup Mine]
<1>m. m.val.own \in SUBSET Runs /\ Mine \in SUBSET Runs
  BY BufTypes, RunsAssumption DEF Mine
<1>1. v \in Payload
  BY <1>m DEF Payload, Blank
<1>2. DataTypes'
  BY <1>m DEF CommonRandomness, IInv, SessionTypes, DataTypes
<1>3. "ShamirToRss" \in Before(p) /\ phase[p] \notin Terminal
  BY DEF CommonRandomness, AcceptsKey, Before, GarblerPhases, EvaluatorPhases, Terminal
<1>4. Goto(p, "ShamirToRss") /\ said' = said /\ Post(ToEach(Party \ {p}, p, "ShamirToRss", v))
  BY DEF CommonRandomness
<1> HIDE DEF v
<1>5. \A q \in Party : ToEach(Party \ {p}, p, "ShamirToRss", v)[q] \in Seq(Box(q)')
  BY <1>1, PlainSends, PlainKinds
<1> QED BY <1>2, <1>3, <1>4, <1>5, GotoPost

\* A message filed until its pair is there (the route_ functions).
LEMMA StoreFirstStep ==
  ASSUME IInv, NEW p \in Party, NEW m \in Buf(p), StoreFirst(p, m)
  PROVE  Kept(p)
<1>1. phase[p] \notin Terminal
  BY DEF StoreFirst, AcceptsFirst, Fills, Routed, Collects, BatchInputCollects, Terminal
<1>2. Growth /\ PhaseTypes' /\ DataTypes' /\ said' = said /\ phase' = phase
  BY DEF StoreFirst, IInv, SessionTypes, PhaseTypes, DataTypes, Growth
<1>3. SlotTypes'
  BY <1>2, FillSlot DEF StoreFirst, IInv
<1>4. InboxTypes'
  BY <1>2, NoPostStep DEF StoreFirst, IInv
<1>5. Ordered'
  BY <1>2 DEF IInv, Ordered, OutputInOrder
<1> QED BY <1>1, <1>2, <1>3, <1>4, <1>5 DEF Kept, IInv, SessionTypes, Terminal

\* A complete pair consists of buffered messages of the two peers.
LEMMA PairTypes ==
  ASSUME IInv, NEW p \in Party, NEW m \in Buf(p), HasBoth(p, Filled(p, m)), NEW q \in Party \ {p}
  PROVE  /\ Filled(p, m)[q] \in Buf(p) /\ Filled(p, m)[q].from = q
         /\ Filled(p, m)[q].val.own \in SUBSET Runs /\ Filled(p, m)[q].val.seed \in SUBSET Runs
<1>1. Filled(p, m)[q] \in Buf(p) /\ Filled(p, m)[q].from = q
  BY FilledTypes DEF IInv, HasBoth
<1> QED BY <1>1, BufTypes

\* The additive shares (ShamirToRssState::handle_message and
\* BatchInputYaoState::start).
\* Moving the label stream keeps the contexts' type.
LEMMA AdvanceTypes ==
  ASSUME DataTypes, NEW p \in Party, NEW n \in Nat, Advance(p, n)
  PROVE  ctx' \in [Party -> Context]
<1>1. ctx[p] \in Context
  BY DEF DataTypes
<1>2. [ctx[p] EXCEPT !.prf = @ + n] \in Context
  BY <1>1 DEF Context
<1> QED BY <1>2 DEF DataTypes, Advance

\* What a party may enter contains its share.
LEMMA EnteredTypes ==
  ASSUME NEW p \in Party, NEW x \in SUBSET Runs, NEW own \in Entered(p, x)
  PROVE  own \in SUBSET Runs /\ x \subseteq own
BY DEF Entered, Foreign

\* Without a misfit a party enters its share.
LEMMA EnteredFits ==
  ASSUME Misfit = Nobody, NEW p \in Party, NEW x
  PROVE  Entered(p, x) = {x}
BY DEF Entered, Nobody, Party

\* The first of a garbler's draws moves its stream by one position, the other
\* two together by two, and the circuit is garbled from the position between.
LEMMA FirstDraw ==
  ASSUME NEW p \in Party, NEW m, ShamirToRssGarbler(p, m)
  PROVE  Advance(p, 1)
BY DEF ShamirToRssGarbler, CommitInputs, Advance

LEMMA OtherDraws ==
  ASSUME DataTypes, NEW p \in Party, NEW m, GarblerEvalBits(p, m)
  PROVE  /\ Advance(p, 2)
         /\ Post([q \in Party |-> IF q # 2 THEN <<>> ELSE
               <<Msg(p, 2, "GarblerI3Commit",
                     [Blank EXCEPT !.crs = ctx[p].crs, !.seed = ctx[p].seed,
                                   !.prf = ctx[p].prf, !.own = m.val.own]),
                 Msg(p, 2, IF p = 0 THEN "Hash" ELSE "GarbledTables",
                     [Blank EXCEPT !.seed = ctx[p].seed, !.prf = ctx[p].prf + 1])>>])
<1>c. ctx[p] \in Context /\ ctx \in [Party -> Context]
  BY DEF DataTypes
<1>o. /\ OpenInputs(ctx[p]) \in Context
      /\ OpenInputs(ctx[p]).seed = ctx[p].seed /\ OpenInputs(ctx[p]).prf = ctx[p].prf + 1
  BY <1>c DEF OpenInputs, Context
<1>g. GarbleTables(OpenInputs(ctx[p])) = [ctx[p] EXCEPT !.prf = @ + 2]
  <2>1. (ctx[p].prf + 1) + 1 = ctx[p].prf + 2
    BY <1>c DEF Context
  <2> QED BY <1>c, <2>1 DEF OpenInputs, GarbleTables, Context
<1>1. Advance(p, 2)
  BY <1>g DEF GarblerEvalBits, Advance
<1> QED BY <1>o, <1>1 DEF GarblerEvalBits

LEMMA ShamirToRssStep ==
  ASSUME IInv, NEW p \in Party, NEW m \in Buf(p),
         ShamirToRssGarbler(p, m) \/ (p = 2 /\ ShamirToRssEvaluator(m))
  PROVE  Kept(p)
<1>a. AcceptsShares(p, m)
  BY DEF ShamirToRssGarbler, ShamirToRssEvaluator
<1>b. phase[p] = "ShamirToRss" /\ HasBoth(p, Filled(p, m))
  BY <1>a DEF AcceptsShares, Completes
<1>c. phase[p] \notin Terminal
  BY <1>b DEF Terminal
<1>d. DataTypes
  BY DEF IInv, SessionTypes
<1>m. Mine \in SUBSET Runs
  BY RunsAssumption DEF Mine
<1>s. Shares(p, Filled(p, m)) \in SUBSET Runs
  <2>1. keyPrev[p] \in SUBSET Runs
    BY <1>d DEF DataTypes
  <2>2. \A q \in Party \ {p} : Filled(p, m)[q].val.own \in SUBSET Runs
    BY <1>b, PairTypes
  <2> QED BY <1>m, <2>1, <2>2 DEF Shares
<1>e. \A own \in Entered(p, Shares(p, Filled(p, m))) : own \in SUBSET Runs
  BY <1>s, EnteredTypes
<1>1. CASE ShamirToRssGarbler(p, m)
  <2>0. PICK own \in Entered(p, Shares(p, Filled(p, m))) :
          Post(To(2, Msg(p, 2, "GarblerInputCommit",
                         [Blank EXCEPT !.crs = ctx[p].crs, !.seed = ctx[p].seed,
                                       !.prf = ctx[p].prf, !.own = own])))
    BY <1>1 DEF ShamirToRssGarbler
  <2> DEFINE v == [Blank EXCEPT !.crs = ctx[p].crs, !.seed = ctx[p].seed, !.prf = ctx[p].prf,
                                !.own = own]
  <2>1. v \in Payload
    <3>1. ctx[p] \in Context
      BY <1>d DEF DataTypes
    <3>2. ctx[p].crs \in SUBSET Runs /\ ctx[p].seed \in SUBSET Runs /\ ctx[p].prf \in Nat
      BY <3>1 DEF Context
    <3> HIDE DEF Shares
    <3> QED BY <1>e, <3>2 DEF Payload, Blank
  <2>2. DataTypes'
    BY <1>1, <1>d, FirstDraw, AdvanceTypes DEF ShamirToRssGarbler, DataTypes
  <2>3. "GarblerWaitEvalBits" \in Before(p)
    <3>1. p \in {0, 1}
      BY <1>1 DEF ShamirToRssGarbler, Garbler
    <3> QED BY <3>1 DEF Before, GarblerPhases, Terminal
  <2>4. /\ Goto(p, "GarblerWaitEvalBits") /\ said' = said
        /\ Post(To(2, Msg(p, 2, "GarblerInputCommit", v)))
    BY <1>1, <2>0 DEF ShamirToRssGarbler
  <2> HIDE DEF v
  <2>5. \A q \in Party : To(2, Msg(p, 2, "GarblerInputCommit", v))[q] \in Seq(Box(q)')
    BY <2>1, PlainSends, PlainKinds DEF Party
  <2> QED BY <1>c, <2>2, <2>3, <2>4, <2>5, GotoPost
<1>2. CASE p = 2 /\ ShamirToRssEvaluator(m)
  <2> DEFINE v == [Blank EXCEPT !.own = Mine]
  <2>1. v \in Payload
    BY <1>m DEF Payload, Blank
  <2>2. DataTypes'
    BY <1>2, <1>d, <1>e DEF ShamirToRssEvaluator, DataTypes, Wires
  <2>3. "EvaluatorWaitMsg1" \in Before(p)
    BY <1>2 DEF Before, EvaluatorPhases, Terminal
  <2>4. /\ Goto(p, "EvaluatorWaitMsg1") /\ said' = said
        /\ Post(ToEach(Garbler, p, "EvaluatorBits", v))
    BY <1>2 DEF ShamirToRssEvaluator
  <2> HIDE DEF v
  <2>5. \A q \in Party : ToEach(Garbler, p, "EvaluatorBits", v)[q] \in Seq(Box(q)')
    BY <2>1, PlainSends, PlainKinds DEF Party, Garbler
  <2> QED BY <1>c, <2>2, <2>3, <2>4, <2>5, GotoPost
<1> QED BY <1>1, <1>2

\* A garbler opens labels and garbles (GarblerWaitEvalBits).
LEMMA GarblerEvalBitsStep ==
  ASSUME IInv, NEW p \in Party, NEW m \in Buf(p), GarblerEvalBits(p, m)
  PROVE  Kept(p)
<1> DEFINE v == [Blank EXCEPT !.crs = ctx[p].crs, !.seed = ctx[p].seed,
                              !.prf = ctx[p].prf, !.own = m.val.own]
           w == [Blank EXCEPT !.seed = ctx[p].seed, !.prf = ctx[p].prf + 1]
           k == IF p = 0 THEN "Hash" ELSE "GarbledTables"
           out == [q \in Party |-> IF q # 2 THEN <<>> ELSE
                     <<Msg(p, 2, "GarblerI3Commit", v), Msg(p, 2, k, w)>>]
<1>d. DataTypes
  BY DEF IInv, SessionTypes
<1>c. ctx[p].crs \in SUBSET Runs /\ ctx[p].seed \in SUBSET Runs /\ ctx[p].prf \in Nat
  <2>1. ctx[p] \in Context
    BY <1>d DEF DataTypes
  <2> QED BY <2>1 DEF Context
<1>1. v \in Payload /\ w \in Payload
  <2>1. m.val.own \in SUBSET Runs /\ ctx[p].prf + 1 \in Nat
    BY <1>c, BufTypes
  <2> QED BY <1>c, <2>1 DEF Payload, Blank
<1>2. DataTypes'
  <2>1. Advance(p, 2)
    BY <1>d, OtherDraws
  <2> QED BY <1>d, <2>1, AdvanceTypes DEF GarblerEvalBits, DataTypes
<1>3. "GarblerWaitLabel" \in Before(p) /\ phase[p] = "GarblerWaitEvalBits"
  <2>1. phase[p] = "GarblerWaitEvalBits"
    BY DEF GarblerEvalBits, AcceptsEvalBits
  <2>2. p # 2
    BY <2>1 DEF IInv, SessionTypes, PhaseTypes, EvaluatorPhases, Terminal
  <2> QED BY <2>1, <2>2 DEF Before, GarblerPhases, Terminal
<1>4. Goto(p, "GarblerWaitLabel") /\ said' = said /\ Post(out)
  BY <1>d, OtherDraws DEF GarblerEvalBits
<1>5. \A q \in Party : out[q] \in Seq(Box(q)')
  <2>1. k \in PlainKind
    BY PlainKinds
  <2> HIDE DEF v, w, k
  <2>2. Msg(p, 2, "GarblerI3Commit", v) \in Box(2)' /\ Msg(p, 2, k, w) \in Box(2)'
    BY <1>1, <2>1, NewMessage, PlainKinds DEF PlainKind, Party
  <2> QED BY <2>2, ShortSeq
<1> HIDE DEF out
<1> QED BY <1>2, <1>3, <1>4, <1>5, GotoPost DEF Terminal

\* The evaluator's labels (process_msg1, process_msg2).
LEMMA EvaluatorInputStep ==
  ASSUME IInv, NEW m \in Buf(2), EvaluatorMsg1(m) \/ EvaluatorMsg2(m)
  PROVE  Kept(2)
<1>p. 2 \in Party /\ 0 \in Party \ {2} /\ 1 \in Party \ {2}
  BY DEF Party
<1>d. DataTypes
  BY DEF IInv, SessionTypes
<1>b. HasBoth(2, Filled(2, m))
  BY DEF EvaluatorMsg1, EvaluatorMsg2, AcceptsMsg1, AcceptsMsg2, Completes
<1>s. /\ Filled(2, m)[0].val.own \in SUBSET Runs /\ Filled(2, m)[0].val.seed \in SUBSET Runs
      /\ Filled(2, m)[1].val.own \in SUBSET Runs
  BY <1>b, <1>p, PairTypes
<1>1. CASE EvaluatorMsg1(m)
  <2>1. DataTypes'
    BY <1>1, <1>d, <1>s DEF EvaluatorMsg1, DataTypes, Wires
  <2>2. "EvaluatorWaitMsg2" \in Before(2) /\ phase[2] \notin Terminal
    BY <1>1 DEF EvaluatorMsg1, AcceptsMsg1, Before, EvaluatorPhases, Terminal
  <2> QED BY <1>1, <1>p, <2>1, <2>2, GotoQuiet DEF EvaluatorMsg1
<1>2. CASE EvaluatorMsg2(m)
  <2>1. DataTypes'
    BY <1>2, <1>d, <1>s DEF EvaluatorMsg2, DataTypes, Wires
  <2>2. "CircuitEval" \in Before(2) /\ phase[2] \notin Terminal
    BY <1>2 DEF EvaluatorMsg2, AcceptsMsg2, Before, EvaluatorPhases, Terminal
  <2> QED BY <1>2, <1>p, <2>1, <2>2, GotoQuiet DEF EvaluatorMsg2
<1> QED BY <1>1, <1>2

\* The evaluation of the circuit (CircuitEvalState::handle_message).
LEMMA EvaluateCircuitStep ==
  ASSUME IInv, NEW m \in Buf(2), EvaluateCircuit(m)
  PROVE  Kept(2)
<1> DEFINE v == [Blank EXCEPT !.seed = wires'.seed, !.own = wires'.own]
<1>p. 2 \in Party /\ 1 \in Party \ {2}
  BY DEF Party
<1>d. DataTypes
  BY DEF IInv, SessionTypes
<1>b. HasBoth(2, Filled(2, m))
  BY DEF EvaluateCircuit, AcceptsTables, Completes
<1>s. Filled(2, m)[1].val.seed \in SUBSET Runs
  BY <1>b, <1>p, PairTypes
<1>1. wires' \in Wires
  BY <1>d, <1>s, <1>p DEF EvaluateCircuit, DataTypes, Wires, Context
<1>2. DataTypes'
  BY <1>1, <1>d DEF EvaluateCircuit, DataTypes
<1>3. v \in Payload
  <2>1. wires'.seed \in SUBSET Runs /\ wires'.own \in SUBSET Runs
    BY <1>1 DEF Wires
  <2> QED BY <2>1 DEF Payload, Blank
<1>4. "EvaluatorWaitBit" \in Before(2) /\ phase[2] \notin Terminal
  BY DEF EvaluateCircuit, AcceptsTables, Before, EvaluatorPhases, Terminal
<1>5. Goto(2, "EvaluatorWaitBit") /\ said' = said /\ Post(ToEach(Garbler, 2, "Label", v))
  BY DEF EvaluateCircuit
<1> HIDE DEF v
<1>6. \A q \in Party : ToEach(Garbler, 2, "Label", v)[q] \in Seq(Box(q)')
  BY <1>p, <1>3, PlainSends, PlainKinds
<1> QED BY <1>p, <1>2, <1>4, <1>5, <1>6, GotoPost

\* The garblers' confirmation (OutputVerificationState::GarblerWaitLabel).
LEMMA GarblerVerifyStep ==
  ASSUME IInv, NEW p \in Party, NEW m \in Buf(p), GarblerVerify(p, m)
  PROVE  Kept(p)
<1> DEFINE v == [Blank EXCEPT !.bit = TRUE]
<1>1. phase[p] = "GarblerWaitLabel" /\ p \in Garbler
  <2>1. phase[p] = "GarblerWaitLabel"
    BY DEF GarblerVerify, AcceptsLabel, ReadsLabel
  <2> QED BY <2>1 DEF IInv, SessionTypes, PhaseTypes, EvaluatorPhases, Terminal, Party, Garbler
<1>2. phase' = [phase EXCEPT ![p] = "GarblerWaitLabels"] /\ said' = said \cup {p}
  BY DEF GarblerVerify, Goto
<1>3. PhaseTypes' /\ DataTypes' /\ said' \subseteq Party
  BY <1>1, <1>2 DEF GarblerVerify, IInv, SessionTypes, PhaseTypes, DataTypes, PhaseName,
     OutputPhases, GarblerPhases, Party, Garbler
<1>4. Growth
  BY <1>1, <1>2 DEF IInv, SessionTypes, PhaseTypes, Growth
<1>5. SlotTypes'
  BY <1>4, EmptySlots DEF GarblerVerify, Goto, IInv
<1>6. InboxTypes'
  <2>1. v \in Payload
    BY DEF Payload, Blank
  <2>2. Post(To(2, Msg(p, 2, "Bit", v)))
    BY DEF GarblerVerify
  <2> HIDE DEF v
  <2>3. Truthful(Msg(p, 2, "Bit", v))'
    BY <1>2 DEF Truthful, Msg
  <2>4. 2 \in Party
    BY DEF Party
  <2>5. Msg(p, 2, "Bit", v) \in Box(2)'
    BY <2>1, <2>3, <2>4, NewMessage, PlainKinds
  <2>6. \A q \in Party : To(2, Msg(p, 2, "Bit", v))[q] \in Seq(Box(q)')
    BY <2>5, ShortSeq DEF To
  <2> QED BY <1>4, <2>2, <2>6, PostStep DEF IInv
<1>7. Ordered'
  BY <1>1, <1>2 DEF IInv, SessionTypes, PhaseTypes, Ordered, OutputInOrder, Party, Garbler
<1> QED BY <1>2, <1>3, <1>4, <1>5, <1>6, <1>7 DEF Kept, IInv, SessionTypes, PhaseTypes

\* Opening the output (OutputVerificationState::EvaluatorWaitBits): both bits
\* are TRUE and came from the garblers, so both have confirmed.
LEMMA EvaluatorVerifiedStep ==
  ASSUME IInv, NEW m \in Buf(2), EvaluatorVerified(m)
  PROVE  /\ Kept(2)
         /\ MaxStale = 0 => Garbler \subseteq said
<1>p. 2 \in Party /\ Garbler = Party \ {2}
  BY DEF Party, Garbler
<1>1. phase' = [phase EXCEPT ![2] = "EvaluatorWaitBits"] /\ said' = said \cup {2}
  BY DEF EvaluatorVerified, Goto
<1>2. phase[2] = "EvaluatorWaitBit" /\ HasBoth(2, Filled(2, m))
  BY DEF EvaluatorVerified, AcceptsBit, Completes
<1>3. PhaseTypes' /\ DataTypes' /\ said' \subseteq Party
  BY <1>p, <1>1 DEF EvaluatorVerified, IInv, SessionTypes, PhaseTypes, DataTypes, PhaseName,
     OutputPhases, EvaluatorPhases, Garbler
<1>4. Growth
  BY <1>1, <1>2 DEF IInv, SessionTypes, PhaseTypes, Growth
<1>5. SlotTypes'
  BY <1>p, <1>4, EmptySlots DEF EvaluatorVerified, Goto, IInv
<1>6. InboxTypes'
  <2>1. wires.seed \in SUBSET Runs /\ wires.own \in SUBSET Runs
    BY DEF IInv, SessionTypes, DataTypes, Wires
  <2>2. PICK v \in Payload : Post(ToEach(Garbler, 2, "Labels", v))
    <3>1. [Blank EXCEPT !.seed = wires.seed, !.own = wires.own] \in Payload
      BY <2>1 DEF Payload, Blank
    <3> QED BY <3>1 DEF EvaluatorVerified
  <2>3. ASSUME NEW q \in Party PROVE Msg(2, q, "Labels", v) \in Box(q)'
    <3>1. Truthful(Msg(2, q, "Labels", v))'
      BY <1>1 DEF Truthful, Msg
    <3> QED BY <1>p, <3>1, NewMessage, PlainKinds
  <2>4. \A q \in Party : ToEach(Garbler, 2, "Labels", v)[q] \in Seq(Box(q)')
    BY <2>3, ShortSeq DEF ToEach
  <2> QED BY <1>4, <2>2, <2>4, PostStep DEF IInv
<1>7. ASSUME MaxStale = 0, NEW q \in Garbler PROVE q \in said
  <2>1. /\ Filled(2, m)[q] \in Buf(2) /\ Filled(2, m)[q].from = q
        /\ Truthful(Filled(2, m)[q])
    BY <1>p, <1>2, PairTypes, BufTypes
  <2>2. Filled(2, m)[q].kind = "Bit" /\ Filled(2, m)[q].val.bit
    BY DEF EvaluatorVerified, AcceptsBit, KindsAre, Garbler
  <2> QED BY <1>7, <2>1, <2>2 DEF Truthful
<1>8. Ordered'
  BY <1>p, <1>1, <1>2, <1>7 DEF IInv, SessionTypes, PhaseTypes, Ordered, OutputInOrder, Garbler
<1> QED BY <1>p, <1>1, <1>3, <1>4, <1>5, <1>6, <1>7, <1>8 DEF Kept, IInv, SessionTypes, PhaseTypes

\* A garbler finishes (BatchOutputYaoState::GarblerWaitLabels): it has
\* confirmed to reach this phase, and the labels were sent.
LEMMA GarblerDecodeStep ==
  ASSUME IInv, NEW p \in Party, NEW m \in Buf(p), GarblerDecode(p, m)
  PROVE  /\ Kept(p)
         /\ p \in Garbler
         /\ MaxStale = 0 => {p, 2} \subseteq said
<1> DEFINE v == [Blank EXCEPT !.own = m.val.own]
<1>1. phase[p] = "GarblerWaitLabels" /\ m.kind = "Labels" /\ p \in Garbler
  <2>1. phase[p] = "GarblerWaitLabels" /\ m.kind = "Labels"
    BY DEF GarblerDecode, AcceptsLabels
  <2> QED BY <2>1 DEF IInv, SessionTypes, PhaseTypes, EvaluatorPhases, Terminal, Party, Garbler
<1>m. m.val.own \in SUBSET Runs /\ Truthful(m)
  BY BufTypes
<1>2. phase' = [phase EXCEPT ![p] = "Done"] /\ said' = said
  BY DEF GarblerDecode, Goto
<1>3. PhaseTypes' /\ DataTypes' /\ said' \subseteq Party
  BY <1>1, <1>2, <1>m DEF GarblerDecode, IInv, SessionTypes, PhaseTypes, DataTypes, PhaseName,
     Terminal, GarblerPhases, Party, Garbler
<1>4. Growth
  BY <1>1, <1>2 DEF IInv, SessionTypes, PhaseTypes, Growth
<1>5. SlotTypes'
  BY <1>4, EmptySlots DEF GarblerDecode, Goto, IInv
<1>6. InboxTypes'
  <2>1. v \in Payload
    BY <1>m DEF Payload, Blank
  <2>2. Post(To(2, Msg(p, 2, "Bits", v)))
    BY DEF GarblerDecode
  <2> HIDE DEF v
  <2>3. Truthful(Msg(p, 2, "Bits", v))'
    BY <1>2 DEF Truthful, Msg, IInv, SessionTypes, PhaseTypes
  <2>4. 2 \in Party
    BY DEF Party
  <2>5. Msg(p, 2, "Bits", v) \in Box(2)'
    BY <2>1, <2>3, <2>4, NewMessage, PlainKinds
  <2>6. \A q \in Party : To(2, Msg(p, 2, "Bits", v))[q] \in Seq(Box(q)')
    BY <2>5, ShortSeq DEF To
  <2> QED BY <1>4, <2>2, <2>6, PostStep DEF IInv
<1>7. MaxStale = 0 => {p, 2} \subseteq said
  BY <1>1, <1>m DEF IInv, Ordered, Truthful
<1>8. Ordered'
  BY <1>1, <1>2, <1>7 DEF IInv, SessionTypes, PhaseTypes, Ordered, OutputInOrder, Party, Garbler
<1> QED BY <1>1, <1>2, <1>3, <1>4, <1>5, <1>6, <1>7, <1>8 DEF Kept, IInv, SessionTypes, PhaseTypes

\* The evaluator finishes (BatchOutputYaoState::EvaluatorWaitBits): a garbler
\* sends its bits as it finishes.
LEMMA EvaluatorDecodeStep ==
  ASSUME IInv, NEW m \in Buf(2), EvaluatorDecode(m)
  PROVE  /\ Kept(2)
         /\ MaxStale = 0 => \A q \in Garbler : phase[q] = "Done"
<1>p. 2 \in Party /\ Garbler = Party \ {2}
  BY DEF Party, Garbler
<1>1. phase' = [phase EXCEPT ![2] = "Done"] /\ said' = said
  BY DEF EvaluatorDecode, Goto
<1>2. phase[2] = "EvaluatorWaitBits" /\ HasBoth(2, Filled(2, m))
  BY DEF EvaluatorDecode, AcceptsBits, Completes
<1>m. m.val.own \in SUBSET Runs
  BY <1>p, BufTypes
<1>3. PhaseTypes' /\ DataTypes' /\ said' \subseteq Party
  BY <1>p, <1>1, <1>m DEF EvaluatorDecode, IInv, SessionTypes, PhaseTypes, DataTypes, PhaseName,
     Terminal, EvaluatorPhases
<1>4. Growth
  BY <1>1, <1>2 DEF IInv, SessionTypes, PhaseTypes, Growth
<1>5. SlotTypes'
  BY <1>p, <1>4, EmptySlots DEF EvaluatorDecode, Goto, IInv
<1>6. InboxTypes'
  BY <1>4, NoPostStep DEF EvaluatorDecode, IInv
<1>7. ASSUME MaxStale = 0, NEW q \in Garbler PROVE phase[q] = "Done"
  <2>1. /\ Filled(2, m)[q] \in Buf(2) /\ Filled(2, m)[q].from = q
        /\ Truthful(Filled(2, m)[q])
    BY <1>p, <1>2, PairTypes, BufTypes
  <2>2. Filled(2, m)[q].kind = "Bits"
    BY DEF EvaluatorDecode, AcceptsBits, KindsAre, Garbler
  <2> QED BY <1>7, <2>1, <2>2 DEF Truthful
<1>8. Ordered'
  BY <1>p, <1>1, <1>2, <1>7 DEF IInv, SessionTypes, PhaseTypes, Ordered, OutputInOrder
<1> QED BY <1>p, <1>1, <1>3, <1>4, <1>5, <1>6, <1>7, <1>8 DEF Kept, IInv, SessionTypes, PhaseTypes

\* Every handler.
LEMMA HandleStep ==
  ASSUME IInv, NEW p \in Party, NEW m \in Buf(p), Handle(p, m)
  PROVE  Kept(p)
BY SetupStep, CommonRandomnessStep, StoreFirstStep, ShamirToRssStep, GarblerEvalBitsStep,
   EvaluatorInputStep, EvaluateCircuitStep, GarblerVerifyStep, EvaluatorVerifiedStep,
   GarblerDecodeStep, EvaluatorDecodeStep DEF Handle

-----------------------------------------------------------------------------
(* The calls and the loop.                                                 *)

\* Appending truthful messages to p's buffer keeps the buffers' type.
LEMMA AppendStep ==
  ASSUME PendingTypes, Growth, NEW p \in Party, NEW s \in Seq(Buf(p)),
         pending' = [pending EXCEPT ![p] = @ \o s]
  PROVE  PendingTypes'
<1>1. ASSUME NEW q \in Party PROVE pending'[q] \in Seq(Buf(q)) /\ pending'[q] \in Seq(Message)
  <2>1. pending'[q] = IF q = p THEN pending[q] \o s ELSE pending[q]
    BY DEF PendingTypes
  <2>2. pending'[q] \in Seq(Buf(q))
    BY <2>1, ConcatProperties DEF PendingTypes
  <2>3. Buf(q) \subseteq Message
    BY DEF Buf, Box
  <2> QED BY <2>2, <2>3, SeqMonotonic
<1>2. pending' \in [Party -> Seq(Message)]
  BY <1>1 DEF PendingTypes
<1> QED BY <1>1, <1>2, StaysTruthful, SeqMonotonic DEF PendingTypes

\* So does removing a message or emptying the buffer.
LEMMA ConsumeStep ==
  ASSUME PendingTypes, Growth, NEW p \in Party,
         \/ pending' = [pending EXCEPT ![p] = <<>>]
         \/ \E i \in DOMAIN pending[p] : Consume(p, i)
         \/ UNCHANGED pending
  PROVE  PendingTypes'
<1>1. ASSUME NEW q \in Party PROVE pending'[q] \in Seq(Buf(q)) /\ pending'[q] \in Seq(Message)
  <2>1. pending[q] \in Seq(Buf(q))
    BY DEF PendingTypes
  <2>2. \/ pending'[q] = pending[q]
        \/ pending'[q] = <<>>
        \/ \E i \in DOMAIN pending[q] : pending'[q] = RemoveAt(pending[q], i)
    BY DEF PendingTypes, Consume
  <2>3. pending'[q] \in Seq(Buf(q))
    BY <2>1, <2>2, RemoveAtInSeq, ShortSeq
  <2>4. Buf(q) \subseteq Message
    BY DEF Buf, Box
  <2> QED BY <2>3, <2>4, SeqMonotonic
<1>2. pending' \in [Party -> Seq(Message)]
  BY <1>1 DEF PendingTypes, Consume
<1> QED BY <1>1, <1>2, StaysTruthful, SeqMonotonic DEF PendingTypes

\* Taking messages out of the transport keeps its type.
LEMMA TakeStep ==
  ASSUME InboxTypes, Growth, NEW p \in Party, NEW s \in Seq(Box(p)),
         inbox' = [inbox EXCEPT ![p] = s]
  PROVE  InboxTypes'
<1>1. ASSUME NEW q \in Party PROVE inbox'[q] \in Seq(Box(q)) /\ inbox'[q] \in Seq(Message)
  <2>1. inbox'[q] \in Seq(Box(q))
    BY DEF InboxTypes
  <2>2. Box(q) \subseteq Message
    BY DEF Box
  <2> QED BY <2>1, <2>2, SeqMonotonic
<1>2. inbox' \in [Party -> Seq(Message)]
  BY <1>1 DEF InboxTypes
<1> QED BY <1>1, <1>2, StaysTruthful, SeqMonotonic DEF InboxTypes

\* A step that leaves the session alone.
LEMMA SameSession ==
  ASSUME IInv, UNCHANGED session
  PROVE  SessionTypes' /\ SlotTypes' /\ Ordered' /\ Growth
<1>1. SessionTypes' /\ Ordered' /\ Growth
  BY DEF session, IInv, SessionTypes, PhaseTypes, DataTypes, Ordered, OutputInOrder, Growth
<1>2. SlotTypes'
  BY <1>1, StaysTruthful DEF session, IInv, SlotTypes
<1> QED BY <1>1, <1>2

\* Without an Abort among them, messages of the transport may be buffered.
LEMMA NoAbortInSeq ==
  ASSUME NEW p \in Party, NEW s \in Seq(Box(p)), ~HasAbort(s)
  PROVE  s \in Seq(Buf(p))
<1>1. \A i \in DOMAIN s : s[i] \in Box(p)
  BY LenProperties, ElementOfSeq
<1>2. \A i \in DOMAIN s : s[i] \in Buf(p)
  BY <1>1 DEF HasAbort, Buf
<1> QED BY <1>2, SeqOfSubset

\* The calls that start the loop: handle_messages up to the loop.
LEMMA CallStep ==
  ASSUME IInv, NEW p \in Party, HandleMessages(p) \/ Redeliver(p) \/ Poll(p)
  PROVE  IInv'
<1>1. SessionTypes' /\ SlotTypes' /\ Ordered' /\ Growth
  BY SameSession DEF HandleMessages, Redeliver, Poll
<1>2. HostTypes'
  <2>1. active' = p /\ rejected' = rejected /\ stopped' = stopped /\ faults' \in {faults, faults + 1}
    BY DEF HandleMessages, Redeliver, Poll, host
  <2>2. faults' \in Nat
    BY <2>1 DEF IInv, HostTypes
  <2> QED BY <2>1, <2>2 DEF IInv, HostTypes
<1>3. inbox[p] \in Seq(Box(p))
  BY DEF IInv, InboxTypes
<1>4. InboxTypes' /\ PendingTypes'
  <2>1. CASE HandleMessages(p)
    <3>1. PICK b \in Batches(inbox[p]) :
            /\ ~HasAbort(b.msgs)
            /\ pending' = [pending EXCEPT ![p] = @ \o b.msgs]
            /\ inbox' = [inbox EXCEPT ![p] = b.rest]
      BY <2>1 DEF HandleMessages
    <3>2. b.msgs \in Seq(Box(p)) /\ b.rest \in Seq(Box(p))
      BY <1>3, BatchesInSeq
    <3>3. b.msgs \in Seq(Buf(p))
      BY <3>1, <3>2, NoAbortInSeq
    <3> QED BY <1>1, <3>1, <3>2, <3>3, AppendStep, TakeStep DEF IInv
  <2>2. CASE Redeliver(p)
    <3>1. PICK b \in Singles(inbox[p]) :
            /\ ~HasAbort(b.msgs)
            /\ pending' = [pending EXCEPT ![p] = @ \o b.msgs]
      BY <2>2 DEF Redeliver
    <3>2. b.msgs \in Seq(Box(p))
      BY <1>3, SinglesInSeq
    <3>3. b.msgs \in Seq(Buf(p))
      BY <3>1, <3>2, NoAbortInSeq
    <3>4. inbox' = inbox
      BY <2>2 DEF Redeliver
    <3> QED BY <1>1, <3>1, <3>3, <3>4, AppendStep, NoPostStep DEF IInv
  <2>3. CASE Poll(p)
    BY <1>1, <2>3, ConsumeStep, NoPostStep DEF Poll, IInv
  <2> QED BY <2>1, <2>2, <2>3
<1>5. Quiet'
  <2>1. phase' = phase /\ phase[p] \notin Terminal /\ active' = p
    BY DEF HandleMessages, Redeliver, Poll, session
  <2>2. \A q \in Party \ {p} : pending'[q] = pending[q]
    BY DEF HandleMessages, Redeliver, Poll, IInv, PendingTypes
  <2> QED BY <2>1, <2>2 DEF IInv, Quiet
<1> QED BY <1>1, <1>2, <1>4, <1>5 DEF IInv

\* The calls that end without a loop, and the host's own Abort.
LEMMA ReturnStep ==
  ASSUME IInv, NEW p \in Party,
         HandleAfterEnd(p) \/ HandleMisdirected(p) \/ HostAbort(p) \/ LoopReturn(p)
  PROVE  IInv'
<1>1. SessionTypes' /\ SlotTypes' /\ Ordered' /\ Growth
  BY SameSession DEF HandleAfterEnd, HandleMisdirected, HostAbort, LoopReturn
<1>2. pending' = pending /\ active' \in {active, Nobody} /\ phase' = phase
  BY DEF HandleAfterEnd, HandleMisdirected, HostAbort, LoopReturn, session
<1>3. PendingTypes'
  BY <1>1, <1>2, ConsumeStep DEF IInv
<1>4. Quiet'
  BY <1>2 DEF IInv, Quiet, Party, Nobody
<1>5. inbox[p] \in Seq(Box(p))
  BY DEF IInv, InboxTypes
<1>6. CASE HandleAfterEnd(p) \/ LoopReturn(p)
  <2>1. HostTypes'
    BY <1>6 DEF HandleAfterEnd, LoopReturn, IInv, HostTypes, host
  <2>2. InboxTypes'
    <3>1. CASE HandleAfterEnd(p)
      <4>1. PICK b \in Batches(inbox[p]) : inbox' = [inbox EXCEPT ![p] = b.rest]
        BY <3>1 DEF HandleAfterEnd
      <4> QED BY <1>1, <1>5, <4>1, BatchesInSeq, TakeStep DEF IInv
    <3>2. CASE LoopReturn(p)
      BY <1>1, <3>2, NoPostStep DEF LoopReturn, IInv
    <3> QED BY <1>6, <3>1, <3>2
  <2> QED BY <1>1, <1>3, <1>4, <2>1, <2>2 DEF IInv
<1>7. CASE HandleMisdirected(p)
  <2>1. InboxTypes'
    <3>1. CASE UNCHANGED inbox
      BY <1>1, <3>1, NoPostStep DEF IInv
    <3>2. CASE \E b \in Singles(inbox[p]) : inbox' = [inbox EXCEPT ![p] = b.rest]
      <4>1. PICK b \in Singles(inbox[p]) : inbox' = [inbox EXCEPT ![p] = b.rest]
        BY <3>2
      <4> QED BY <1>1, <1>5, <4>1, SinglesInSeq, TakeStep DEF IInv
    <3> QED BY <1>7, <3>1, <3>2 DEF HandleMisdirected
  <2>2. PICK q \in Party \ {p} : \E b \in Singles(inbox[q]) :
          rejected' = [rejected EXCEPT ![p] =
            [kind |-> b.msgs[1].kind, from |-> b.msgs[1].from, phase |-> phase[p],
             run |-> b.msgs[1].run]]
    BY <1>7 DEF HandleMisdirected
  <2>3. PICK b \in Singles(inbox[q]) :
          rejected' = [rejected EXCEPT ![p] =
            [kind |-> b.msgs[1].kind, from |-> b.msgs[1].from, phase |-> phase[p],
             run |-> b.msgs[1].run]]
    BY <2>2
  <2>4. b.msgs[1] \in Message
    BY SinglesInSeq DEF IInv, InboxTypes
  <2>5. phase[p] \in PhaseName
    BY DEF IInv, SessionTypes, PhaseTypes
  <2>6. HostTypes'
    BY <1>7, <2>3, <2>4, <2>5 DEF HandleMisdirected, IInv, HostTypes, Rejection, Message
  <2> QED BY <1>1, <1>3, <1>4, <2>1, <2>6 DEF IInv
<1>8. CASE HostAbort(p)
  <2> DEFINE out == [q \in Party |-> IF q = p THEN <<>> ELSE <<Msg(p, 0, "Abort", Blank)>>]
  <2>1. HostTypes'
    BY <1>8 DEF HostAbort, IInv, HostTypes
  <2>2. Post(out)
    BY <1>8 DEF HostAbort
  <2>3. \A q \in Party : Msg(p, 0, "Abort", Blank) \in Box(q)'
    <3>1. Blank \in Payload /\ "Abort" \in Kind /\ 0 \in Party
      BY DEF Blank, Payload, Kind, Party
    <3>2. Msg(p, 0, "Abort", Blank) \in Box(0)' /\ Msg(p, 0, "Abort", Blank).kind = "Abort"
      BY <3>1, NewMessage DEF Msg
    <3> QED BY <3>2 DEF Box, Addressed
  <2>4. \A q \in Party : out[q] \in Seq(Box(q)')
    BY <2>3, ShortSeq
  <2> HIDE DEF out
  <2>5. InboxTypes'
    BY <1>1, <2>2, <2>4, PostStep DEF IInv
  <2> QED BY <1>1, <1>3, <1>4, <2>1, <2>5 DEF IInv
<1> QED BY <1>6, <1>7, <1>8

\* An Abort received.
LEMMA HandleAbortStep ==
  ASSUME IInv, NEW p \in Party, HandleAbort(p)
  PROVE  IInv'
<1>1. phase' = [phase EXCEPT ![p] = "Aborted"] /\ said' = said /\ phase[p] \notin Terminal
  BY DEF HandleAbort
<1>2. PhaseTypes' /\ DataTypes' /\ said' \subseteq Party
  BY <1>1 DEF HandleAbort, IInv, SessionTypes, PhaseTypes, DataTypes, PhaseName, Terminal,
     EvaluatorPhases, GarblerPhases, NoWires, Wires, Party, Garbler
<1>3. Growth
  BY <1>1 DEF IInv, SessionTypes, PhaseTypes, Growth, Terminal
<1>4. SlotTypes'
  BY <1>3, EmptySlots DEF HandleAbort, IInv
<1>5. InboxTypes'
  <2>1. PICK b \in Batches(inbox[p]) : inbox' = [inbox EXCEPT ![p] = b.rest]
    BY DEF HandleAbort
  <2>2. b.rest \in Seq(Box(p))
    BY BatchesInSeq DEF IInv, InboxTypes
  <2> QED BY <1>3, <2>1, <2>2, TakeStep DEF IInv
<1>6. PendingTypes'
  BY <1>3, ConsumeStep DEF HandleAbort, IInv
<1>7. HostTypes'
  BY DEF HandleAbort, IInv, HostTypes, host
<1>8. Ordered'
  BY <1>1 DEF IInv, SessionTypes, PhaseTypes, Ordered, OutputInOrder, Terminal, Party, Garbler
<1>9. Quiet'
  BY <1>1 DEF HandleAbort, Callable, IInv, SessionTypes, PhaseTypes, PendingTypes, Quiet, Terminal,
     Party, Nobody
<1> QED BY <1>2, <1>3, <1>4, <1>5, <1>6, <1>7, <1>8, <1>9 DEF IInv, SessionTypes

\* One turn of the loop that handles a message.
LEMMA LoopHandleStep ==
  ASSUME IInv, NEW p \in Party, LoopHandle(p)
  PROVE  IInv'
<1>1. PICK i \in DOMAIN pending[p] :
        /\ Handle(p, pending[p][i])
        /\ IF phase'[p] = "Done" THEN pending' = [pending EXCEPT ![p] = <<>>] ELSE Consume(p, i)
  BY DEF LoopHandle
<1>2. pending[p][i] \in Buf(p)
  BY LenProperties, ElementOfSeq DEF IInv, PendingTypes
<1>3. Kept(p)
  BY <1>1, <1>2, HandleStep
<1>4. PendingTypes'
  BY <1>1, <1>3, ConsumeStep DEF Kept, IInv
<1>5. active' \in {p, Nobody} /\ (phase'[p] = "Done" => active' = Nobody)
  BY DEF LoopHandle
<1>6. HostTypes'
  BY <1>5 DEF LoopHandle, IInv, HostTypes, host
<1>7. Quiet'
  <2>1. \A q \in Party \ {p} : pending'[q] = pending[q] /\ active' # q
    BY <1>1, <1>5 DEF Consume, IInv, PendingTypes, Party, Nobody
  <2>2. phase'[p] \in Terminal => pending'[p] = <<>> /\ active' # p
    BY <1>1, <1>3, <1>5 DEF Kept, Terminal, IInv, PendingTypes, Party, Nobody
  <2> QED BY <1>3, <2>1, <2>2 DEF Kept, IInv, Quiet
<1> QED BY <1>3, <1>4, <1>6, <1>7 DEF Kept, IInv

\* One turn of the loop that ends in an error.
LEMMA LoopRejectStep ==
  ASSUME IInv, NEW p \in Party, LoopReject(p)
  PROVE  IInv'
<1>1. PICK i \in DOMAIN pending[p] :
        /\ Consume(p, i)
        /\ slot' = [slot EXCEPT ![p] = SlotAfterError(p, pending[p][i])]
        /\ rejected' = [rejected EXCEPT ![p] =
             [kind |-> pending[p][i].kind, from |-> pending[p][i].from, phase |-> phase[p],
              run |-> pending[p][i].run]]
        /\ Post(To(2, Msg(p, 2, "Bit", Blank))) \/ UNCHANGED inbox
  BY DEF LoopReject
<1>2. pending[p][i] \in Buf(p)
  BY LenProperties, ElementOfSeq DEF IInv, PendingTypes
<1>3. SessionTypes' /\ Ordered' /\ Growth
  BY DEF LoopReject, IInv, SessionTypes, PhaseTypes, DataTypes, Ordered, OutputInOrder, Growth
<1>4. PendingTypes'
  BY <1>1, <1>3, ConsumeStep DEF IInv
<1>5. SlotTypes'
  <2>1. SlotAfterError(p, pending[p][i]) \in {Filled(p, pending[p][i]), NoSlots, slot[p]}
    BY DEF SlotAfterError
  <2>2. CASE slot' = [slot EXCEPT ![p] = Filled(p, pending[p][i])]
    BY <1>2, <1>3, <2>2, FillSlot DEF IInv
  <2>3. CASE slot' = [slot EXCEPT ![p] = NoSlots]
    BY <1>3, <2>3, EmptySlots DEF IInv
  <2>4. CASE slot' = [slot EXCEPT ![p] = slot[p]]
    BY <1>3, <2>4, StaysTruthful DEF IInv, SlotTypes
  <2> QED BY <1>1, <2>1, <2>2, <2>3, <2>4
<1>6. InboxTypes'
  <2>1. CASE UNCHANGED inbox
    BY <1>3, <2>1, NoPostStep DEF IInv
  <2>2. CASE Post(To(2, Msg(p, 2, "Bit", Blank)))
    <3>1. Blank \in Payload /\ 2 \in Party
      BY DEF Blank, Payload, Party
    <3>2. Truthful(Msg(p, 2, "Bit", Blank))'
      BY DEF Truthful, Msg, Blank
    <3>3. Msg(p, 2, "Bit", Blank) \in Box(2)'
      BY <3>1, <3>2, NewMessage, PlainKinds
    <3>4. \A q \in Party : To(2, Msg(p, 2, "Bit", Blank))[q] \in Seq(Box(q)')
      BY <3>3, ShortSeq DEF To
    <3> QED BY <1>3, <2>2, <3>4, PostStep DEF IInv
  <2> QED BY <1>1, <2>1, <2>2
<1>7. HostTypes'
  <2>1. phase[p] \in PhaseName
    BY DEF IInv, SessionTypes, PhaseTypes
  <2>2. /\ pending[p][i].kind \in Kind /\ pending[p][i].from \in Party
        /\ pending[p][i].run \in Runs
    BY <1>2, BufTypes
  <2> QED BY <1>1, <2>1, <2>2 DEF LoopReject, IInv, HostTypes, Rejection
<1>8. Quiet'
  <2>1. phase[p] \notin Terminal
    BY DEF LoopReject, IInv, Quiet
  <2>2. \A q \in Party \ {p} : pending'[q] = pending[q]
    BY <1>1 DEF Consume, IInv, PendingTypes
  <2>3. active' = Nobody /\ phase' = phase
    BY DEF LoopReject
  <2> QED BY <2>1, <2>2, <2>3 DEF IInv, Quiet, Party, Nobody
<1> QED BY <1>3, <1>4, <1>5, <1>6, <1>7, <1>8 DEF IInv

-----------------------------------------------------------------------------
(* The specification.                                                      *)

\* What an earlier run left in transit is a message, and claims nothing here.
LEMMA StaleTypes ==
  ASSUME NEW m \in StaleMessages
  PROVE  m \in Message /\ m.run # This
<1>1. PICK t \in Protocol, r \in Runs \ {This} :
        m = [from |-> t[1], to |-> t[2], kind |-> t[3], val |-> HonestPayload(r, t[3]), run |-> r]
  BY DEF StaleMessages
<1>2. t[1] \in Party /\ t[2] \in Party
  BY DEF Protocol, Party, Garbler, next_party
<1>3. t[3] \in Kind
  BY DEF Protocol, Kind, CommonRandomnessKinds, ShamirToRssKinds, BatchInputKinds,
         CircuitEvalKinds, OutputVerificationKinds, BatchOutputKinds
<1>4. HonestPayload(r, t[3]) \in Payload
  BY DEF HonestPayload, Payload
<1> QED BY <1>1, <1>2, <1>3, <1>4 DEF Message

\* The sessions start with the evaluator's CRS on its way, and nothing opened.
LEMMA InitStep ==
  ASSUME Init
  PROVE  IInv
<1>1. SessionTypes
  BY RunsAssumption DEF Init, SessionTypes, PhaseTypes, DataTypes, Context, Wires, NoWires, Mine, PhaseName,
     SetupPhases, EvaluatorPhases, GarblerPhases, Party, Garbler
<1>2. SlotTypes
  BY DEF Init, SlotTypes, NoSlots
<1>3. PendingTypes
  BY ShortSeq DEF Init, PendingTypes
<1>4. HostTypes
  BY DEF Init, HostTypes
<1>5. InboxTypes
  <2>1. PICK late \in {<<>>} \cup (IF MaxStale = 0 THEN {} ELSE {<<m>> : m \in StaleMessages}) :
          inbox = [p \in Party |->
                    (IF p = 2 THEN <<>>
                     ELSE <<Msg(2, p, "CommCrs", [Blank EXCEPT !.crs = Mine])>>)
                      \o (IF late # <<>> /\ late[1].to = p THEN late ELSE <<>>)]
    BY DEF Init
  <2>2. ASSUME NEW p \in Party
        PROVE  (IF p = 2 THEN <<>> ELSE <<Msg(2, p, "CommCrs", [Blank EXCEPT !.crs = Mine])>>)
                 \in Seq(Box(p))
    <3>1. [Blank EXCEPT !.crs = Mine] \in Payload
      BY RunsAssumption DEF Blank, Payload, Mine
    <3>2. 2 \in Party
      BY DEF Party
    <3>3. Msg(2, p, "CommCrs", [Blank EXCEPT !.crs = Mine]) \in Box(p)
      BY <3>1, <3>2, NewMessage, PlainKinds DEF PlainKind
    <3> QED BY <3>3, ShortSeq
  <2>3. ASSUME NEW p \in Party
        PROVE  (IF late # <<>> /\ late[1].to = p THEN late ELSE <<>>) \in Seq(Box(p))
    <3>1. CASE late # <<>> /\ late[1].to = p
      <4>1. MaxStale # 0 /\ \E m \in StaleMessages : late = <<m>>
        BY <2>1, <3>1
      <4>2. PICK m \in StaleMessages : late = <<m>>
        BY <4>1
      <4>3. m \in Box(p)
        BY <3>1, <4>1, <4>2, StaleTypes DEF Box, Addressed, Truthful
      <4> QED BY <3>1, <4>2, <4>3, ShortSeq
    <3>2. CASE ~(late # <<>> /\ late[1].to = p)
      BY <3>2, ShortSeq
    <3> QED BY <3>1, <3>2
  <2>4. ASSUME NEW p \in Party PROVE inbox[p] \in Seq(Box(p)) /\ inbox[p] \in Seq(Message)
    <3>1. inbox[p] \in Seq(Box(p))
      BY <2>1, <2>2, <2>3, ConcatProperties
    <3>2. Box(p) \subseteq Message
      BY DEF Box
    <3> QED BY <3>1, <3>2, SeqMonotonic
  <2> QED BY <2>1, <2>4 DEF InboxTypes
<1>6. Ordered /\ Quiet
  BY DEF Init, Ordered, OutputInOrder, Quiet, Terminal, Party, Garbler
<1> QED BY <1>1, <1>2, <1>3, <1>4, <1>5, <1>6 DEF IInv

\* Every step, and every stutter, keeps the invariant.
LEMMA NextStep ==
  ASSUME IInv, [Next]_vars
  PROVE  IInv'
<1>1. CASE Next
  <2>1. PICK p \in Party : \/ Call(p) \/ Redeliver(p) \/ Poll(p) \/ HandleAfterEnd(p)
                           \/ HandleMisdirected(p) \/ HostAbort(p) \/ Loop(p)
    BY <1>1 DEF Next
  <2> QED BY <2>1, CallStep, ReturnStep, HandleAbortStep, LoopHandleStep, LoopRejectStep
          DEF Call, Loop
<1>2. CASE UNCHANGED vars
  <2>1. SessionTypes' /\ SlotTypes' /\ Ordered' /\ Growth
    BY <1>2, SameSession DEF vars, session
  <2>2. InboxTypes' /\ PendingTypes'
    <3>1. 0 \in Party
      BY DEF Party
    <3> QED BY <1>2, <2>1, <3>1, NoPostStep, ConsumeStep DEF vars, IInv
  <2>3. HostTypes' /\ Quiet'
    BY <1>2 DEF vars, IInv, HostTypes, Quiet
  <2> QED BY <2>1, <2>2, <2>3 DEF IInv
<1> QED BY <1>1, <1>2

\* IInv holds in every reachable state.
LEMMA Invariance == Spec => []IInv
<1>1. Init => IInv
  BY InitStep
<1>2. IInv /\ [Next]_vars => IInv'
  BY NextStep
<1> QED BY <1>1, <1>2, PTL DEF Spec

\* Every variable keeps its type: a session stays in the phases of its role
\* (Phase) and buffers only messages addressed to it, no Abort among them
\* (the checks at the head of handle_messages).
THEOREM TypeCorrect == Spec => []TypeOK
<1>1. IInv => TypeOK
  <2>1. ASSUME IInv, NEW p \in Party
        PROVE  /\ pending[p] \in Seq({m \in Message : m.to = p /\ m.kind # "Abort"})
               /\ inbox[p] \in Seq({m \in Message : Addressed(p, m)})
    <3>1. /\ Buf(p) \subseteq {m \in Message : m.to = p /\ m.kind # "Abort"}
          /\ Box(p) \subseteq {m \in Message : Addressed(p, m)}
      BY DEF Buf, Box, Addressed
    <3> QED BY <2>1, <3>1, SeqMonotonic DEF IInv, PendingTypes, InboxTypes
  <2> QED BY <2>1 DEF IInv, SessionTypes, PhaseTypes, DataTypes, SlotTypes, InboxTypes,
             PendingTypes, HostTypes, TypeOK
<1> QED BY <1>1, Invariance, PTL

\* The output is opened in order: the evaluator sends the output labels only
\* after both garblers confirmed the check bit, and no party has keys before
\* the ones it depends on, for any transport and any number of faults, as
\* long as no message of an earlier run is delivered.
THEOREM OpeningInOrder ==
  ASSUME MaxStale = 0
  PROVE  Spec => []OutputInOrder
<1>1. IInv => OutputInOrder
  BY DEF IInv, Ordered
<1> QED BY <1>1, Invariance, PTL

\* A handler of one session writes no other session's keys.
LEMMA OwnKeys ==
  ASSUME IInv, NEW p \in Party, NEW m, Handle(p, m), NEW q \in Party \ {p}
  PROVE  keys'[q] = keys[q]
<1>1. keys \in [Party -> SUBSET Runs]
  BY DEF IInv, SessionTypes, DataTypes
<1>2. keys' = keys \/ \E k : keys' = [keys EXCEPT ![p] = k]
  BY DEF Handle, SetupCrs0, SetupCrs1, SetupPrf, SetupGarbleKey, CommonRandomness, StoreFirst,
         ShamirToRssGarbler, ShamirToRssEvaluator, GarblerEvalBits, EvaluatorMsg1, EvaluatorMsg2,
         EvaluateCircuit, GarblerVerify, EvaluatorVerified, GarblerDecode, EvaluatorDecode
<1> QED BY <1>1, <1>2

\* A finished session is left alone by every step.
LEMMA TerminalStep ==
  ASSUME IInv, [Next]_vars, NEW p \in Party, phase[p] \in Terminal
  PROVE  /\ phase'[p] = phase[p] /\ keys'[p] = keys[p]
         /\ pending'[p] = <<>> /\ active' # p
<1>1. pending[p] = <<>> /\ active # p
  BY DEF IInv, Quiet
<1>2. /\ phase \in [Party -> PhaseName] /\ pending \in [Party -> Seq(Message)] /\ p # Nobody
  BY DEF IInv, SessionTypes, PhaseTypes, PendingTypes, Party, Nobody
<1>3. CASE UNCHANGED vars
  BY <1>1, <1>3 DEF vars
<1>4. CASE Next
  <2>1. PICK q \in Party : \/ Call(q) \/ Redeliver(q) \/ Poll(q) \/ HandleAfterEnd(q)
                           \/ HandleMisdirected(q) \/ HostAbort(q) \/ Loop(q)
    BY <1>4 DEF Next
  <2>2. CASE HandleMessages(q) \/ Redeliver(q) \/ Poll(q)
    BY <1>1, <1>2, <2>2 DEF HandleMessages, Redeliver, Poll, session
  <2>3. CASE HandleAbort(q)
    BY <1>1, <1>2, <2>3 DEF HandleAbort
  <2>4. CASE HandleAfterEnd(q) \/ HandleMisdirected(q) \/ HostAbort(q) \/ LoopReturn(q)
    BY <1>1, <1>2, <2>4 DEF HandleAfterEnd, HandleMisdirected, HostAbort, LoopReturn, session
  <2>5. CASE LoopHandle(q)
    <3>1. PICK i \in DOMAIN pending[q] :
            /\ Handle(q, pending[q][i])
            /\ \/ pending' = [pending EXCEPT ![q] = <<>>]
               \/ pending' = [pending EXCEPT ![q] = RemoveAt(@, i)]
      BY <2>5 DEF LoopHandle, Consume
    <3>2. p # q /\ active' \in {q, Nobody}
      BY <1>1, <2>5 DEF LoopHandle
    <3>3. pending[q][i] \in Buf(q)
      BY LenProperties, ElementOfSeq DEF IInv, PendingTypes
    <3>4. phase'[p] = phase[p] /\ keys'[p] = keys[p]
      BY <3>1, <3>2, <3>3, HandleStep, OwnKeys DEF Kept
    <3> QED BY <1>1, <1>2, <3>1, <3>2, <3>4
  <2>6. CASE LoopReject(q)
    <3>1. p # q /\ active' = Nobody /\ phase' = phase /\ keys' = keys
      BY <1>1, <2>6 DEF LoopReject
    <3>2. pending'[p] = pending[p]
      BY <1>2, <2>6, <3>1 DEF LoopReject, Consume
    <3> QED BY <1>1, <1>2, <3>1, <3>2
  <2> QED BY <2>1, <2>2, <2>3, <2>4, <2>5, <2>6 DEF Call, Loop
<1> QED BY <1>3, <1>4

\* A session that is Done or Aborted returns its outcome for ever: its keys
\* and its phase never change and it buffers nothing (the terminal check of
\* handle_messages).
THEOREM EndsForGood == Spec => EndIsFinal
<1> DEFINE Final == \A p \in Party : phase[p] \in Terminal =>
                      /\ phase'[p] = phase[p] /\ keys'[p] = keys[p]
                      /\ pending'[p] = <<>> /\ active' # p
<1>1. IInv /\ [Next]_vars => [Final]_vars
  BY TerminalStep
<1> QED BY <1>1, Invariance, PTL DEF Spec, EndIsFinal

-----------------------------------------------------------------------------
(* What a call leaves in the buffer.                                       *)

\* A session that has returned no error leaves its buffer only to messages of
\* a later phase: what DeliveredIsDone needs of the loop.
NothingStranded ==
    \A p \in Party : active # p /\ rejected[p] = NoReject => ReadyAt(p) = {}

\* What a session can take from its buffer depends on its phase and buffer.
LEMMA ReadyDepends ==
  ASSUME NEW p \in Party
  PROVE  /\ phase'[p] = phase[p] /\ pending'[p] = pending[p] => ReadyAt(p)' = ReadyAt(p)
         /\ pending'[p] = <<>> => ReadyAt(p)' = {}
<1>1. ASSUME phase'[p] = phase[p], pending'[p] = pending[p] PROVE ReadyAt(p)' = ReadyAt(p)
  BY <1>1 DEF ReadyAt, NotReady, SetupNotReady, LaterNotReady
<1>2. ASSUME pending'[p] = <<>> PROVE ReadyAt(p)' = {}
  BY <1>2 DEF ReadyAt
<1> QED BY <1>1, <1>2

\* An error is remembered as one.
LEMMA ErrorsShow ==
  ASSUME IInv, NEW p \in Party, NEW m \in Message, NEW q \in Party,
         rejected' = [rejected EXCEPT ![q] =
           [kind |-> m.kind, from |-> m.from, phase |-> phase[q], run |-> m.run]]
  PROVE  IF p = q THEN rejected'[p] # NoReject ELSE rejected'[p] = rejected[p]
<1>1. m.kind # "None"
  BY DEF Message, Kind, CommonRandomnessKinds, ShamirToRssKinds, BatchInputKinds,
         CircuitEvalKinds, OutputVerificationKinds, BatchOutputKinds
<1>2. rejected \in [Party -> Rejection \cup {NoReject}]
  BY DEF IInv, HostTypes
<1> QED BY <1>1, <1>2 DEF NoReject

\* A step of q leaves p without a message it could take.
LEMMA StrandedStep ==
  ASSUME IInv, NothingStranded, Next, NEW p \in Party, active' # p, rejected'[p] = NoReject
  PROVE  ReadyAt(p)' = {}
<1>t. /\ phase \in [Party -> PhaseName] /\ pending \in [Party -> Seq(Message)] /\ Nobody \notin Party
  BY DEF IInv, SessionTypes, PhaseTypes, PendingTypes, Party, Nobody
<1>k. active # p /\ rejected[p] = NoReject => ReadyAt(p) = {}
  BY DEF NothingStranded
<1>0. PICK q \in Party : \/ Call(q) \/ Redeliver(q) \/ Poll(q) \/ HandleAfterEnd(q)
                         \/ HandleMisdirected(q) \/ HostAbort(q) \/ Loop(q)
  BY DEF Next
<1>1. CASE HandleMessages(q) \/ Redeliver(q) \/ Poll(q)
  <2>1. /\ active = Nobody /\ active' = q /\ rejected' = rejected /\ phase' = phase
        /\ pending'[p] = pending[p]
    BY <1>t, <1>1 DEF HandleMessages, Redeliver, Poll, Callable, session, host
  <2> QED BY <1>t, <1>k, <2>1, ReadyDepends
<1>2. CASE HandleAbort(q)
  <2>1. active = Nobody /\ rejected' = rejected
    BY <1>2 DEF HandleAbort, Callable, host
  <2>2. CASE p = q
    <3>1. pending'[p] = <<>>
      BY <1>t, <1>2, <2>2 DEF HandleAbort
    <3> QED BY <3>1, ReadyDepends
  <2>3. CASE p # q
    <3>1. phase'[p] = phase[p] /\ pending'[p] = pending[p]
      BY <1>t, <1>2, <2>3 DEF HandleAbort
    <3> QED BY <1>t, <1>k, <2>1, <3>1, ReadyDepends
  <2> QED BY <2>2, <2>3
<1>3. CASE HandleAfterEnd(q) \/ HostAbort(q)
  <2>1. active = Nobody /\ rejected' = rejected /\ phase' = phase /\ pending' = pending
    BY <1>3 DEF HandleAfterEnd, HostAbort, Callable, session, host
  <2> QED BY <1>t, <1>k, <2>1, ReadyDepends
<1>4. CASE HandleMisdirected(q)
  <2>1. PICK r \in Party \ {q} : \E b \in Singles(inbox[r]) :
          rejected' = [rejected EXCEPT ![q] =
            [kind |-> b.msgs[1].kind, from |-> b.msgs[1].from, phase |-> phase[q],
             run |-> b.msgs[1].run]]
    BY <1>4 DEF HandleMisdirected
  <2>2. PICK b \in Singles(inbox[r]) :
          rejected' = [rejected EXCEPT ![q] =
            [kind |-> b.msgs[1].kind, from |-> b.msgs[1].from, phase |-> phase[q],
             run |-> b.msgs[1].run]]
    BY <2>1
  <2>3. b.msgs[1] \in Message
    BY SinglesInSeq DEF IInv, InboxTypes
  <2>4. p # q /\ rejected'[p] = rejected[p]
    BY <2>2, <2>3, ErrorsShow
  <2>5. active = Nobody /\ phase' = phase /\ pending' = pending
    BY <1>4 DEF HandleMisdirected, Callable, session
  <2> QED BY <1>t, <1>k, <2>4, <2>5, ReadyDepends
<1>5. CASE LoopHandle(q)
  <2>1. PICK i \in DOMAIN pending[q] :
          /\ Handle(q, pending[q][i])
          /\ IF phase'[q] = "Done" THEN pending' = [pending EXCEPT ![q] = <<>>] ELSE Consume(q, i)
    BY <1>5 DEF LoopHandle
  <2>2. /\ active = q /\ rejected' = rejected
        /\ active' = IF phase'[q] = "Done" THEN Nobody ELSE q
    BY <1>5 DEF LoopHandle, host
  <2>3. CASE p = q
    <3>1. pending'[p] = <<>>
      BY <1>t, <2>1, <2>2, <2>3
    <3> QED BY <3>1, ReadyDepends
  <2>4. CASE p # q
    <3>1. pending[q][i] \in Buf(q)
      BY LenProperties, ElementOfSeq DEF IInv, PendingTypes
    <3>2. phase'[p] = phase[p]
      BY <2>1, <2>4, <3>1, HandleStep DEF Kept
    <3>3. pending'[p] = pending[p]
      BY <1>t, <2>1, <2>4 DEF Consume
    <3> QED BY <1>k, <2>2, <2>4, <3>2, <3>3, ReadyDepends
  <2> QED BY <2>3, <2>4
<1>6. CASE LoopReject(q)
  <2>1. PICK i \in DOMAIN pending[q] :
          /\ Consume(q, i)
          /\ rejected' = [rejected EXCEPT ![q] =
               [kind |-> pending[q][i].kind, from |-> pending[q][i].from, phase |-> phase[q],
                run |-> pending[q][i].run]]
    BY <1>6 DEF LoopReject
  <2>2. pending[q][i] \in Message
    BY <1>t, LenProperties, ElementOfSeq
  <2>3. p # q /\ rejected'[p] = rejected[p]
    BY <2>1, <2>2, ErrorsShow
  <2>4. pending'[p] = pending[p] /\ phase' = phase /\ active = q
    BY <1>t, <1>6, <2>1, <2>3 DEF LoopReject, Consume
  <2> QED BY <1>k, <2>3, <2>4, ReadyDepends
<1>7. CASE LoopReturn(q)
  <2>1. active = q /\ ReadyAt(q) = {} /\ rejected' = rejected /\ phase' = phase /\ pending' = pending
    BY <1>7 DEF LoopReturn, session, host
  <2> QED BY <1>k, <2>1, ReadyDepends
<1> QED BY <1>0, <1>1, <1>2, <1>3, <1>4, <1>5, <1>6, <1>7 DEF Call, Loop

\* The loop starts over after every phase change, and returns when nothing is
\* left that the phase takes.
LEMMA NothingLeftBehind == Spec => []NothingStranded
<1>1. Init => NothingStranded
  BY DEF Init, NothingStranded, ReadyAt
<1>2. IInv /\ NothingStranded /\ [Next]_vars => NothingStranded'
  <2>1. ASSUME IInv, NothingStranded, Next PROVE NothingStranded'
    BY <2>1, StrandedStep DEF NothingStranded
  <2>2. ASSUME NothingStranded, UNCHANGED vars PROVE NothingStranded'
    <3>1. phase' = phase /\ pending' = pending /\ active' = active /\ rejected' = rejected
      BY <2>2 DEF vars
    <3>2. \A p \in Party : ReadyAt(p)' = ReadyAt(p)
      BY <3>1, ReadyDepends
    <3> QED BY <2>2, <3>1, <3>2 DEF NothingStranded
  <2> QED BY <2>1, <2>2
<1> QED BY <1>1, <1>2, Invariance, PTL DEF Spec

-----------------------------------------------------------------------------
(* The session implements KeyRelease.                                      *)

\* The handlers that neither confirm, open nor decode.
LEMMA OtherHandlers ==
  ASSUME NEW p \in Party, NEW m, Handle(p, m),
         ~GarblerVerify(p, m), ~(p = 2 /\ EvaluatorVerified(m)), ~GarblerDecode(p, m),
         ~(p = 2 /\ EvaluatorDecode(m))
  PROVE  /\ said' = said
         /\ phase' = phase \/ \E next \in PhaseName \ Terminal : phase' = [phase EXCEPT ![p] = next]
BY DEF Handle, SetupCrs0, SetupCrs1, SetupPrf, SetupGarbleKey, CommonRandomness, StoreFirst,
       ShamirToRssGarbler, ShamirToRssEvaluator, GarblerEvalBits, EvaluatorMsg1, EvaluatorMsg2,
       EvaluateCircuit, Goto, PhaseName, SetupPhases, InputPhases, VerifyPhases, OutputPhases,
       Terminal

Finished == {p \in Party : phase[p] = "Done"}

\* One handled message is one step of KeyRelease, or none.
LEMMA ReleaseHandle ==
  ASSUME IInv, MaxStale = 0, NEW p \in Party, NEW m \in Buf(p), Handle(p, m),
         phase[p] \notin Terminal
  PROVE  Release!Next \/ (said' = said /\ Finished' = Finished)
<1>p. Garbler = Party \ {2} /\ phase \in [Party -> PhaseName]
  BY DEF Party, Garbler, IInv, SessionTypes, PhaseTypes
<1>1. CASE GarblerVerify(p, m)
  <2>1. phase' = [phase EXCEPT ![p] = "GarblerWaitLabels"] /\ said' = said \cup {p}
    BY <1>1 DEF GarblerVerify, Goto
  <2>2. phase[p] = "GarblerWaitLabel"
    BY <1>1 DEF GarblerVerify, AcceptsLabel, ReadsLabel
  <2>3. p \in Garbler
    BY <1>p, <2>2 DEF IInv, SessionTypes, PhaseTypes, EvaluatorPhases, Terminal
  <2>4. Finished' = Finished
    BY <1>p, <2>1, <2>2 DEF Finished
  <2> QED BY <2>1, <2>3, <2>4 DEF Release!Next, Release!Confirm, Finished
<1>2. CASE p = 2 /\ EvaluatorVerified(m)
  <2>1. phase' = [phase EXCEPT ![2] = "EvaluatorWaitBits"] /\ said' = said \cup {2}
    BY <1>2 DEF EvaluatorVerified, Goto
  <2>2. phase[2] = "EvaluatorWaitBit"
    BY <1>2 DEF EvaluatorVerified, AcceptsBit
  <2>3. Garbler \subseteq said
    BY <1>2, EvaluatorVerifiedStep
  <2>4. Finished' = Finished
    BY <1>p, <2>1, <2>2 DEF Finished
  <2> QED BY <2>1, <2>3, <2>4 DEF Release!Next, Release!Open, Finished
<1>3. CASE GarblerDecode(p, m)
  <2>1. phase' = [phase EXCEPT ![p] = "Done"] /\ said' = said
    BY <1>3 DEF GarblerDecode, Goto
  <2>2. p \in Garbler /\ {p, 2} \subseteq said
    BY <1>3, GarblerDecodeStep
  <2>3. Finished' = Finished \cup {p}
    BY <1>p, <2>1 DEF Finished
  <2> QED BY <2>1, <2>2, <2>3 DEF Release!Next, Release!Decode, Finished
<1>4. CASE p = 2 /\ EvaluatorDecode(m)
  <2>1. phase' = [phase EXCEPT ![2] = "Done"] /\ said' = said
    BY <1>4 DEF EvaluatorDecode, Goto
  <2>2. \A q \in Garbler : phase[q] = "Done"
    BY <1>4, EvaluatorDecodeStep
  <2>3. Finished' = Finished \cup {2} /\ Garbler \subseteq Finished
    BY <1>p, <1>4, <2>1, <2>2 DEF Finished
  <2> QED BY <2>1, <2>3 DEF Release!Next, Release!Complete, Finished
<1>5. CASE ~GarblerVerify(p, m) /\ ~(p = 2 /\ EvaluatorVerified(m)) /\ ~GarblerDecode(p, m)
             /\ ~(p = 2 /\ EvaluatorDecode(m))
  <2>1. /\ said' = said
        /\ phase' = phase \/ \E next \in PhaseName \ Terminal : phase' = [phase EXCEPT ![p] = next]
    BY <1>5, OtherHandlers
  <2>2. Finished' = Finished
    BY <1>p, <2>1 DEF Finished, Terminal
  <2> QED BY <2>1, <2>2
<1> QED BY <1>1, <1>2, <1>3, <1>4, <1>5

\* One step of the session is one step of KeyRelease, or none.
LEMMA ReleaseStep ==
  ASSUME IInv, MaxStale = 0, [Next]_vars
  PROVE  Release!Next \/ (said' = said /\ Finished' = Finished)
<1>1. CASE UNCHANGED vars
  BY <1>1 DEF vars, Finished
<1>2. CASE Next
  <2>1. PICK p \in Party : \/ Call(p) \/ Redeliver(p) \/ Poll(p) \/ HandleAfterEnd(p)
                           \/ HandleMisdirected(p) \/ HostAbort(p) \/ Loop(p)
    BY <1>2 DEF Next
  <2>2. CASE HandleAbort(p)
    BY <2>2 DEF HandleAbort, Finished, Terminal, IInv, SessionTypes, PhaseTypes
  <2>3. CASE LoopHandle(p)
    <3>1. PICK i \in DOMAIN pending[p] : Handle(p, pending[p][i])
      BY <2>3 DEF LoopHandle
    <3>2. pending[p][i] \in Buf(p)
      BY LenProperties, ElementOfSeq DEF IInv, PendingTypes
    <3>3. phase[p] \notin Terminal
      BY <2>3 DEF LoopHandle, IInv, Quiet
    <3> QED BY <3>1, <3>2, <3>3, ReleaseHandle
  <2>4. CASE \/ HandleMessages(p) \/ Redeliver(p) \/ Poll(p) \/ HandleAfterEnd(p)
             \/ HandleMisdirected(p) \/ HostAbort(p) \/ LoopReturn(p) \/ LoopReject(p)
    BY <2>4 DEF HandleMessages, Redeliver, Poll, HandleAfterEnd, HandleMisdirected, HostAbort,
                LoopReturn, LoopReject, session, Finished
  <2> QED BY <2>1, <2>2, <2>3, <2>4 DEF Call, Loop
<1> QED BY <1>1, <1>2

\* The sessions open the output as KeyRelease says: every behaviour of three
\* sessions, under any transport and any faults but messages of an earlier
\* run, is one of confirmations, one opening, the garblers' decodings and the
\* evaluator's.
THEOREM Implements ==
  ASSUME MaxStale = 0
  PROVE  Spec => ImplementsRelease
<1>1. Init => Release!Init
  BY DEF Init, Release!Init, Party
<1>2. IInv /\ [Next]_vars => [Release!Next]_<<said, {p \in Party : phase[p] = "Done"}>>
  BY ReleaseStep DEF Finished
<1> QED BY <1>1, <1>2, Invariance, PTL DEF Spec, ImplementsRelease, Release!Spec

(***************************************************************************)
(* What the sessions' values come from.                                    *)
(* Whatever the transport repeats, reorders or has left of an earlier run, *)
(* the garblers agree on the CRS and the seed, no label is sent twice, and *)
(* a session that ends with keys has the keys of this run.                 *)
(*                                                                         *)
(* The inductive invariant, Traces, follows every value to where it was    *)
(* made.  At most one message, `late`, is of an earlier run; it cannot     *)
(* alone make a party of this run take over that run's values, because     *)
(* each of them reaches a party twice: the CRS with the seed, the labels   *)
(* with the offset they are checked against, the bits from two garblers.   *)
(***************************************************************************)

\* The messages on their way to p, in its buffer and in its collecting state.
Around(p) ==
    ToSet(inbox[p]) \cup ToSet(pending[p]) \cup ({slot[p][q] : q \in Party} \ {NoMsg})

\* The evaluator has sent its labels for the check and keeps its wires.
Evaluated == {"EvaluatorWaitBit", "EvaluatorWaitBits", "Done"}

\* The evaluator has sent its split bits.
Input == InputPhases \cup {"CircuitEval"} \cup Evaluated

\* What a message of this run tells: where its values come from.
Setup(m) ==
    /\ m.kind = "CommCrs" => m.val.crs = Mine
    /\ m.kind = "PrfSeed" => /\ m.val.seed = Mine /\ ctx[0].seed = Mine
                             /\ m.val.crs = ctx[0].crs

Position(m) ==
    /\ m.kind = "GarblerInputCommit" => m.val.prf = 0 /\ ctx[m.from].prf >= 1
    /\ m.kind = "GarblerI3Commit" => m.val.prf = 1 /\ ctx[m.from].prf >= 3
    /\ m.kind = "Hash" => m.from = 0 /\ m.val.prf = 2 /\ ctx[m.from].prf >= 3
    /\ m.kind = "GarbledTables" => m.from = 1 /\ m.val.prf = 2 /\ ctx[m.from].prf >= 3

Opening(m) ==
    /\ m.kind = "Label" =>
         /\ This \in m.val.own
         /\ phase[2] # "Aborted" =>
              phase[2] \in Evaluated /\ m.val.own = wires.own /\ m.val.seed = wires.seed
    /\ m.kind = "Bit" /\ m.val.bit /\ phase[2] # "Aborted" =>
         phase[2] \in Evaluated /\ wires.own = Mine /\ wires.seed = Mine
    /\ m.kind \in {"Labels", "Bits"} => m.val.own = Mine

Claims(m) == Setup(m) /\ Position(m) /\ Opening(m)

\* Every message is of this run, and what it tells is so, or is the late one.
Posted(late, m) == IF m.run = This THEN Claims(m) ELSE m = late

\* The contexts of the sessions.
Contexts(late) ==
    /\ phase[0] = "WaitCrs" => ctx[0].seed = {}
    /\ phase[0] \notin {"WaitCrs", "Aborted"} => ctx[0].seed = Mine
    /\ phase[1] = "WaitPrf" => ctx[1].crs = Mine \/ late.kind = "CommCrs"
    /\ phase[1] \notin {"WaitCrs", "WaitPrf", "Aborted"} =>
         ctx[0].seed = Mine /\ ctx[1].seed = Mine /\ ctx[1].crs = ctx[0].crs

Positions ==
    \A q \in Garbler :
        /\ phase[q] \in {"WaitCrs", "WaitPrf", "CommonRandomness", "ShamirToRss"} => ctx[q].prf = 0
        /\ phase[q] = "GarblerWaitEvalBits" => ctx[q].prf = 1

Results ==
    /\ phase[2] \in Input => This \in wires.own
    /\ \A p \in Party : phase[p] = "Done" => keys[p] = Mine

\* What has been confirmed is the wires that the evaluator keeps.
Confirmed ==
    said # {} /\ phase[2] # "Aborted" => phase[2] \in Evaluated /\ wires.own = Mine

Values(late) == Contexts(late) /\ Positions /\ Results /\ Confirmed

Traced(late) == \A p \in Party : \A m \in Around(p) : Posted(late, m)

Traces ==
    \E late \in StaleMessages \cup {NoMsg} : Values(late) /\ Traced(late)

-----------------------------------------------------------------------------
(* Where messages go.                                                      *)

\* The elements of sequences.
LEMMA Elements ==
  ASSUME NEW S, NEW s \in Seq(S)
  PROVE  /\ s \in Seq(ToSet(s)) /\ ToSet(s) \subseteq S
         /\ \A T : s \in Seq(T) => ToSet(s) \subseteq T
         /\ \A i \in DOMAIN s : s[i] \in ToSet(s)
<1>1. Len(s) \in Nat /\ DOMAIN s = 1..Len(s) /\ \A k \in 1..Len(s) : s[k] \in S
  BY LenProperties, ElementOfSeq
<1>2. \A i \in DOMAIN s : s[i] \in ToSet(s)
  BY DEF ToSet
<1>3. s \in Seq(ToSet(s))
  BY <1>2, SeqOfSubset
<1>4. ASSUME NEW T, s \in Seq(T) PROVE ToSet(s) \subseteq T
  <2>1. \A k \in DOMAIN s : s[k] \in T
    BY <1>4, ElementOfSeq, LenProperties
  <2> QED BY <2>1 DEF ToSet
<1> QED BY <1>1, <1>2, <1>3, <1>4 DEF ToSet

\* Elements of two sequences, one after the other.
LEMMA Joined ==
  ASSUME NEW S, NEW s \in Seq(S), NEW t \in Seq(S)
  PROVE  ToSet(s \o t) \subseteq ToSet(s) \cup ToSet(t)
<1>1. s \in Seq(ToSet(s) \cup ToSet(t)) /\ t \in Seq(ToSet(s) \cup ToSet(t))
  BY Elements, SeqMonotonic
<1>2. s \o t \in Seq(ToSet(s) \cup ToSet(t))
  BY <1>1, ConcatProperties
<1> QED BY <1>2, Elements

\* What a batch takes and leaves was there.
LEMMA TakenOut ==
  ASSUME NEW S, NEW s \in Seq(S), NEW b, b \in Batches(s) \/ b \in Singles(s)
  PROVE  /\ ToSet(b.msgs) \subseteq ToSet(s) /\ ToSet(b.rest) \subseteq ToSet(s)
         /\ b.msgs \in Seq(S) /\ b.rest \in Seq(S)
<1>1. s \in Seq(ToSet(s))
  BY Elements
<1>2. b.msgs \in Seq(ToSet(s)) /\ b.rest \in Seq(ToSet(s))
  BY <1>1, BatchesInSeq, SinglesInSeq
<1>3. b.msgs \in Seq(S) /\ b.rest \in Seq(S)
  BY BatchesInSeq, SinglesInSeq
<1> QED BY <1>2, <1>3, Elements

LEMMA Removed ==
  ASSUME NEW S, NEW s \in Seq(S), NEW i \in DOMAIN s
  PROVE  ToSet(RemoveAt(s, i)) \subseteq ToSet(s) /\ RemoveAt(s, i) \in Seq(S)
<1>1. s \in Seq(ToSet(s))
  BY Elements
<1>2. RemoveAt(s, i) \in Seq(ToSet(s)) /\ RemoveAt(s, i) \in Seq(S)
  BY <1>1, RemoveAtInSeq
<1> QED BY <1>2, Elements

LEMMA NoElements == ToSet(<<>>) = {}
BY DEF ToSet

\* What each kind of step may do to the buffers, the collecting states and the
\* transport; `in` is what comes new into the transport.
Moves(in) ==
    /\ \A q \in Party : ToSet(pending'[q]) \subseteq ToSet(pending[q]) \cup ToSet(inbox[q])
    /\ \A q, r \in Party : slot'[q][r] \in {NoMsg, slot[q][r]} \cup ToSet(pending[q])
    /\ \A q \in Party : ToSet(inbox'[q]) \subseteq ToSet(inbox[q]) \cup in[q]

LEMMA MovesAround ==
  ASSUME NEW in, Moves(in), NEW q \in Party
  PROVE  Around(q)' \subseteq Around(q) \cup in[q]
<1>1. Around(q)' = ToSet(inbox'[q]) \cup ToSet(pending'[q]) \cup ({slot'[q][r] : r \in Party} \ {NoMsg})
  BY DEF Around
<1> QED BY <1>1 DEF Moves, Around

\* A step that only takes away.
Nothing == [q \in Party |-> {}]

LEMMA CallMoves ==
  ASSUME IInv, NEW p \in Party,
         HandleMessages(p) \/ Redeliver(p) \/ Poll(p) \/ HandleAbort(p) \/ HandleAfterEnd(p)
           \/ HandleMisdirected(p) \/ LoopReturn(p)
  PROVE  Moves(Nothing)
<1>t. /\ inbox \in [Party -> Seq(Message)] /\ pending \in [Party -> Seq(Message)]
      /\ slot \in [Party -> [Party -> Message \cup {NoMsg}]]
  BY DEF IInv, InboxTypes, PendingTypes, SlotTypes
<1>1. \A q, r \in Party : slot'[q][r] \in {NoMsg, slot[q][r]}
  BY <1>t DEF HandleMessages, Redeliver, Poll, HandleAbort, HandleAfterEnd, HandleMisdirected,
              LoopReturn, session, NoSlots
<1>2. \A q \in Party : ToSet(inbox'[q]) \subseteq ToSet(inbox[q])
  <2>1. \/ inbox' = inbox
        \/ \E b \in Batches(inbox[p]) : inbox' = [inbox EXCEPT ![p] = b.rest]
        \/ \E b \in Singles(inbox[p]) : inbox' = [inbox EXCEPT ![p] = b.rest]
    <3>1. CASE HandleMessages(p) \/ HandleAbort(p) \/ HandleAfterEnd(p)
      BY <3>1 DEF HandleMessages, HandleAbort, HandleAfterEnd
    <3>2. CASE HandleMisdirected(p)
      BY <3>2 DEF HandleMisdirected
    <3>3. CASE Redeliver(p) \/ Poll(p) \/ LoopReturn(p)
      BY <3>3 DEF Redeliver, Poll, LoopReturn
    <3> QED BY <3>1, <3>2, <3>3
  <2>2. CASE inbox' = inbox
    BY <2>2
  <2>3. ASSUME NEW b, b \in Batches(inbox[p]) \/ b \in Singles(inbox[p]),
               inbox' = [inbox EXCEPT ![p] = b.rest]
        PROVE  \A q \in Party : ToSet(inbox'[q]) \subseteq ToSet(inbox[q])
    <3>1. ToSet(b.rest) \subseteq ToSet(inbox[p])
      BY <1>t, <2>3, TakenOut
    <3>2. \A q \in Party : inbox'[q] = IF q = p THEN b.rest ELSE inbox[q]
      BY <1>t, <2>3
    <3> QED BY <3>1, <3>2
  <2> QED BY <2>1, <2>2, <2>3
<1>3. \A q \in Party : ToSet(pending'[q]) \subseteq ToSet(pending[q]) \cup ToSet(inbox[q])
  <2>1. \/ pending' = pending
        \/ pending' = [pending EXCEPT ![p] = <<>>]
        \/ \E b \in Batches(inbox[p]) : pending' = [pending EXCEPT ![p] = @ \o b.msgs]
        \/ \E b \in Singles(inbox[p]) : pending' = [pending EXCEPT ![p] = @ \o b.msgs]
    <3>1. CASE HandleMessages(p)
      BY <3>1 DEF HandleMessages
    <3>2. CASE Redeliver(p)
      BY <3>2 DEF Redeliver
    <3>3. CASE HandleAbort(p)
      BY <3>3 DEF HandleAbort
    <3>4. CASE Poll(p) \/ LoopReturn(p) \/ HandleAfterEnd(p) \/ HandleMisdirected(p)
      BY <3>4 DEF Poll, LoopReturn, HandleAfterEnd, HandleMisdirected
    <3> QED BY <3>1, <3>2, <3>3, <3>4
  <2>2. CASE pending' = pending \/ pending' = [pending EXCEPT ![p] = <<>>]
    BY <1>t, <2>2, NoElements
  <2>3. ASSUME NEW b, b \in Batches(inbox[p]) \/ b \in Singles(inbox[p]),
               pending' = [pending EXCEPT ![p] = @ \o b.msgs]
        PROVE  \A q \in Party : ToSet(pending'[q]) \subseteq ToSet(pending[q]) \cup ToSet(inbox[q])
    <3>1. ToSet(b.msgs) \subseteq ToSet(inbox[p]) /\ b.msgs \in Seq(Message)
      BY <1>t, <2>3, TakenOut
    <3>2. \A q \in Party : pending'[q] = IF q = p THEN pending[p] \o b.msgs ELSE pending[q]
      BY <1>t, <2>3
    <3>3. ToSet(pending[p] \o b.msgs) \subseteq ToSet(pending[p]) \cup ToSet(b.msgs)
      BY <1>t, <3>1, Joined
    <3> QED BY <3>1, <3>2, <3>3
  <2> QED BY <2>1, <2>2, <2>3
<1> QED BY <1>1, <1>2, <1>3 DEF Moves, Nothing

\* Posting.
LEMMA PostMoves ==
  ASSUME IInv, NEW out, Post(out), \A q \in Party : out[q] \in Seq(Message)
  PROVE  \A q \in Party : ToSet(inbox'[q]) \subseteq ToSet(inbox[q]) \cup ToSet(out[q])
<1>1. inbox \in [Party -> Seq(Message)]
  BY DEF IInv, InboxTypes
<1>2. \A q \in Party : inbox'[q] = inbox[q] \o out[q]
  BY DEF Post
<1> QED BY <1>1, <1>2, Joined

-----------------------------------------------------------------------------
(* What a step may not take back, so that claims stay true.                *)

Steady ==
    /\ ctx[0].seed = Mine => ctx'[0].seed = Mine /\ ctx'[0].crs = ctx[0].crs
    /\ \A q \in Party : ctx'[q].prf >= ctx[q].prf
    /\ phase[2] = "Aborted" => phase'[2] = "Aborted"
    /\ phase[2] \in Evaluated /\ phase'[2] # "Aborted" => phase'[2] \in Evaluated /\ wires' = wires

LEMMA ClaimsStay ==
  ASSUME IInv, IInv', Steady, NEW late, NEW m \in Message, Posted(late, m)
  PROVE  Posted(late, m)'
<1>1. /\ \A q \in Party : ctx[q].prf \in Nat /\ ctx'[q].prf \in Nat
      /\ m.from \in Party
  BY DEF IInv, SessionTypes, DataTypes, Context, Message
<1>2. ASSUME Claims(m) PROVE Claims(m)'
  <2>1. Setup(m)'
    BY <1>2 DEF Claims, Setup, Steady, Mine
  <2>2. Position(m)'
    BY <1>1, <1>2 DEF Claims, Position, Steady
  <2>3. Opening(m)'
    BY <1>2 DEF Claims, Opening, Steady, Mine
  <2> QED BY <2>1, <2>2, <2>3 DEF Claims
<1> QED BY <1>2 DEF Posted

LEMMA ConfirmedStays ==
  ASSUME Steady, Confirmed, said' = said
  PROVE  Confirmed'
BY DEF Steady, Confirmed, Evaluated, Mine

LEMMA AroundTypes ==
  ASSUME IInv, NEW q \in Party
  PROVE  Around(q) \subseteq Message
<1>1. inbox[q] \in Seq(Message) /\ pending[q] \in Seq(Message)
  BY DEF IInv, InboxTypes, PendingTypes
<1>2. ToSet(inbox[q]) \subseteq Message /\ ToSet(pending[q]) \subseteq Message
  BY <1>1, Elements
<1>3. \A r \in Party : slot[q][r] \in Message \cup {NoMsg}
  BY DEF IInv, SlotTypes
<1> QED BY <1>2, <1>3 DEF Around

LEMMA TracedStep ==
  ASSUME IInv, IInv', Steady, NEW late, Traced(late), NEW in, Moves(in),
         \A q \in Party : \A m \in in[q] : Posted(late, m)'
  PROVE  Traced(late)'
<1>1. ASSUME NEW q \in Party, NEW m \in Around(q)' PROVE Posted(late, m)'
  <2>1. CASE m \in Around(q)
    BY <2>1, AroundTypes, ClaimsStay DEF Traced
  <2>2. CASE m \in in[q]
    BY <2>2
  <2> QED BY <1>1, <2>1, <2>2, MovesAround
<1> QED BY <1>1 DEF Traced

\* What is known of the late message.
LEMMA LateIs ==
  ASSUME NEW late \in StaleMessages \cup {NoMsg}, late.kind # "None"
  PROVE  /\ late.run # This
         /\ late.kind = "PrfSeed" => late.val.crs # Mine
         /\ late.kind \in {"Label", "Labels"} => late.val.seed # Mine
<1>1. late \in StaleMessages
  BY DEF NoMsg
<1>2. PICK t \in Protocol, r \in Runs \ {This} :
        late = [from |-> t[1], to |-> t[2], kind |-> t[3], val |-> HonestPayload(r, t[3]), run |-> r]
  BY <1>1 DEF StaleMessages
<1> QED BY <1>2 DEF HonestPayload, Mine

\* What handling one message keeps: what is known of the values, and that what
\* is sent tells the truth.
Truth(late) == {m \in Message : Posted(late, m)}

Sound(late) ==
    /\ Steady /\ Values(late)'
    /\ \/ UNCHANGED inbox
       \/ \E out : Post(out) /\ \A q \in Party : out[q] \in Seq(Truth(late)')

\* A message of p is true when its claims are.
LEMMA OwnTruth ==
  ASSUME NEW late, NEW p \in Party, NEW q \in Party, NEW k \in Kind, NEW v \in Payload,
         Claims(Msg(p, q, k, v))'
  PROVE  Msg(p, q, k, v) \in Truth(late)'
<1>1. Msg(p, q, k, v) \in Message /\ Msg(p, q, k, v).run = This
  BY NewMessage DEF Msg
<1> QED BY <1>1 DEF Truth, Posted

\* Kinds that tell nothing.
LEMMA Mute ==
  ASSUME NEW late, NEW p \in Party, NEW q \in Party, NEW v \in Payload,
         NEW k \in {"GarbleKey", "KeyNext", "ShamirToRss", "EvaluatorBits", "Abort"}
  PROVE  Msg(p, q, k, v) \in Truth(late)'
<1>1. k \in Kind
  BY PlainKinds DEF PlainKind, Kind
<1>2. Claims(Msg(p, q, k, v))'
  BY DEF Claims, Setup, Position, Opening, Msg
<1> QED BY <1>1, <1>2, OwnTruth

\* The types a handler works on.
LEMMA HandlerTypes ==
  ASSUME IInv
  PROVE  /\ phase \in [Party -> PhaseName] /\ ctx \in [Party -> Context] /\ wires \in Wires
         /\ keys \in [Party -> SUBSET Runs] /\ keyPrev \in [Party -> SUBSET Runs]
         /\ \A q \in Party : /\ ctx[q].crs \in SUBSET Runs /\ ctx[q].seed \in SUBSET Runs
                             /\ ctx[q].prf \in Nat
         /\ phase[2] \in EvaluatorPhases /\ \A q \in Garbler : phase[q] \in GarblerPhases
BY DEF IInv, SessionTypes, PhaseTypes, DataTypes, Context

LEMMA SetupCrs0Sound ==
  ASSUME IInv, NEW late \in StaleMessages \cup {NoMsg}, Values(late), NEW m \in Buf(0), Posted(late, m),
         SetupCrs0(m)
  PROVE  Sound(late)
<1>t. /\ 0 \in Party /\ 1 \in Party /\ 2 \in Party /\ Garbler = {0, 1} /\ m.val.crs \in SUBSET Runs
      /\ phase[0] = "WaitCrs" /\ ctx[0].seed = {} /\ ctx[0].prf = 0 /\ Mine # {} /\ Mine \in SUBSET Runs
  BY BufTypes, RunsAssumption DEF Party, Garbler, SetupCrs0, AcceptsCrs, Values, Contexts, Positions, Mine
<1>1. /\ phase' = [phase EXCEPT ![0] = "CommonRandomness"]
      /\ ctx' = [ctx EXCEPT ![0] = [crs |-> m.val.crs, seed |-> Mine, prf |-> 0]]
      /\ wires' = wires /\ keys' = keys /\ said' = said
  BY DEF SetupCrs0, Goto
<1>2. Steady
  BY <1>t, <1>1, HandlerTypes DEF Steady
<1>3. Contexts(late)'
  BY <1>t, <1>1, HandlerTypes DEF Values, Contexts
<1>4. Positions'
  BY <1>t, <1>1, HandlerTypes DEF Values, Positions
<1>5. Results'
  BY <1>t, <1>1, HandlerTypes DEF Values, Results, Input, InputPhases, Evaluated
<1>8. Confirmed'
  BY <1>1, <1>2, ConfirmedStays DEF Values
<1> DEFINE out == [q \in Party |->
          CASE q = 1 -> <<Msg(0, 1, "PrfSeed", [Blank EXCEPT !.crs = m.val.crs, !.seed = Mine]),
                          Msg(0, 1, "KeyNext", [Blank EXCEPT !.own = Mine])>>
            [] q = 2 -> <<Msg(0, 2, "GarbleKey", [Blank EXCEPT !.seed = Mine])>>
            [] OTHER -> <<>>]
<1>6. Post(out)
  BY DEF SetupCrs0
<1>7. \A q \in Party : out[q] \in Seq(Truth(late)')
  <2>1. /\ [Blank EXCEPT !.crs = m.val.crs, !.seed = Mine] \in Payload
        /\ [Blank EXCEPT !.own = Mine] \in Payload /\ [Blank EXCEPT !.seed = Mine] \in Payload
    BY <1>t DEF Blank, Payload
  <2>2. Msg(0, 1, "PrfSeed", [Blank EXCEPT !.crs = m.val.crs, !.seed = Mine]) \in Truth(late)'
    <3>1. Claims(Msg(0, 1, "PrfSeed", [Blank EXCEPT !.crs = m.val.crs, !.seed = Mine]))'
      BY <1>t, <1>1, HandlerTypes DEF Claims, Setup, Position, Opening, Msg, Blank
    <3> QED BY <1>t, <2>1, <3>1, OwnTruth, PlainKinds DEF PlainKind
  <2>3. Msg(0, 1, "KeyNext", [Blank EXCEPT !.own = Mine]) \in Truth(late)'
    BY <1>t, <2>1, Mute
  <2>4. Msg(0, 2, "GarbleKey", [Blank EXCEPT !.seed = Mine]) \in Truth(late)'
    BY <1>t, <2>1, Mute
  <2> QED BY <2>2, <2>3, <2>4, ShortSeq
<1> HIDE DEF out
<1> QED BY <1>2, <1>3, <1>4, <1>5, <1>6, <1>7, <1>8 DEF Sound, Values

\* Sending one true message to some.
LEMMA TrueSends ==
  ASSUME NEW late, NEW p \in Party, NEW k \in Kind, NEW v \in Payload,
         \A q \in Party : Msg(p, q, k, v) \in Truth(late)'
  PROVE  /\ \A R : \A q \in Party : ToEach(R, p, k, v)[q] \in Seq(Truth(late)')
         /\ \A r, q \in Party : To(r, Msg(p, r, k, v))[q] \in Seq(Truth(late)')
<1>2. ASSUME NEW R, NEW q \in Party PROVE ToEach(R, p, k, v)[q] \in Seq(Truth(late)')
  <2>1. ToEach(R, p, k, v)[q] = IF q \in R THEN <<Msg(p, q, k, v)>> ELSE <<>>
    BY DEF ToEach
  <2> QED BY <2>1, ShortSeq
<1>3. ASSUME NEW r \in Party, NEW q \in Party
      PROVE  To(r, Msg(p, r, k, v))[q] \in Seq(Truth(late)')
  <2>1. To(r, Msg(p, r, k, v))[q] = IF q = r THEN <<Msg(p, r, k, v)>> ELSE <<>>
    BY DEF To
  <2> QED BY <2>1, ShortSeq
<1> QED BY <1>2, <1>3

\* The rest of the setup.
LEMMA SetupCrs1Sound ==
  ASSUME IInv, NEW late \in StaleMessages \cup {NoMsg}, Values(late), NEW m \in Buf(1), Posted(late, m),
         SetupCrs1(m)
  PROVE  Sound(late)
<1>t. /\ 0 \in Party /\ 1 \in Party /\ 2 \in Party /\ Garbler = {0, 1} /\ m.val.crs \in SUBSET Runs
      /\ phase[1] = "WaitCrs" /\ m.kind = "CommCrs"
  BY BufTypes DEF Party, Garbler, SetupCrs1, AcceptsCrs
<1>1. /\ phase' = [phase EXCEPT ![1] = "WaitPrf"] /\ ctx' = [ctx EXCEPT ![1].crs = m.val.crs]
      /\ wires' = wires /\ keys' = keys /\ said' = said /\ inbox' = inbox
  BY DEF SetupCrs1, Goto
<1>2. Steady
  BY <1>t, <1>1, HandlerTypes DEF Steady, Context
<1>3. Contexts(late)'
  <2>1. m.val.crs = Mine \/ late.kind = "CommCrs"
    BY <1>t DEF Posted, Claims, Setup
  <2> QED BY <1>t, <1>1, <2>1, HandlerTypes DEF Values, Contexts, Context
<1>4. Positions'
  BY <1>t, <1>1, HandlerTypes DEF Values, Positions, Context
<1>5. Results'
  BY <1>t, <1>1, HandlerTypes DEF Values, Results, Input, InputPhases, Evaluated
<1>8. Confirmed'
  BY <1>1, <1>2, ConfirmedStays DEF Values
<1> QED BY <1>1, <1>2, <1>3, <1>4, <1>5, <1>8 DEF Sound, Values

LEMMA SetupPrfSound ==
  ASSUME IInv, NEW late \in StaleMessages \cup {NoMsg}, Values(late), NEW m \in Buf(1), Posted(late, m),
         SetupPrf(m)
  PROVE  Sound(late)
<1>t. /\ 0 \in Party /\ 1 \in Party /\ 2 \in Party /\ Garbler = {0, 1} /\ m.val.seed \in SUBSET Runs
      /\ phase[1] = "WaitPrf" /\ m.kind = "PrfSeed" /\ m.val.crs = ctx[1].crs
      /\ Mine \in SUBSET Runs
  BY BufTypes, RunsAssumption DEF Party, Garbler, SetupPrf, AcceptsPrf, Mine
<1>1. /\ phase' = [phase EXCEPT ![1] = "CommonRandomness"]
      /\ ctx' = [ctx EXCEPT ![1].seed = m.val.seed, ![1].prf = 0]
      /\ wires' = wires /\ keys' = keys /\ said' = said
      /\ Post(To(2, Msg(1, 2, "KeyNext", [Blank EXCEPT !.own = Mine])))
  BY DEF SetupPrf, Goto
<1>a. /\ ctx'[0] = ctx[0] /\ ctx'[2] = ctx[2] /\ ctx'[1].seed = m.val.seed /\ ctx'[1].crs = ctx[1].crs
      /\ ctx'[1].prf = 0
  BY <1>t, <1>1, HandlerTypes DEF Context
<1>b. ctx[1].prf = 0
  BY <1>t DEF Values, Positions
<1>2. Steady
  BY <1>t, <1>1, <1>a, <1>b, HandlerTypes DEF Steady, Party
<1>3. Contexts(late)'
  <2>1. m.run = This
    <3>1. ASSUME m = late, m.run # This PROVE FALSE
      <4>1. late.kind # "None" /\ late.kind # "CommCrs"
        BY <1>t, <3>1
      <4>2. ctx[1].crs = Mine
        BY <1>t, <4>1 DEF Values, Contexts
      <4> QED BY <1>t, <3>1, <4>1, <4>2, LateIs
    <3> QED BY <3>1 DEF Posted
  <2>2. m.val.seed = Mine /\ ctx[0].seed = Mine /\ m.val.crs = ctx[0].crs
    BY <1>t, <2>1 DEF Posted, Claims, Setup
  <2> QED BY <1>t, <1>1, <1>a, <2>2, HandlerTypes DEF Values, Contexts, Mine
<1>4. Positions'
  BY <1>t, <1>1, <1>a, HandlerTypes DEF Values, Positions
<1>5. Results'
  BY <1>t, <1>1, HandlerTypes DEF Values, Results, Input, InputPhases, Evaluated
<1>8. Confirmed'
  BY <1>1, <1>2, ConfirmedStays DEF Values
<1>6. \A q \in Party : To(2, Msg(1, 2, "KeyNext", [Blank EXCEPT !.own = Mine]))[q] \in Seq(Truth(late)')
  <2>1. [Blank EXCEPT !.own = Mine] \in Payload /\ "KeyNext" \in Kind
    BY <1>t, PlainKinds DEF Blank, Payload, PlainKind
  <2>2. \A q \in Party : Msg(1, q, "KeyNext", [Blank EXCEPT !.own = Mine]) \in Truth(late)'
    BY <1>t, <2>1, Mute
  <2> QED BY <1>t, <2>1, <2>2, TrueSends
<1> QED BY <1>1, <1>2, <1>3, <1>4, <1>5, <1>6, <1>8 DEF Sound, Values

LEMMA SetupGarbleKeySound ==
  ASSUME IInv, NEW late \in StaleMessages \cup {NoMsg}, Values(late), NEW m \in Buf(2), Posted(late, m),
         SetupGarbleKey(m)
  PROVE  Sound(late)
<1>t. /\ 0 \in Party /\ 1 \in Party /\ 2 \in Party /\ Garbler = {0, 1} /\ m.val.seed \in SUBSET Runs
      /\ phase[2] = "WaitGarbleKey" /\ Mine \in SUBSET Runs
  BY BufTypes, RunsAssumption DEF Party, Garbler, SetupGarbleKey, AcceptsGarbleKey, Mine
<1>1. /\ phase' = [phase EXCEPT ![2] = "CommonRandomness"]
      /\ ctx' = [ctx EXCEPT ![2].seed = m.val.seed]
      /\ wires' = wires /\ keys' = keys /\ said' = said
      /\ Post(To(0, Msg(2, 0, "KeyNext", [Blank EXCEPT !.own = Mine])))
  BY DEF SetupGarbleKey, Goto
<1>a. ctx'[0] = ctx[0] /\ ctx'[1] = ctx[1] /\ ctx'[2].prf = ctx[2].prf
  BY <1>t, <1>1, HandlerTypes DEF Context
<1>2. Steady
  BY <1>t, <1>1, <1>a, HandlerTypes DEF Steady, Party, Evaluated
<1>3. Contexts(late)'
  BY <1>t, <1>1, <1>a, HandlerTypes DEF Values, Contexts, Mine
<1>4. Positions'
  BY <1>t, <1>1, <1>a, HandlerTypes DEF Values, Positions
<1>5. Results'
  BY <1>t, <1>1, HandlerTypes DEF Values, Results, Input, InputPhases, Evaluated
<1>8. Confirmed'
  BY <1>1, <1>2, ConfirmedStays DEF Values
<1>6. \A q \in Party : To(0, Msg(2, 0, "KeyNext", [Blank EXCEPT !.own = Mine]))[q] \in Seq(Truth(late)')
  <2>1. [Blank EXCEPT !.own = Mine] \in Payload /\ "KeyNext" \in Kind
    BY <1>t, PlainKinds DEF Blank, Payload, PlainKind
  <2>2. \A q \in Party : Msg(2, q, "KeyNext", [Blank EXCEPT !.own = Mine]) \in Truth(late)'
    BY <1>t, <2>1, Mute
  <2> QED BY <1>t, <2>1, <2>2, TrueSends
<1> QED BY <1>1, <1>2, <1>3, <1>4, <1>5, <1>6, <1>8 DEF Sound, Values

\* A step of p to a phase in which no more is known, with contexts, wires and
\* keys as they were.
Later == {"ShamirToRss", "GarblerWaitLabels", "EvaluatorWaitMsg2"}

LEMMA Advancing ==
  ASSUME IInv, NEW late, Values(late), NEW p \in Party, NEW next,
         phase' = [phase EXCEPT ![p] = next], ctx' = ctx, wires' = wires, keys' = keys,
         said' = said \/ (phase[2] # "Aborted" => phase[2] \in Evaluated /\ wires.own = Mine),
         \/ phase[p] = "CommonRandomness" /\ next = "ShamirToRss"
         \/ phase[p] = "GarblerWaitLabel" /\ next = "GarblerWaitLabels"
         \/ phase[p] = "EvaluatorWaitBit" /\ next = "EvaluatorWaitBits"
  PROVE  Steady /\ Values(late)'
<1>t. Party = {0, 1, 2} /\ Garbler = {0, 1}
  BY DEF Party, Garbler
<1>0. \A q \in Party : phase'[q] = IF q = p THEN next ELSE phase[q]
  BY HandlerTypes
<1>2. Steady
  BY <1>t, <1>0, HandlerTypes DEF Steady, Evaluated
<1>3. Contexts(late)'
  BY <1>t, <1>0, HandlerTypes DEF Values, Contexts, GarblerPhases, Terminal
<1>4. Positions'
  BY <1>t, <1>0, HandlerTypes DEF Values, Positions
<1>5. Results'
  BY <1>t, <1>0, HandlerTypes DEF Values, Results, Input, InputPhases, Evaluated
<1>6. Confirmed'
  <2>1. CASE said' = said
    BY <1>2, <2>1, ConfirmedStays DEF Values
  <2>2. CASE phase[2] # "Aborted" => phase[2] \in Evaluated /\ wires.own = Mine
    BY <1>2, <2>2 DEF Steady, Confirmed, Mine
  <2> QED BY <2>1, <2>2
<1> QED BY <1>2, <1>3, <1>4, <1>5, <1>6 DEF Values

LEMMA CommonRandomnessSound ==
  ASSUME IInv, NEW late \in StaleMessages \cup {NoMsg}, Values(late), NEW p \in Party, NEW m \in Buf(p),
         CommonRandomness(p, m)
  PROVE  Sound(late)
<1>1. /\ phase' = [phase EXCEPT ![p] = "ShamirToRss"] /\ ctx' = ctx /\ wires' = wires /\ keys' = keys
      /\ said' = said
      /\ phase[p] = "CommonRandomness"
      /\ Post(ToEach(Party \ {p}, p, "ShamirToRss", [Blank EXCEPT !.own = m.val.own \cup Mine]))
  BY DEF CommonRandomness, AcceptsKey, Goto
<1>2. Steady /\ Values(late)'
  BY <1>1, Advancing
<1>3. [Blank EXCEPT !.own = m.val.own \cup Mine] \in Payload /\ "ShamirToRss" \in Kind
  BY BufTypes, RunsAssumption, PlainKinds DEF Blank, Payload, PlainKind, Mine
<1>4. \A q \in Party : Msg(p, q, "ShamirToRss", [Blank EXCEPT !.own = m.val.own \cup Mine]) \in Truth(late)'
  BY <1>3, Mute
<1>5. \A q \in Party :
        ToEach(Party \ {p}, p, "ShamirToRss", [Blank EXCEPT !.own = m.val.own \cup Mine])[q] \in Seq(Truth(late)')
  BY <1>3, <1>4, TrueSends
<1> QED BY <1>1, <1>2, <1>5 DEF Sound

LEMMA StoreFirstSound ==
  ASSUME IInv, NEW late, Values(late), NEW p \in Party, NEW m \in Buf(p), StoreFirst(p, m)
  PROVE  Sound(late)
<1>1. phase' = phase /\ ctx' = ctx /\ wires' = wires /\ keys' = keys /\ inbox' = inbox
      /\ said' = said
  BY DEF StoreFirst
<1>2. Steady
  BY <1>1, HandlerTypes DEF Steady
<1> QED BY <1>1, <1>2 DEF Sound, Values, Contexts, Positions, Results, Confirmed, Mine

\* What the messages of a pair tell is so, or they are the late one.
LEMMA PairPosted ==
  ASSUME IInv, NEW late, Traced(late), NEW p \in Party, NEW m \in Buf(p), m \in Around(p),
         HasBoth(p, Filled(p, m)), NEW q \in Party \ {p}
  PROVE  /\ Posted(late, Filled(p, m)[q]) /\ Filled(p, m)[q].from = q
         /\ Filled(p, m)[q] \in Message
<1>1. m.from \in Party /\ Filled(p, m)[q] # NoMsg
  BY BufTypes DEF HasBoth
<1>2. Filled(p, m)[q] = m \/ Filled(p, m)[q] = slot[p][q]
  BY <1>1 DEF Filled, IInv, SlotTypes
<1>3. Filled(p, m)[q] \in Around(p)
  BY <1>1, <1>2 DEF Around
<1>4. Filled(p, m)[q] \in Message
  BY <1>3, AroundTypes
<1> QED BY <1>3, <1>4, PairTypes DEF Traced

\* The label stream moves on.
LEMMA Advances ==
  ASSUME IInv, NEW p \in Party, NEW n \in Nat, Advance(p, n)
  PROVE  \A q \in Party : /\ ctx'[q].crs = ctx[q].crs /\ ctx'[q].seed = ctx[q].seed
                          /\ ctx'[q].prf = IF q = p THEN ctx[q].prf + n ELSE ctx[q].prf
BY HandlerTypes DEF Advance, Context

\* A garbler whose stream moves by n when it goes to the next phase.
LEMMA Drawing ==
  ASSUME IInv, NEW late, Values(late), NEW p \in Garbler, NEW n \in Nat, NEW next, Advance(p, n),
         phase' = [phase EXCEPT ![p] = next], wires' = wires, keys' = keys, said' = said,
         \/ phase[p] = "ShamirToRss" /\ next = "GarblerWaitEvalBits" /\ n = 1
         \/ phase[p] = "GarblerWaitEvalBits" /\ next = "GarblerWaitLabel" /\ n = 2
  PROVE  Steady /\ Values(late)'
<1>t. Party = {0, 1, 2} /\ Garbler = {0, 1} /\ p \in Party
  BY DEF Party, Garbler
<1>0. \A q \in Party : phase'[q] = IF q = p THEN next ELSE phase[q]
  BY <1>t, HandlerTypes
<1>1. \A q \in Party : /\ ctx'[q].crs = ctx[q].crs /\ ctx'[q].seed = ctx[q].seed
                       /\ ctx'[q].prf = IF q = p THEN ctx[q].prf + n ELSE ctx[q].prf
  BY <1>t, Advances
<1>2. Steady
  BY <1>t, <1>0, <1>1, HandlerTypes DEF Steady
<1>3. Contexts(late)'
  BY <1>t, <1>0, <1>1, HandlerTypes DEF Values, Contexts, Mine
<1>4. Positions'
  BY <1>t, <1>0, <1>1, HandlerTypes DEF Values, Positions
<1>5. Results'
  BY <1>t, <1>0, HandlerTypes DEF Values, Results
<1>6. Confirmed'
  BY <1>2, ConfirmedStays DEF Values
<1> QED BY <1>2, <1>3, <1>4, <1>5, <1>6 DEF Values

LEMMA ShamirToRssGarblerSound ==
  ASSUME IInv, NEW late, Values(late), NEW p \in Party, NEW m \in Buf(p), ShamirToRssGarbler(p, m)
  PROVE  Sound(late)
<1>o. PICK own \in Entered(p, Shares(p, Filled(p, m))) :
        Post(To(2, Msg(p, 2, "GarblerInputCommit",
                       [Blank EXCEPT !.crs = ctx[p].crs, !.seed = ctx[p].seed,
                                     !.prf = ctx[p].prf, !.own = own])))
  BY DEF ShamirToRssGarbler
<1>v. PICK v : v = [Blank EXCEPT !.crs = ctx[p].crs, !.seed = ctx[p].seed, !.prf = ctx[p].prf,
                                 !.own = own]
  OBVIOUS
<1>t. /\ p \in Garbler /\ 2 \in Party /\ phase[p] = "ShamirToRss" /\ HasBoth(p, Filled(p, m))
      /\ "GarblerInputCommit" \in Kind
  BY PlainKinds DEF ShamirToRssGarbler, AcceptsShares, Completes, Party, PlainKind
<1>1. /\ phase' = [phase EXCEPT ![p] = "GarblerWaitEvalBits"] /\ Advance(p, 1)
      /\ wires' = wires /\ keys' = keys /\ said' = said
      /\ Post(To(2, Msg(p, 2, "GarblerInputCommit", v)))
  BY <1>o, <1>v, FirstDraw DEF ShamirToRssGarbler, Goto
<1>2. Steady /\ Values(late)'
  BY <1>t, <1>1, Drawing
<1>3. v \in Payload /\ v.prf = 0
  <2>1. own \in SUBSET Runs
    <3>1. \A q \in Party \ {p} : Filled(p, m)[q].val.own \in SUBSET Runs
      BY <1>t, PairTypes
    <3>2. Shares(p, Filled(p, m)) \in SUBSET Runs
      BY <3>1, HandlerTypes, RunsAssumption DEF Shares, Mine
    <3> QED BY <3>2, EnteredTypes
  <2>2. ctx[p].prf = 0
    BY <1>t DEF Values, Positions
  <2>3. ctx[p].crs \in SUBSET Runs /\ ctx[p].seed \in SUBSET Runs
    BY HandlerTypes
  <2>4. v = [crs |-> ctx[p].crs, seed |-> ctx[p].seed, own |-> own,
             prf |-> 0, bit |-> FALSE]
    BY <1>v, <2>2 DEF Blank
  <2> QED BY <2>1, <2>3, <2>4, PayloadType
<1>4. ctx'[p].prf >= 1
  <2>1. ctx'[p].prf = ctx[p].prf + 1
    BY <1>1, Advances
  <2> QED BY <2>1, HandlerTypes
<1>5. \A q \in Party : Msg(p, q, "GarblerInputCommit", v) \in Truth(late)'
  <2>1. ASSUME NEW q \in Party PROVE Claims(Msg(p, q, "GarblerInputCommit", v))'
    BY <1>3, <1>4 DEF Claims, Setup, Position, Opening, Msg
  <2> QED BY <1>t, <1>3, <2>1, OwnTruth
<1>6. \A q \in Party : To(2, Msg(p, 2, "GarblerInputCommit", v))[q] \in Seq(Truth(late)')
  BY <1>t, <1>3, <1>5, TrueSends
<1> QED BY <1>1, <1>2, <1>6 DEF Sound

LEMMA GarblerEvalBitsSound ==
  ASSUME IInv, NEW late, Values(late), NEW p \in Party, NEW m \in Buf(p), GarblerEvalBits(p, m)
  PROVE  Sound(late)
<1>v. PICK v : v = [Blank EXCEPT !.crs = ctx[p].crs, !.seed = ctx[p].seed,
                                 !.prf = ctx[p].prf, !.own = m.val.own]
  OBVIOUS
<1>w. PICK w : w = [Blank EXCEPT !.seed = ctx[p].seed, !.prf = ctx[p].prf + 1]
  OBVIOUS
<1>k. PICK k : k = IF p = 0 THEN "Hash" ELSE "GarbledTables"
  OBVIOUS
<1>t. 2 \in Party /\ phase[p] = "GarblerWaitEvalBits" /\ {"GarblerI3Commit", k} \subseteq Kind
  BY <1>k, PlainKinds DEF GarblerEvalBits, AcceptsEvalBits, Party, PlainKind
<1>g. p \in Garbler
  BY <1>t, HandlerTypes DEF EvaluatorPhases, Terminal, Party, Garbler
<1>1. /\ phase' = [phase EXCEPT ![p] = "GarblerWaitLabel"] /\ Advance(p, 2)
      /\ wires' = wires /\ keys' = keys /\ said' = said
      /\ Post([q \in Party |-> IF q # 2 THEN <<>> ELSE
                 <<Msg(p, 2, "GarblerI3Commit", v), Msg(p, 2, k, w)>>])
  BY <1>v, <1>w, <1>k, HandlerTypes, OtherDraws DEF GarblerEvalBits, Goto, DataTypes
<1>2. Steady /\ Values(late)'
  BY <1>t, <1>g, <1>1, Drawing
<1>3. ctx[p].prf = 1 /\ ctx'[p].prf = 3
  <2>1. ctx[p].prf = 1
    BY <1>t, <1>g DEF Values, Positions
  <2>2. ctx'[p].prf = ctx[p].prf + 2
    BY <1>1, Advances
  <2> QED BY <2>1, <2>2
<1>4. v \in Payload /\ w \in Payload /\ v.prf = 1 /\ w.prf = 2
  <2>1. m.val.own \in SUBSET Runs
    BY BufTypes
  <2>2. ctx[p].crs \in SUBSET Runs /\ ctx[p].seed \in SUBSET Runs
    BY <1>g, HandlerTypes DEF Garbler, Party
  <2>3. ctx[p].prf + 1 = 2
    BY <1>3
  <2>4. v.prf = 1 /\ w.prf = 2
    BY <1>v, <1>w, <1>3, <2>3 DEF Blank
  <2>5. v = [crs |-> ctx[p].crs, seed |-> ctx[p].seed, own |-> m.val.own, prf |-> 1, bit |-> FALSE]
    BY <1>v, <1>3 DEF Blank
  <2>6. w = [crs |-> {}, seed |-> ctx[p].seed, own |-> {}, prf |-> 2, bit |-> FALSE]
    BY <1>w, <2>3 DEF Blank
  <2>7. v \in Payload /\ w \in Payload
    BY <2>1, <2>2, <2>5, <2>6, PayloadType
  <2> QED BY <2>4, <2>7
<1>5. Msg(p, 2, "GarblerI3Commit", v) \in Truth(late)' /\ Msg(p, 2, k, w) \in Truth(late)'
  <2>1. Claims(Msg(p, 2, "GarblerI3Commit", v))'
    BY <1>3, <1>4 DEF Claims, Setup, Position, Opening, Msg
  <2>2. Claims(Msg(p, 2, k, w))'
    BY <1>3, <1>4, <1>g, <1>k DEF Claims, Setup, Position, Opening, Msg, Garbler
  <2> QED BY <1>t, <1>4, <2>1, <2>2, OwnTruth
<1> DEFINE out == [q \in Party |-> IF q # 2 THEN <<>> ELSE
                     <<Msg(p, 2, "GarblerI3Commit", v), Msg(p, 2, k, w)>>]
<1>6. Post(out)
  BY <1>1
<1>7. \A q \in Party : out[q] \in Seq(Truth(late)')
  <2> QED BY <1>5, ShortSeq
<1> HIDE DEF out
<1> QED BY <1>2, <1>6, <1>7 DEF Sound

\* A step of the evaluator with keys and contexts as they were, that leaves its
\* wires alone once they are sent.
LEMMA Evaluating ==
  ASSUME IInv, NEW late, Values(late), NEW next,
         phase' = [phase EXCEPT ![2] = next], ctx' = ctx, keys' = keys, said' = said,
         phase[2] \notin Evaluated \cup {"Aborted"}, next \in Input \ {"Done"}, This \in wires'.own
  PROVE  Steady /\ Values(late)'
<1>t. Party = {0, 1, 2} /\ Garbler = {0, 1}
  BY DEF Party, Garbler
<1>0. \A q \in Party : phase'[q] = IF q = 2 THEN next ELSE phase[q]
  BY HandlerTypes
<1>2. Steady
  BY <1>t, <1>0, HandlerTypes DEF Steady, Evaluated
<1>3. Contexts(late)'
  BY <1>t, <1>0, HandlerTypes DEF Values, Contexts
<1>4. Positions'
  BY <1>t, <1>0, HandlerTypes DEF Values, Positions
<1>5. Results'
  BY <1>t, <1>0, HandlerTypes DEF Values, Results
<1>6. Confirmed'
  BY <1>2, ConfirmedStays DEF Values
<1> QED BY <1>2, <1>3, <1>4, <1>5, <1>6 DEF Values

LEMMA ShamirToRssEvaluatorSound ==
  ASSUME IInv, NEW late, Values(late), NEW m \in Buf(2), ShamirToRssEvaluator(m)
  PROVE  Sound(late)
<1>v. PICK v : v = [Blank EXCEPT !.own = Mine]
  OBVIOUS
<1>1. /\ phase' = [phase EXCEPT ![2] = "EvaluatorWaitMsg1"] /\ phase[2] = "ShamirToRss"
      /\ ctx' = ctx /\ keys' = keys /\ said' = said
      /\ \E own \in Entered(2, Shares(2, Filled(2, m))) : wires' = [wires EXCEPT !.own = own]
      /\ HasBoth(2, Filled(2, m))
      /\ Post(ToEach(Garbler, 2, "EvaluatorBits", v))
  BY <1>v DEF ShamirToRssEvaluator, AcceptsShares, Completes, Goto
<1>2. This \in wires'.own
  <2>1. This \in Shares(2, Filled(2, m)) /\ 2 \in Party
    BY DEF Shares, Mine, Party
  <2>2. wires'.own \in Entered(2, Shares(2, Filled(2, m)))
    BY <1>1, HandlerTypes DEF Wires
  <2>3. Shares(2, Filled(2, m)) \in SUBSET Runs
    <3>1. \A q \in Party \ {2} : Filled(2, m)[q].val.own \in SUBSET Runs
      BY <1>1, <2>1, PairTypes
    <3> QED BY <2>1, <3>1, HandlerTypes, RunsAssumption DEF Shares, Mine
  <2> QED BY <2>1, <2>2, <2>3, EnteredTypes
<1>3. Steady /\ Values(late)'
  BY <1>1, <1>2, Evaluating DEF Evaluated, Input, InputPhases
<1>4. v \in Payload /\ "EvaluatorBits" \in Kind /\ 2 \in Party
  <2>1. Mine \in SUBSET Runs
    BY RunsAssumption DEF Mine
  <2>2. v \in Payload
    BY <1>v, <2>1 DEF Payload, Blank
  <2> QED BY <2>2, PlainKinds DEF PlainKind, Party
<1>5. \A q \in Party : Msg(2, q, "EvaluatorBits", v) \in Truth(late)'
  BY <1>4, Mute
<1>6. \A q \in Party : ToEach(Garbler, 2, "EvaluatorBits", v)[q] \in Seq(Truth(late)')
  BY <1>4, <1>5, TrueSends
<1> QED BY <1>1, <1>3, <1>6 DEF Sound

LEMMA EvaluatorInputSound ==
  ASSUME IInv, NEW late, Values(late), NEW m \in Buf(2), EvaluatorMsg1(m) \/ EvaluatorMsg2(m)
  PROVE  Sound(late)
<1>1. PICK next \in {"EvaluatorWaitMsg2", "CircuitEval"} : phase' = [phase EXCEPT ![2] = next]
  BY DEF EvaluatorMsg1, EvaluatorMsg2, Goto
<1>2. /\ ctx' = ctx /\ keys' = keys /\ said' = said /\ inbox' = inbox
      /\ phase[2] \in {"EvaluatorWaitMsg1", "EvaluatorWaitMsg2"}
  BY DEF EvaluatorMsg1, EvaluatorMsg2, AcceptsMsg1, AcceptsMsg2
<1>3. This \in wires'.own
  <2>1. This \in wires.own
    BY <1>2 DEF Values, Results, Input, InputPhases
  <2>2. wires.own \subseteq wires'.own
    BY HandlerTypes DEF EvaluatorMsg1, EvaluatorMsg2, Wires
  <2> QED BY <2>1, <2>2
<1>4. Steady /\ Values(late)'
  BY <1>1, <1>2, <1>3, Evaluating DEF Evaluated, Input, InputPhases
<1> QED BY <1>2, <1>4 DEF Sound

LEMMA EvaluateCircuitSound ==
  ASSUME IInv, NEW late, Values(late), NEW m \in Buf(2), EvaluateCircuit(m)
  PROVE  Sound(late)
<1>v. PICK v : v = [Blank EXCEPT !.seed = wires'.seed, !.own = wires'.own]
  OBVIOUS
<1>1. /\ phase' = [phase EXCEPT ![2] = "EvaluatorWaitBit"] /\ phase[2] = "CircuitEval"
      /\ ctx' = ctx /\ keys' = keys /\ said' = said /\ wires'.own = wires.own
      /\ Post(ToEach(Garbler, 2, "Label", v))
  BY <1>v, HandlerTypes DEF EvaluateCircuit, AcceptsTables, Goto, Wires
<1>2. This \in wires'.own
  BY <1>1 DEF Values, Results, Input
<1>3. Steady /\ Values(late)'
  BY <1>1, <1>2, Evaluating DEF Evaluated, Input, InputPhases
<1>4. phase'[2] = "EvaluatorWaitBit" /\ 2 \in Party /\ "Label" \in Kind
  BY <1>1, HandlerTypes, PlainKinds DEF Party, PlainKind
<1>5. v \in Payload
  <2>1. Kept(2)
    BY EvaluateCircuitStep
  <2>2. wires' \in Wires
    BY <2>1 DEF Kept, SessionTypes, DataTypes
  <2> QED BY <1>v, <2>2 DEF Payload, Blank, Wires
<1>6. \A q \in Party : Msg(2, q, "Label", v) \in Truth(late)'
  <2>1. v.own = wires'.own /\ v.seed = wires'.seed
    BY <1>v DEF Blank
  <2>2. ASSUME NEW q \in Party PROVE Claims(Msg(2, q, "Label", v))'
    BY <1>2, <1>4, <2>1 DEF Claims, Setup, Position, Opening, Msg, Evaluated
  <2> QED BY <1>4, <1>5, <2>2, OwnTruth
<1>7. \A q \in Party : ToEach(Garbler, 2, "Label", v)[q] \in Seq(Truth(late)')
  BY <1>4, <1>5, <1>6, TrueSends
<1> QED BY <1>1, <1>3, <1>7 DEF Sound

\* The verification bit of a garbler, once the label is its own.
LEMMA GarblerVerifySound ==
  ASSUME IInv, NEW late \in StaleMessages \cup {NoMsg}, Values(late), NEW p \in Party, NEW m \in Buf(p),
         Posted(late, m), GarblerVerify(p, m)
  PROVE  Sound(late)
<1>v. PICK v : v = [Blank EXCEPT !.bit = TRUE]
  OBVIOUS
<1>1. /\ phase' = [phase EXCEPT ![p] = "GarblerWaitLabels"] /\ phase[p] = "GarblerWaitLabel"
      /\ ctx' = ctx /\ wires' = wires /\ keys' = keys /\ Post(To(2, Msg(p, 2, "Bit", v)))
      /\ m.kind = "Label" /\ m.val.seed = ctx[p].seed /\ \E r \in Runs : m.val.own = {r}
  BY <1>v DEF GarblerVerify, AcceptsLabel, ReadsLabel, LabelMatches, Verified, Goto
<1>g. p \in {0, 1}
  BY <1>1, HandlerTypes DEF EvaluatorPhases, Terminal, Party
<1>3. ctx[p].seed = Mine
  BY <1>1, <1>g DEF Values, Contexts
<1>4. Claims(m)
  <2>1. ASSUME m = late, m.run # This PROVE FALSE
    <3>1. late.kind # "None"
      BY <1>1, <2>1
    <3> QED BY <1>1, <1>3, <2>1, <3>1, LateIs
  <2> QED BY <2>1 DEF Posted
<1>5. phase[2] # "Aborted" => phase[2] \in Evaluated /\ wires.own = Mine /\ wires.seed = Mine
  <2>1. m.val.own = Mine
    BY <1>1, <1>4 DEF Claims, Opening, Mine
  <2> QED BY <1>1, <1>3, <1>4, <2>1 DEF Claims, Opening
<1>2. Steady /\ Values(late)'
  BY <1>1, <1>5, Advancing
<1>6. v \in Payload /\ "Bit" \in Kind /\ 2 \in Party
  <2>1. v = [crs |-> {}, seed |-> {}, own |-> {}, prf |-> 0, bit |-> TRUE]
    BY <1>v DEF Blank
  <2>2. v \in Payload
    BY <2>1, PayloadType
  <2> QED BY <2>2, PlainKinds DEF Party
<1>7. \A q \in Party : Msg(p, q, "Bit", v) \in Truth(late)'
  <2>1. phase'[2] = phase[2] /\ wires' = wires
    BY <1>1, <1>g, HandlerTypes
  <2>2. ASSUME NEW q \in Party PROVE Claims(Msg(p, q, "Bit", v))'
    BY <1>5, <2>1 DEF Claims, Setup, Position, Opening, Msg, Mine
  <2> QED BY <1>6, <2>2, OwnTruth
<1>8. \A q \in Party : To(2, Msg(p, 2, "Bit", v))[q] \in Seq(Truth(late)')
  BY <1>6, <1>7, TrueSends
<1> QED BY <1>1, <1>2, <1>8 DEF Sound

\* Of two messages from different parties one is of this run.
LEMMA OneIsOurs ==
  ASSUME IInv, NEW late, Traced(late), NEW m \in Buf(2), m \in Around(2), HasBoth(2, Filled(2, m))
  PROVE  \E q \in Garbler : Claims(Filled(2, m)[q])
<1>1. Garbler = {0, 1} /\ 2 \in Party /\ \A q \in Garbler : q \in Party \ {2}
  BY DEF Party, Garbler
<1>2. \A q \in Garbler : Posted(late, Filled(2, m)[q]) /\ Filled(2, m)[q].from = q
  BY <1>1, PairPosted
<1>3. Posted(late, Filled(2, m)[0]) /\ Posted(late, Filled(2, m)[1])
      /\ Filled(2, m)[0].from = 0 /\ Filled(2, m)[1].from = 1
  BY <1>1, <1>2
<1>4. Filled(2, m)[0] # Filled(2, m)[1]
  BY <1>3
<1>5. Claims(Filled(2, m)[0]) \/ Claims(Filled(2, m)[1])
  BY <1>3, <1>4 DEF Posted
<1> QED BY <1>1, <1>5

\* The evaluator releases its labels after two confirmations.
LEMMA EvaluatorVerifiedSound ==
  ASSUME IInv, NEW late, Values(late), Traced(late), NEW m \in Buf(2), m \in Around(2),
         EvaluatorVerified(m)
  PROVE  Sound(late)
<1>v. PICK v : v = [Blank EXCEPT !.seed = wires.seed, !.own = wires.own]
  OBVIOUS
<1>1. /\ phase' = [phase EXCEPT ![2] = "EvaluatorWaitBits"] /\ phase[2] = "EvaluatorWaitBit"
      /\ ctx' = ctx /\ wires' = wires /\ keys' = keys /\ Post(ToEach(Garbler, 2, "Labels", v))
      /\ HasBoth(2, Filled(2, m))
      /\ \A q \in Garbler : Filled(2, m)[q].kind = "Bit" /\ Filled(2, m)[q].val.bit
  BY <1>v DEF EvaluatorVerified, AcceptsBit, Completes, KindsAre, Goto, Garbler
<1>3. PICK q \in Garbler : Claims(Filled(2, m)[q])
  BY <1>1, OneIsOurs
<1>4. wires.own = Mine /\ wires.seed = Mine
  BY <1>1, <1>3 DEF Claims, Opening
<1>2. Steady /\ Values(late)'
  <2>1. 2 \in Party /\ phase[2] \in Evaluated
    BY <1>1 DEF Party, Evaluated
  <2> QED BY <1>1, <1>4, <2>1, Advancing
<1>5. v \in Payload /\ "Labels" \in Kind /\ 2 \in Party /\ v.own = Mine
  <2>1. wires.own \in SUBSET Runs /\ wires.seed \in SUBSET Runs
    BY HandlerTypes DEF Wires
  <2>2. v = [crs |-> {}, seed |-> wires.seed, own |-> wires.own, prf |-> 0, bit |-> FALSE]
    BY <1>v DEF Blank
  <2>3. v \in Payload
    BY <2>1, <2>2, PayloadType
  <2> QED BY <1>4, <2>2, <2>3, PlainKinds DEF Party
<1>6. \A r \in Party : Msg(2, r, "Labels", v) \in Truth(late)'
  <2>1. ASSUME NEW r \in Party PROVE Claims(Msg(2, r, "Labels", v))'
    BY <1>5 DEF Claims, Setup, Position, Opening, Msg, Mine
  <2> QED BY <1>5, <2>1, OwnTruth
<1>7. \A r \in Party : ToEach(Garbler, 2, "Labels", v)[r] \in Seq(Truth(late)')
  BY <1>5, <1>6, TrueSends
<1> QED BY <1>1, <1>2, <1>7 DEF Sound

\* A session that ends with this run's keys.
LEMMA Finishing ==
  ASSUME IInv, NEW late, Values(late), NEW p \in Party,
         phase' = [phase EXCEPT ![p] = "Done"], keys' = [keys EXCEPT ![p] = Mine],
         ctx' = ctx, wires' = wires, said' = said, phase[p] \in OutputPhases
  PROVE  Steady /\ Values(late)'
<1>t. Party = {0, 1, 2} /\ Garbler = {0, 1}
  BY DEF Party, Garbler
<1>0. \A q \in Party : /\ phase'[q] = IF q = p THEN "Done" ELSE phase[q]
                       /\ keys'[q] = IF q = p THEN Mine ELSE keys[q]
  BY HandlerTypes
<1>2. Steady
  BY <1>t, <1>0, HandlerTypes DEF Steady, Evaluated, OutputPhases
<1>3. Contexts(late)'
  BY <1>t, <1>0, HandlerTypes DEF Values, Contexts, OutputPhases, Mine
<1>4. Positions'
  BY <1>t, <1>0, HandlerTypes DEF Values, Positions
<1>5. Results'
  <2>1. phase'[2] \in Input => phase[2] \in Input
    BY <1>t, <1>0, HandlerTypes DEF Input, InputPhases, Evaluated, OutputPhases, EvaluatorPhases, Terminal
  <2> QED BY <1>0, <2>1 DEF Values, Results, Mine
<1>6. Confirmed'
  BY <1>2, ConfirmedStays DEF Values
<1> QED BY <1>2, <1>3, <1>4, <1>5, <1>6 DEF Values

LEMMA GarblerDecodeSound ==
  ASSUME IInv, NEW late \in StaleMessages \cup {NoMsg}, Values(late), NEW p \in Party, NEW m \in Buf(p),
         Posted(late, m), GarblerDecode(p, m)
  PROVE  Sound(late)
<1>v. PICK v : v = [Blank EXCEPT !.own = m.val.own]
  OBVIOUS
<1>1. /\ phase' = [phase EXCEPT ![p] = "Done"] /\ phase[p] = "GarblerWaitLabels"
      /\ ctx' = ctx /\ wires' = wires /\ said' = said /\ keys' = [keys EXCEPT ![p] = m.val.own]
      /\ Post(To(2, Msg(p, 2, "Bits", v)))
      /\ m.kind = "Labels" /\ m.val.seed = ctx[p].seed
  BY <1>v DEF GarblerDecode, AcceptsLabels, LabelMatches, Goto
<1>g. p \in {0, 1}
  BY <1>1, HandlerTypes DEF EvaluatorPhases, Terminal, Party
<1>3. ctx[p].seed = Mine
  BY <1>1, <1>g DEF Values, Contexts
<1>4. Claims(m)
  <2>1. ASSUME m = late, m.run # This PROVE FALSE
    <3>1. late.kind # "None"
      BY <1>1, <2>1
    <3> QED BY <1>1, <1>3, <2>1, <3>1, LateIs
  <2> QED BY <2>1 DEF Posted
<1>5. m.val.own = Mine
  BY <1>1, <1>4 DEF Claims, Opening
<1>2. Steady /\ Values(late)'
  BY <1>1, <1>5, Finishing DEF OutputPhases
<1>6. v \in Payload /\ "Bits" \in Kind /\ 2 \in Party /\ v.own = Mine
  <2>1. m.val.own \in SUBSET Runs
    BY BufTypes
  <2>2. v = [crs |-> {}, seed |-> {}, own |-> m.val.own, prf |-> 0, bit |-> FALSE]
    BY <1>v DEF Blank
  <2>3. v \in Payload
    BY <2>1, <2>2, PayloadType
  <2> QED BY <1>5, <2>2, <2>3, PlainKinds DEF Party
<1>7. \A q \in Party : Msg(p, q, "Bits", v) \in Truth(late)'
  <2>1. ASSUME NEW q \in Party PROVE Claims(Msg(p, q, "Bits", v))'
    BY <1>6 DEF Claims, Setup, Position, Opening, Msg, Mine
  <2> QED BY <1>6, <2>1, OwnTruth
<1>8. \A q \in Party : To(2, Msg(p, 2, "Bits", v))[q] \in Seq(Truth(late)')
  BY <1>6, <1>7, TrueSends
<1> QED BY <1>1, <1>2, <1>8 DEF Sound

LEMMA EvaluatorDecodeSound ==
  ASSUME IInv, NEW late, Values(late), Traced(late), NEW m \in Buf(2), m \in Around(2),
         EvaluatorDecode(m)
  PROVE  Sound(late)
<1>t. 2 \in Party /\ Garbler = {0, 1} /\ Party = {0, 1, 2}
  BY DEF Party, Garbler
<1>1. /\ phase' = [phase EXCEPT ![2] = "Done"] /\ phase[2] = "EvaluatorWaitBits"
      /\ ctx' = ctx /\ wires' = wires /\ said' = said /\ keys' = [keys EXCEPT ![2] = m.val.own]
      /\ inbox' = inbox /\ HasBoth(2, Filled(2, m)) /\ m.from # 2
      /\ \A q \in Garbler : Filled(2, m)[q].kind = "Bits"
      /\ Filled(2, m)[0].val.own = Filled(2, m)[1].val.own
  BY DEF EvaluatorDecode, AcceptsBits, Completes, Fills, Routed, KindsAre, Goto, Garbler
<1>2. PICK q \in Garbler : Claims(Filled(2, m)[q])
  BY <1>1, OneIsOurs
<1>3. Filled(2, m)[q].val.own = Mine
  BY <1>1, <1>2 DEF Claims, Opening
<1>4. m.from \in Garbler /\ Filled(2, m)[m.from] = m
  <2>1. m.from \in Party
    BY <1>t, BufTypes
  <2>2. Filled(2, m)[m.from] = m
    BY <1>t, <2>1 DEF Filled, IInv, SlotTypes
  <2> QED BY <1>t, <1>1, <2>1, <2>2
<1>5. m.val.own = Mine
  BY <1>t, <1>1, <1>3, <1>4
<1>6. Steady /\ Values(late)'
  BY <1>t, <1>1, <1>5, Finishing DEF OutputPhases
<1> QED BY <1>1, <1>6 DEF Sound

\* Every handler.
LEMMA HandleSound ==
  ASSUME IInv, NEW late \in StaleMessages \cup {NoMsg}, Values(late), Traced(late),
         NEW p \in Party, NEW m \in Buf(p), m \in Around(p), Handle(p, m)
  PROVE  Sound(late)
<1>1. Posted(late, m)
  BY DEF Traced
<1> QED BY <1>1, SetupCrs0Sound, SetupCrs1Sound, SetupPrfSound, SetupGarbleKeySound,
           CommonRandomnessSound, StoreFirstSound, ShamirToRssGarblerSound,
           ShamirToRssEvaluatorSound, GarblerEvalBitsSound, EvaluatorInputSound,
           EvaluateCircuitSound, GarblerVerifySound, EvaluatorVerifiedSound,
           GarblerDecodeSound, EvaluatorDecodeSound DEF Handle

-----------------------------------------------------------------------------
(* The steps.                                                              *)

\* A turn of the loop takes the message it handles out of the buffer, and may
\* file it away.
LEMMA TurnMoves ==
  ASSUME IInv, NEW p \in Party, NEW i \in DOMAIN pending[p], NEW in,
         Consume(p, i) \/ pending' = [pending EXCEPT ![p] = <<>>],
         \/ slot' = [slot EXCEPT ![p] = NoSlots]
         \/ slot' = [slot EXCEPT ![p] = Filled(p, pending[p][i])]
         \/ slot' = [slot EXCEPT ![p] = slot[p]],
         \A q \in Party : ToSet(inbox'[q]) \subseteq ToSet(inbox[q]) \cup in[q]
  PROVE  Moves(in)
<1>t. /\ pending \in [Party -> Seq(Message)] /\ slot \in [Party -> [Party -> Message \cup {NoMsg}]]
      /\ pending[p] \in Seq(Message)
  BY DEF IInv, PendingTypes, SlotTypes
<1>1. \A q \in Party : ToSet(pending'[q]) \subseteq ToSet(pending[q]) \cup ToSet(inbox[q])
  <2>1. CASE pending' = [pending EXCEPT ![p] = <<>>]
    BY <1>t, <2>1, NoElements
  <2>2. CASE Consume(p, i)
    <3>1. ToSet(RemoveAt(pending[p], i)) \subseteq ToSet(pending[p])
      BY <1>t, Removed
    <3>2. \A q \in Party : pending'[q] = IF q = p THEN RemoveAt(pending[p], i) ELSE pending[q]
      BY <1>t, <2>2 DEF Consume
    <3> QED BY <3>1, <3>2
  <2> QED BY <2>1, <2>2
<1>2. pending[p][i] \in ToSet(pending[p])
  BY <1>t, Elements
<1>3. \A q, r \in Party : slot'[q][r] \in {NoMsg, slot[q][r]} \cup ToSet(pending[q])
  <2>1. CASE slot' = [slot EXCEPT ![p] = NoSlots]
    BY <1>t, <2>1 DEF NoSlots
  <2>2. CASE slot' = [slot EXCEPT ![p] = slot[p]]
    BY <1>t, <2>2
  <2>3. CASE slot' = [slot EXCEPT ![p] = Filled(p, pending[p][i])]
    <3>1. \A r \in Party : Filled(p, pending[p][i])[r] \in {pending[p][i], slot[p][r]}
      BY <1>t DEF Filled
    <3>2. \A q \in Party : slot'[q] = IF q = p THEN Filled(p, pending[p][i]) ELSE slot[q]
      BY <1>t, <2>3
    <3> QED BY <1>2, <3>1, <3>2
  <2> QED BY <2>1, <2>2, <2>3
<1> QED BY <1>1, <1>3 DEF Moves

\* What handlers do with the collecting state.
LEMMA HandleSlots ==
  ASSUME NEW p \in Party, NEW m, Handle(p, m)
  PROVE  slot' = [slot EXCEPT ![p] = NoSlots] \/ slot' = [slot EXCEPT ![p] = Filled(p, m)]
BY DEF Handle, SetupCrs0, SetupCrs1, SetupPrf, SetupGarbleKey, CommonRandomness, StoreFirst,
       ShamirToRssGarbler, ShamirToRssEvaluator, GarblerEvalBits, EvaluatorMsg1, EvaluatorMsg2,
       EvaluateCircuit, GarblerVerify, EvaluatorVerified, GarblerDecode, EvaluatorDecode, Goto

\* A turn that handles a message.
LEMMA LoopHandleSound ==
  ASSUME IInv, IInv', NEW late \in StaleMessages \cup {NoMsg}, Values(late), Traced(late),
         NEW p \in Party, LoopHandle(p)
  PROVE  Values(late)' /\ Traced(late)'
<1>1. PICK i \in DOMAIN pending[p] :
        /\ Handle(p, pending[p][i])
        /\ pending' = [pending EXCEPT ![p] = <<>>] \/ Consume(p, i)
  BY DEF LoopHandle
<1>2. pending[p][i] \in Buf(p)
  BY LenProperties, ElementOfSeq DEF IInv, PendingTypes
<1>3. pending[p][i] \in Around(p)
  <2>1. pending[p] \in Seq(Message)
    BY DEF IInv, PendingTypes
  <2> QED BY <2>1, Elements DEF Around
<1>4. Sound(late)
  BY <1>1, <1>2, <1>3, HandleSound
<1>5. PICK in : /\ \A q \in Party : ToSet(inbox'[q]) \subseteq ToSet(inbox[q]) \cup in[q]
                /\ \A q \in Party : \A m \in in[q] : Posted(late, m)'
  <2>1. CASE UNCHANGED inbox
    <3>1. \A q \in Party : ToSet(inbox'[q]) \subseteq ToSet(inbox[q]) \cup Nothing[q]
      BY <2>1
    <3>2. \A q \in Party : \A m \in Nothing[q] : Posted(late, m)'
      BY DEF Nothing
    <3> QED BY <3>1, <3>2
  <2>2. ASSUME NEW out, Post(out), \A q \in Party : out[q] \in Seq(Truth(late)')
        PROVE  \E in : /\ \A q \in Party : ToSet(inbox'[q]) \subseteq ToSet(inbox[q]) \cup in[q]
                       /\ \A q \in Party : \A m \in in[q] : Posted(late, m)'
    <3>1. PICK in : in = [q \in Party |-> ToSet(out[q])]
      OBVIOUS
    <3>2. \A q \in Party : in[q] = ToSet(out[q])
      BY <3>1
    <3>3. Truth(late)' \subseteq Message /\ \A m \in Truth(late)' : Posted(late, m)'
      BY DEF Truth
    <3>4. \A q \in Party : out[q] \in Seq(Message)
      BY <2>2, <3>3, SeqMonotonic
    <3>5. \A q \in Party : ToSet(inbox'[q]) \subseteq ToSet(inbox[q]) \cup ToSet(out[q])
      BY <2>2, <3>4, PostMoves
    <3>6. \A q \in Party : ToSet(out[q]) \subseteq Truth(late)'
      BY <2>2, Elements
    <3> QED BY <3>2, <3>3, <3>5, <3>6
  <2> QED BY <1>4, <2>1, <2>2 DEF Sound
<1>6. Moves(in)
  BY <1>1, <1>5, HandleSlots, TurnMoves
<1> QED BY <1>4, <1>5, <1>6, TracedStep DEF Sound

\* The values, when a step leaves them alone.
LEMMA SameValues ==
  ASSUME IInv, NEW late, Values(late), phase' = phase, ctx' = ctx, wires' = wires, keys' = keys,
         said' = said
  PROVE  Steady /\ Values(late)'
<1>1. Steady
  BY HandlerTypes DEF Steady
<1> QED BY <1>1 DEF Values, Contexts, Positions, Results, Confirmed, Mine

\* A turn that ends in an error.
LEMMA LoopRejectSound ==
  ASSUME IInv, IInv', NEW late, Values(late), Traced(late), NEW p \in Party, LoopReject(p)
  PROVE  Values(late)' /\ Traced(late)'
<1>1. PICK i \in DOMAIN pending[p] :
        /\ Consume(p, i)
        /\ slot' = [slot EXCEPT ![p] = SlotAfterError(p, pending[p][i])]
        /\ Post(To(2, Msg(p, 2, "Bit", Blank))) \/ UNCHANGED inbox
  BY DEF LoopReject
<1>2. Steady /\ Values(late)'
  BY SameValues DEF LoopReject
<1>3. SlotAfterError(p, pending[p][i]) \in {Filled(p, pending[p][i]), NoSlots, slot[p]}
  BY DEF SlotAfterError
<1>4. Blank \in Payload /\ 2 \in Party /\ "Bit" \in Kind
  BY PlainKinds DEF Blank, Payload, Party
<1>5. Msg(p, 2, "Bit", Blank) \in Message /\ Posted(late, Msg(p, 2, "Bit", Blank))'
  <2>1. Claims(Msg(p, 2, "Bit", Blank))'
    BY DEF Claims, Setup, Position, Opening, Msg, Blank
  <2> QED BY <1>4, <2>1, OwnTruth DEF Truth
<1>6. PICK in : in = [q \in Party |-> {Msg(p, 2, "Bit", Blank)}]
  OBVIOUS
<1>7. \A q \in Party : ToSet(inbox'[q]) \subseteq ToSet(inbox[q]) \cup in[q]
  <2>1. CASE UNCHANGED inbox
    BY <2>1
  <2>2. CASE Post(To(2, Msg(p, 2, "Bit", Blank)))
    <3>1. ASSUME NEW q \in Party
          PROVE  /\ To(2, Msg(p, 2, "Bit", Blank))[q] \in Seq(Message)
                 /\ To(2, Msg(p, 2, "Bit", Blank))[q] \in Seq({Msg(p, 2, "Bit", Blank)})
      <4>1. To(2, Msg(p, 2, "Bit", Blank))[q] = IF q = 2 THEN <<Msg(p, 2, "Bit", Blank)>> ELSE <<>>
        BY DEF To
      <4> QED BY <1>5, <4>1, ShortSeq
    <3>2. \A q \in Party : ToSet(To(2, Msg(p, 2, "Bit", Blank))[q]) \subseteq {Msg(p, 2, "Bit", Blank)}
      BY <3>1, Elements
    <3>3. \A q \in Party : ToSet(inbox'[q]) \subseteq ToSet(inbox[q]) \cup ToSet(To(2, Msg(p, 2, "Bit", Blank))[q])
      BY <2>2, <3>1, PostMoves
    <3> QED BY <1>6, <3>2, <3>3
  <2> QED BY <1>1, <2>1, <2>2
<1>8. Moves(in)
  BY <1>1, <1>3, <1>7, TurnMoves
<1>9. \A q \in Party : \A m \in in[q] : Posted(late, m)'
  BY <1>5, <1>6
<1> QED BY <1>2, <1>8, <1>9, TracedStep

\* A host gives up.
LEMMA HostAbortSound ==
  ASSUME IInv, IInv', NEW late, Values(late), Traced(late), NEW p \in Party, HostAbort(p)
  PROVE  Values(late)' /\ Traced(late)'
<1>1. /\ Post([q \in Party |-> IF q = p THEN <<>> ELSE <<Msg(p, 0, "Abort", Blank)>>])
      /\ slot' = slot /\ pending' = pending
  BY DEF HostAbort, session
<1>2. Steady /\ Values(late)'
  BY SameValues DEF HostAbort, session
<1>3. PICK a : a = Msg(p, 0, "Abort", Blank)
  OBVIOUS
<1>4. a \in Message /\ Posted(late, a)'
  <2>1. Blank \in Payload /\ 0 \in Party
    BY DEF Blank, Payload, Party
  <2> QED BY <1>3, <2>1, Mute DEF Truth
<1>5. PICK out : out = [q \in Party |-> IF q = p THEN <<>> ELSE <<a>>]
  OBVIOUS
<1>6. \A q \in Party : out[q] \in Seq(Message) /\ out[q] \in Seq({a})
  BY <1>4, <1>5, ShortSeq
<1>7. \A q \in Party : ToSet(inbox'[q]) \subseteq ToSet(inbox[q]) \cup ToSet(out[q])
  <2>1. Post(out)
    BY <1>1, <1>3, <1>5
  <2> QED BY <1>6, <2>1, PostMoves
<1>8. \A q \in Party : ToSet(out[q]) \subseteq {a}
  BY <1>6, Elements
<1>9. PICK in : in = [q \in Party |-> {a}]
  OBVIOUS
<1>10. Moves(in)
  BY <1>1, <1>7, <1>8, <1>9 DEF Moves
<1>11. \A q \in Party : \A m \in in[q] : Posted(late, m)'
  BY <1>4, <1>9
<1> QED BY <1>2, <1>10, <1>11, TracedStep

\* An Abort received.
LEMMA HandleAbortSound ==
  ASSUME IInv, IInv', NEW late, Values(late), Traced(late), NEW p \in Party, HandleAbort(p)
  PROVE  Values(late)' /\ Traced(late)'
<1>t. Party = {0, 1, 2} /\ Garbler = {0, 1}
  BY DEF Party, Garbler
<1>0. /\ \A q \in Party : phase'[q] = IF q = p THEN "Aborted" ELSE phase[q]
      /\ ctx' = ctx /\ keys' = keys /\ said' = said /\ (p # 2 => wires' = wires)
  BY HandlerTypes DEF HandleAbort
<1>1. Steady
  BY <1>t, <1>0, HandlerTypes DEF Steady, Evaluated
<1>2. Contexts(late)'
  BY <1>t, <1>0, HandlerTypes DEF Values, Contexts, Mine
<1>3. Positions'
  BY <1>t, <1>0, HandlerTypes DEF Values, Positions
<1>4. Results'
  <2>1. phase'[2] \in Input => phase[2] \in Input /\ wires' = wires
    BY <1>t, <1>0 DEF Input, InputPhases, Evaluated
  <2> QED BY <1>0, <2>1 DEF Values, Results, Mine
<1>7. Confirmed'
  BY <1>0, <1>1, ConfirmedStays DEF Values
<1>5. Moves(Nothing)
  BY CallMoves
<1>6. \A q \in Party : \A m \in Nothing[q] : Posted(late, m)'
  BY DEF Nothing
<1> QED BY <1>1, <1>2, <1>3, <1>4, <1>5, <1>6, <1>7, TracedStep DEF Values

\* The steps that leave the session alone and send nothing.
LEMMA CallSound ==
  ASSUME IInv, IInv', NEW late, Values(late), Traced(late), NEW p \in Party,
         HandleMessages(p) \/ Redeliver(p) \/ Poll(p) \/ HandleAfterEnd(p)
           \/ HandleMisdirected(p) \/ LoopReturn(p)
  PROVE  Values(late)' /\ Traced(late)'
<1>1. Steady /\ Values(late)'
  BY SameValues DEF HandleMessages, Redeliver, Poll, HandleAfterEnd, HandleMisdirected, LoopReturn, session
<1>2. Moves(Nothing)
  BY CallMoves
<1>3. \A q \in Party : \A m \in Nothing[q] : Posted(late, m)'
  BY DEF Nothing
<1> QED BY <1>1, <1>2, <1>3, TracedStep

\* At the start only the evaluator's CRS is on its way, and maybe a late message.
LEMMA InitTraces ==
  ASSUME Init
  PROVE  Traces
<1>t. Party = {0, 1, 2} /\ Garbler = {0, 1}
  BY DEF Party, Garbler
<1>1. PICK late \in {<<>>} \cup (IF MaxStale = 0 THEN {} ELSE {<<m>> : m \in StaleMessages}) :
        inbox = [p \in Party |->
                  (IF p = 2 THEN <<>>
                   ELSE <<Msg(2, p, "CommCrs", [Blank EXCEPT !.crs = Mine])>>)
                    \o (IF late # <<>> /\ late[1].to = p THEN late ELSE <<>>)]
  BY DEF Init
<1>2. PICK m \in StaleMessages \cup {NoMsg} : late = <<>> \/ (late = <<m>> /\ m \in StaleMessages)
  <2>1. CASE late = <<>>
    <3>1. NoMsg \in StaleMessages \cup {NoMsg}
      OBVIOUS
    <3> QED BY <2>1, <3>1
  <2>2. CASE late # <<>>
    <3>1. late \in {<<m>> : m \in StaleMessages}
      BY <1>1, <2>2
    <3> QED BY <3>1
  <2> QED BY <2>1, <2>2
<1>3. Values(m)
  <2>1. /\ phase[0] = "WaitCrs" /\ phase[1] = "WaitCrs" /\ phase[2] = "WaitGarbleKey"
        /\ ctx[0].seed = {} /\ said = {} /\ \A q \in Garbler : ctx[q].prf = 0
    BY <1>t DEF Init
  <2> QED BY <1>t, <2>1 DEF Values, Contexts, Positions, Results, Confirmed, Input, InputPhases, Evaluated
<1>4. ASSUME NEW p \in Party, NEW n \in Around(p) PROVE Posted(m, n)
  <2>1. PICK c : c = Msg(2, p, "CommCrs", [Blank EXCEPT !.crs = Mine])
    OBVIOUS
  <2>2. Posted(m, c)
    BY <2>1 DEF Posted, Claims, Setup, Position, Opening, Msg, Blank
  <2>3. late # <<>> => Posted(m, m)
    BY <1>2, StaleTypes DEF Posted
  <2>4. PICK a : a = IF p = 2 THEN <<>> ELSE <<c>>
    OBVIOUS
  <2>5. PICK b : b = IF late # <<>> /\ late[1].to = p THEN late ELSE <<>>
    OBVIOUS
  <2>6. inbox[p] = a \o b
    BY <1>1, <2>1, <2>4, <2>5
  <2>7. a \in Seq({c}) /\ b \in Seq({m}) /\ (late = <<>> => b = <<>>)
    BY <1>2, <2>4, <2>5, ShortSeq
  <2>8. ToSet(inbox[p]) \subseteq {c} \cup (IF late = <<>> THEN {} ELSE {m})
    <3>1. CASE late = <<>>
      <4>1. b \in Seq({c})
        BY <2>7, <3>1, ShortSeq
      <4>2. a \o b \in Seq({c})
        BY <2>7, <4>1, ConcatProperties
      <4> QED BY <2>6, <3>1, <4>2, Elements
    <3>2. CASE late # <<>>
      <4>1. a \in Seq({c, m}) /\ b \in Seq({c, m})
        BY <2>7, SeqMonotonic
      <4>2. a \o b \in Seq({c, m})
        BY <4>1, ConcatProperties
      <4> QED BY <2>6, <3>2, <4>2, Elements
    <3> QED BY <3>1, <3>2
  <2>9. ToSet(pending[p]) = {} /\ {slot[p][q] : q \in Party} \ {NoMsg} = {}
    BY NoElements DEF Init, NoSlots
  <2>10. n = c \/ (late # <<>> /\ n = m)
    BY <1>4, <2>8, <2>9 DEF Around
  <2> QED BY <2>2, <2>3, <2>10
<1>5. Traced(m)
  BY <1>4 DEF Traced
<1> QED BY <1>2, <1>3, <1>5 DEF Traces

\* Every step keeps the traces.
LEMMA TracesStep ==
  ASSUME IInv, Traces, [Next]_vars
  PROVE  Traces'
<1>1. IInv'
  BY NextStep
<1>2. PICK late \in StaleMessages \cup {NoMsg} : Values(late) /\ Traced(late)
  BY DEF Traces
<1>3. Values(late)' /\ Traced(late)'
  <2>1. CASE Next
    <3>1. PICK p \in Party : \/ Call(p) \/ Redeliver(p) \/ Poll(p) \/ HandleAfterEnd(p)
                             \/ HandleMisdirected(p) \/ HostAbort(p) \/ Loop(p)
      BY <2>1 DEF Next
    <3> QED BY <1>1, <1>2, <3>1, CallSound, HandleAbortSound, HostAbortSound, LoopHandleSound,
            LoopRejectSound DEF Call, Loop
  <2>2. CASE UNCHANGED vars
    <3>1. Steady /\ Values(late)'
      BY <1>2, <2>2, SameValues DEF vars
    <3>2. Moves(Nothing)
      BY <2>2 DEF vars, Moves
    <3>3. \A q \in Party : \A m \in Nothing[q] : Posted(late, m)'
      BY DEF Nothing
    <3> QED BY <1>1, <1>2, <3>1, <3>2, <3>3, TracedStep
  <2> QED BY <2>1, <2>2
<1>4. (StaleMessages \cup {NoMsg})' = StaleMessages \cup {NoMsg}
  OBVIOUS
<1> QED BY <1>3, <1>4 DEF Traces

\* The traces hold in every reachable state.
LEMMA TracesInvariant == Spec => [](IInv /\ Traces)
<1>1. Init => IInv /\ Traces
  BY InitStep, InitTraces
<1>2. IInv /\ Traces /\ [Next]_vars => (IInv /\ Traces)'
  BY NextStep, TracesStep
<1> QED BY <1>1, <1>2, PTL DEF Spec

-----------------------------------------------------------------------------
(* The theorems.                                                           *)

\* The garblers agree on the CRS and the label seed once party 1 has left the
\* setup (SetupYaoState::WaitPrf compares the CRS that comes with the seed):
\* neither a late CRS nor a late seed is enough to make party 1 use another
\* run's, for any number of runs and any transport.
THEOREM AgreedSetup == Spec => []GarblersAgree
<1>1. IInv /\ Traces => GarblersAgree
  BY DEF Traces, Values, Contexts, GarblersAgree
<1> QED BY <1>1, TracesInvariant, PTL

\* A session that ends with keys has the keys of this run's three shares
\* (BatchOutputYaoState): the evaluator's labels were checked by a garbler of
\* this run against its own offset and its own check bit.
THEOREM KeysOfThisRun == Spec => []KeysAreOurs
<1>1. IInv /\ Traces => KeysAreOurs
  BY DEF Traces, Values, Results, KeysAreOurs
<1> QED BY <1>1, TracesInvariant, PTL

\* What the garblers confirm and the evaluator opens is the sharing of this run
\* (OutputVerificationState): the garblers check the label of the circuit's
\* first output, which every replicated share is in, and the evaluator waits
\* for both of them; one TRUE bit of an earlier run is not enough.  Whoever may
\* enter a share that does not fit, for any transport and number of faults.
THEOREM OpenedFits == Spec => []OpensWhatFits
<1>1. IInv /\ Traces => OpensWhatFits
  BY DEF Traces, Values, Confirmed, OpensWhatFits
<1> QED BY <1>1, TracesInvariant, PTL

\* The label stream is never rewound (Context.yao_setup.prf between the
\* handlers): each message of a garbler that uses labels uses labels of its
\* own, before the position its context has reached.
THEOREM LabelsFresh == Spec => []FreshLabels
<1>1. ASSUME IInv, Traces PROVE FreshLabels
  <2>1. PICK late : Traced(late)
    BY <1>1 DEF Traces
  <2>2. ASSUME NEW m \in OnTheWay(2)
        PROVE  m \in Message /\ Position(m) /\ m.kind \in LabelKinds
    <3>1. 2 \in Party
      BY DEF Party
    <3>2. m \in Around(2) /\ m.run = This /\ m.kind \in LabelKinds
      BY <2>2 DEF OnTheWay, Around, NoMsg, LabelKinds
    <3> QED BY <1>1, <2>1, <3>1, <3>2, AroundTypes DEF Traced, Posted, Claims
  <2>3. ASSUME NEW m \in OnTheWay(2) PROVE m.val.prf < ctx[m.from].prf
    <3>1. ctx[m.from].prf \in Nat
      BY <1>1, <2>2, HandlerTypes DEF Message
    <3> QED BY <2>2, <3>1 DEF Position, LabelKinds
  <2>4. ASSUME NEW m \in OnTheWay(2), NEW n \in OnTheWay(2), m.from = n.from, m.kind # n.kind
        PROVE  m.val.prf # n.val.prf
    BY <2>2, <2>4 DEF Position, LabelKinds
  <2> QED BY <2>3, <2>4 DEF FreshLabels
<1>2. IInv /\ Traces => FreshLabels
  BY <1>1
<1> QED BY <1>2, TracesInvariant, PTL

(***************************************************************************)
(* The order of the messages.                                              *)
(* When the transport delivers every message of this run once, in any      *)
(* order, a session refuses only the messages of KnownRaces, whatever the  *)
(* hosts do after an error; and once everything is delivered and nothing   *)
(* was refused, all three have their keys.                                 *)
(*                                                                         *)
(* The inductive invariant, Exchange, numbers the stages of a session and  *)
(* says of every message on its way which stages its sender and receiver   *)
(* can be in: the sender has come to the stage that sends it, the receiver *)
(* not past the stage that takes it.  Each message is on its way once, and *)
(* nothing that was sent and not taken is missing.                         *)
(***************************************************************************)

\* The stages of a session, numbered alike for the garblers and the evaluator;
\* an aborted session is past them all.
Stage(ph) ==
    CASE ph \in {"WaitCrs", "WaitGarbleKey"} -> 0
      [] ph = "WaitPrf" -> 1
      [] ph = "CommonRandomness" -> 2
      [] ph = "ShamirToRss" -> 3
      [] ph \in {"GarblerWaitEvalBits", "EvaluatorWaitMsg1"} -> 4
      [] ph = "EvaluatorWaitMsg2" -> 5
      [] ph = "CircuitEval" -> 6
      [] ph \in VerifyPhases -> 7
      [] ph \in OutputPhases -> 8
      [] ph = "Done" -> 9
      [] OTHER -> 10

At(p) == Stage(phase[p])
Running(p) == At(p) # 10

\* The stage whose start sends the messages of kind k, and the one that takes them.
SentAt(k) ==
    CASE k = "CommCrs" -> 0
      [] k \in {"PrfSeed", "GarbleKey", "KeyNext"} -> 2
      [] k = "ShamirToRss" -> 3
      [] k \in {"EvaluatorBits", "GarblerInputCommit"} -> 4
      [] k \in {"GarblerI3Commit", "Hash", "GarbledTables", "Label"} -> 7
      [] k \in {"Bit", "Labels"} -> 8
      [] OTHER -> 9

TakenAt(k) ==
    CASE k \in {"CommCrs", "GarbleKey"} -> 0
      [] k = "PrfSeed" -> 1
      [] k = "KeyNext" -> 2
      [] k = "ShamirToRss" -> 3
      [] k \in {"EvaluatorBits", "GarblerInputCommit"} -> 4
      [] k = "GarblerI3Commit" -> 5
      [] k \in {"Hash", "GarbledTables"} -> 6
      [] k \in {"Label", "Bit"} -> 7
      [] OTHER -> 8

\* f sends q a message of kind k when nothing fails.
Sends(f, q, k) == <<f, q, k>> \in Protocol

\* The first stage p can be in when a k message of q is on its way to it: q
\* sent it in answer to messages p sent, itself or through the third party.
Floor(q, p, k) ==
    CASE k = "KeyNext" /\ p = 0 -> 2
      [] k = "ShamirToRss" /\ (p = 0 \/ q # prev_party(p)) -> 2
      [] k \in {"EvaluatorBits", "GarblerInputCommit"} -> 3
      [] k \in {"GarblerI3Commit", "Hash", "GarbledTables"} -> 4
      [] k \in {"Label", "Bit"} -> 7
      [] k \in {"Labels", "Bits"} -> 8
      [] OTHER -> 0

\* What a message of each kind carries when nothing fails.
Honest(k) == HonestPayload(This, k)

\* m, on its way to p, is what a run in which nothing fails sends, its sender
\* has come so far, and p has not gone past it.
Regular(p, m) ==
    /\ Sends(m.from, p, m.kind)
    /\ m.val = Honest(m.kind)
    /\ SentAt(m.kind) <= At(m.from)
    /\ Floor(m.from, p, m.kind) <= At(p)
    /\ Running(p) => At(p) <= TakenAt(m.kind)

Fits(p, m) == IF m.kind = "Abort" THEN stopped[m.from] ELSE Regular(p, m)

\* Nothing is on its way twice.
Same(a, b) == a.from = b.from /\ a.kind = b.kind
Distinct(s) == \A i, j \in DOMAIN s : Same(s[i], s[j]) => i = j

Apart(s, t) == \A a \in ToSet(s), b \in ToSet(t) : ~Same(a, b)

Single(p) ==
    /\ Distinct(inbox[p]) /\ Distinct(pending[p]) /\ Apart(inbox[p], pending[p])
    /\ \A a \in ToSet(inbox[p]) \cup ToSet(pending[p]) : ~Same(a, slot[p][a.from])

\* A collecting state holds messages of its own kinds, and not two that match.
Filed(p) ==
    /\ \A q \in Party : slot[p][q] # NoMsg => slot[p][q].kind \in Collects(phase[p])
    /\ rejected[p] = NoReject /\ HasBoth(p, slot[p]) => Unmatched(phase[p], slot[p])

\* What was sent and not taken is on its way.
Complete(p) ==
    rejected[p] = NoReject =>
      \A f \in Party, k \in Kind :
        Sends(f, p, k) /\ Running(f) /\ SentAt(k) <= At(f) /\ At(p) <= TakenAt(k)
          => \E m \in Around(p) : m.from = f /\ m.kind = k

\* What p is past taking was sent.
Obeys(p) ==
    Running(p) =>
      \A f \in Party, k \in Kind : Sends(f, p, k) /\ TakenAt(k) < At(p) => SentAt(k) <= At(f)

\* The values are those of this run.
Setups ==
    /\ At(0) # 1
    /\ At(0) \in 2..9 => ctx[0].crs = Mine /\ ctx[0].seed = Mine
    /\ At(1) \in 1..9 => ctx[1].crs = Mine
    /\ At(1) \in 2..9 => ctx[1].seed = Mine
    /\ ctx[2].crs = Mine
    /\ At(2) \in 2..9 => ctx[2].seed = Mine

Streams ==
    \A q \in Garbler : /\ At(q) \in 0..3 => ctx[q].prf = 0
                       /\ At(q) = 4 => ctx[q].prf = 1

Paired == \A q \in Party : At(q) \in 3..9 => keyPrev[q] = Mine

Wired ==
    /\ At(2) \in 4..9 => wires.own = Mine
    /\ At(2) \in 5..9 => wires.seed = Mine

Standing == Setups /\ Streams /\ Paired /\ Wired

Orderly(p) ==
    /\ \A m \in Around(p) : Fits(p, m)
    /\ Single(p) /\ Filed(p) /\ Complete(p) /\ Obeys(p)

\* What is refused when all shares fit.
RacesOnly ==
    \A p \in Party : rejected[p] # NoReject =>
        <<p, rejected[p].phase, rejected[p].kind, rejected[p].from>> \in KnownRaces

Exchange == (\A p \in Party : Orderly(p)) /\ Standing /\ RacesOnly

-----------------------------------------------------------------------------
(* The tables.                                                             *)

LEMMA Stages ==
  /\ Stage("WaitCrs") = 0 /\ Stage("WaitGarbleKey") = 0 /\ Stage("WaitPrf") = 1
  /\ Stage("CommonRandomness") = 2 /\ Stage("ShamirToRss") = 3
  /\ Stage("GarblerWaitEvalBits") = 4 /\ Stage("EvaluatorWaitMsg1") = 4
  /\ Stage("EvaluatorWaitMsg2") = 5 /\ Stage("CircuitEval") = 6
  /\ Stage("GarblerWaitLabel") = 7 /\ Stage("EvaluatorWaitBit") = 7
  /\ Stage("GarblerWaitLabels") = 8 /\ Stage("EvaluatorWaitBits") = 8
  /\ Stage("Done") = 9 /\ Stage("Aborted") = 10
BY DEF Stage, VerifyPhases, OutputPhases

LEMMA StageIs ==
  ASSUME NEW ph \in PhaseName
  PROVE  /\ Stage(ph) \in 0..10
         /\ Stage(ph) = 0 => ph \in {"WaitCrs", "WaitGarbleKey"}
         /\ Stage(ph) = 1 => ph = "WaitPrf"
         /\ Stage(ph) = 2 => ph = "CommonRandomness"
         /\ Stage(ph) = 3 => ph = "ShamirToRss"
         /\ Stage(ph) = 4 => ph \in {"GarblerWaitEvalBits", "EvaluatorWaitMsg1"}
         /\ Stage(ph) = 5 => ph = "EvaluatorWaitMsg2"
         /\ Stage(ph) = 6 => ph = "CircuitEval"
         /\ Stage(ph) = 7 => ph \in VerifyPhases
         /\ Stage(ph) = 8 => ph \in OutputPhases
         /\ Stage(ph) = 9 => ph = "Done"
BY Stages DEF PhaseName, SetupPhases, InputPhases, VerifyPhases, OutputPhases, Terminal

LEMMA Sent ==
  /\ SentAt("CommCrs") = 0 /\ SentAt("PrfSeed") = 2 /\ SentAt("GarbleKey") = 2
  /\ SentAt("KeyNext") = 2 /\ SentAt("ShamirToRss") = 3 /\ SentAt("EvaluatorBits") = 4
  /\ SentAt("GarblerInputCommit") = 4 /\ SentAt("GarblerI3Commit") = 7
  /\ SentAt("Hash") = 7 /\ SentAt("GarbledTables") = 7 /\ SentAt("Label") = 7
  /\ SentAt("Bit") = 8 /\ SentAt("Labels") = 8 /\ SentAt("Bits") = 9
  /\ \A k : SentAt(k) \in 0..9
BY DEF SentAt

LEMMA Taken ==
  /\ TakenAt("CommCrs") = 0 /\ TakenAt("PrfSeed") = 1 /\ TakenAt("GarbleKey") = 0
  /\ TakenAt("KeyNext") = 2 /\ TakenAt("ShamirToRss") = 3 /\ TakenAt("EvaluatorBits") = 4
  /\ TakenAt("GarblerInputCommit") = 4 /\ TakenAt("GarblerI3Commit") = 5
  /\ TakenAt("Hash") = 6 /\ TakenAt("GarbledTables") = 6 /\ TakenAt("Label") = 7
  /\ TakenAt("Bit") = 7 /\ TakenAt("Labels") = 8 /\ TakenAt("Bits") = 8
  /\ \A k : TakenAt(k) \in 0..8
BY DEF TakenAt

LEMMA Floors ==
  /\ \A f, q, k : Floor(f, q, k) \in 0..8
  /\ \A f, q : /\ Floor(f, q, "CommCrs") = 0 /\ Floor(f, q, "PrfSeed") = 0
               /\ Floor(f, q, "GarbleKey") = 0
               /\ Floor(f, q, "KeyNext") = IF q = 0 THEN 2 ELSE 0
               /\ Floor(f, q, "EvaluatorBits") = 3 /\ Floor(f, q, "GarblerInputCommit") = 3
               /\ Floor(f, q, "GarblerI3Commit") = 4 /\ Floor(f, q, "Hash") = 4
               /\ Floor(f, q, "GarbledTables") = 4 /\ Floor(f, q, "Label") = 7
               /\ Floor(f, q, "Bit") = 7 /\ Floor(f, q, "Labels") = 8 /\ Floor(f, q, "Bits") = 8
  /\ Floor(0, 1, "ShamirToRss") = 0 /\ Floor(1, 2, "ShamirToRss") = 0
  /\ Floor(1, 0, "ShamirToRss") = 2 /\ Floor(2, 0, "ShamirToRss") = 2
  /\ Floor(0, 2, "ShamirToRss") = 2 /\ Floor(2, 1, "ShamirToRss") = 2
<1>1. prev_party(1) = 0 /\ prev_party(2) = 1
  BY DEF prev_party
<1> QED BY <1>1 DEF Floor

\* The messages of a run, by sender, receiver and kind.
Listed(f, q, k) ==
    \/ f = 2 /\ q \in {0, 1} /\ k \in {"CommCrs", "EvaluatorBits", "Label", "Labels"}
    \/ f \in {0, 1} /\ q = 2 /\ k \in {"GarblerInputCommit", "GarblerI3Commit", "Bit", "Bits"}
    \/ f = 0 /\ q = 1 /\ k = "PrfSeed"
    \/ f = 0 /\ q = 2 /\ k \in {"GarbleKey", "Hash"}
    \/ f = 1 /\ q = 2 /\ k = "GarbledTables"
    \/ k = "KeyNext" /\ ((f = 0 /\ q = 1) \/ (f = 1 /\ q = 2) \/ (f = 2 /\ q = 0))
    \/ k = "ShamirToRss" /\ f \in {0, 1, 2} /\ q \in {0, 1, 2} /\ f # q

LEMMA SendsListed ==
  ASSUME NEW f, NEW q, NEW k
  PROVE  Sends(f, q, k) <=> Listed(f, q, k)
<1>p. Party = {0, 1, 2} /\ Garbler = {0, 1} /\ next_party(0) = 1 /\ next_party(1) = 2 /\ next_party(2) = 0
  BY DEF Party, Garbler, next_party
<1>1. Sends(f, q, k) => Listed(f, q, k)
  BY <1>p DEF Sends, Protocol, Listed
<1>2. Listed(f, q, k) => Sends(f, q, k)
  BY <1>p DEF Sends, Protocol, Listed
<1> QED BY <1>1, <1>2

\* The fields of a payload.
LEMMA HonestFields ==
  ASSUME NEW k
  PROVE  /\ Honest(k) \in Payload
         /\ Honest(k).crs = IF k \in {"CommCrs", "PrfSeed", "GarblerInputCommit", "GarblerI3Commit"}
                            THEN Mine ELSE {}
         /\ Honest(k).seed = IF k \in {"PrfSeed", "GarbleKey", "GarblerInputCommit", "GarblerI3Commit",
                                       "Hash", "GarbledTables", "Label", "Labels"}
                             THEN Mine ELSE {}
         /\ Honest(k).own = IF k \in {"KeyNext", "ShamirToRss", "EvaluatorBits", "GarblerInputCommit",
                                      "GarblerI3Commit", "Label", "Labels", "Bits"}
                            THEN Mine ELSE {}
         /\ Honest(k).prf = IF k = "GarblerI3Commit" THEN 1
                            ELSE IF k \in {"Hash", "GarbledTables"} THEN 2 ELSE 0
         /\ Honest(k).bit = (k = "Bit")
<1>1. Honest(k) \in Payload
  BY RunsAssumption DEF Honest, HonestPayload, Payload
<1>2. /\ Honest(k).crs = IF k \in {"CommCrs", "PrfSeed", "GarblerInputCommit", "GarblerI3Commit"}
                         THEN Mine ELSE {}
      /\ Honest(k).seed = IF k \in {"PrfSeed", "GarbleKey", "GarblerInputCommit", "GarblerI3Commit",
                                    "Hash", "GarbledTables", "Label", "Labels"}
                          THEN Mine ELSE {}
      /\ Honest(k).own = IF k \in {"KeyNext", "ShamirToRss", "EvaluatorBits", "GarblerInputCommit",
                                   "GarblerI3Commit", "Label", "Labels", "Bits"}
                         THEN Mine ELSE {}
  BY DEF Honest, HonestPayload, Mine
<1>3. /\ Honest(k).prf = IF k = "GarblerI3Commit" THEN 1
                         ELSE IF k \in {"Hash", "GarbledTables"} THEN 2 ELSE 0
      /\ Honest(k).bit = (k = "Bit")
  BY DEF Honest, HonestPayload
<1> QED BY <1>1, <1>2, <1>3

\* Payloads with equal fields are equal.
LEMMA SamePayload ==
  ASSUME NEW v \in Payload, NEW w \in Payload,
         v.crs = w.crs, v.seed = w.seed, v.own = w.own, v.prf = w.prf, v.bit = w.bit
  PROVE  v = w
BY DEF Payload

-----------------------------------------------------------------------------
(* Sequences in which nothing is twice.                                    *)

\* Taking an element out.
LEMMA WithoutOne ==
  ASSUME NEW S, NEW s \in Seq(S), NEW i \in DOMAIN s
  PROVE  /\ RemoveAt(s, i) \in Seq(S)
         /\ ToSet(s) \subseteq ToSet(RemoveAt(s, i)) \cup {s[i]}
         /\ ToSet(RemoveAt(s, i)) \subseteq ToSet(s)
         /\ Distinct(s) => /\ Distinct(RemoveAt(s, i))
                           /\ \A a \in ToSet(RemoveAt(s, i)) : ~Same(a, s[i])
<1>1. Len(s) \in Nat /\ DOMAIN s = 1..Len(s) /\ i \in 1..Len(s)
  BY LenProperties
<1>e. \A k \in 1..Len(s) : s[k] \in S
  BY <1>1, ElementOfSeq
<1>2. PICK u \in Seq(S) : u = SubSeq(s, 1, i - 1) /\ Len(u) = i - 1 /\ \A k \in 1..(i - 1) : u[k] = s[k]
  <2>1. \A k \in 1..(i - 1) : s[k] \in S
    BY <1>1, <1>e
  <2>2. /\ SubSeq(s, 1, i - 1) \in Seq(S) /\ Len(SubSeq(s, 1, i - 1)) = i - 1
        /\ \A k \in 1..(i - 1) : SubSeq(s, 1, i - 1)[k] = s[k]
    BY <1>1, <2>1, SubSeqProperties
  <2> QED BY <2>2
<1>3. PICK w \in Seq(S) : /\ w = SubSeq(s, i + 1, Len(s)) /\ Len(w) = Len(s) - i
                          /\ \A k \in 1..(Len(s) - i) : w[k] = s[i + k]
  <2>1. \A k \in (i + 1)..Len(s) : s[k] \in S
    BY <1>1, <1>e
  <2>2. /\ SubSeq(s, i + 1, Len(s)) \in Seq(S) /\ Len(SubSeq(s, i + 1, Len(s))) = Len(s) - i
        /\ \A k \in 1..(Len(s) - i) : SubSeq(s, i + 1, Len(s))[k] = s[i + k]
    BY <1>1, <2>1, SubSeqProperties, SMTT(30)
  <2> QED BY <2>2
<1>4. PICK r \in Seq(S) : r = u \o w
  BY ConcatProperties
<1>5. r = RemoveAt(s, i)
  BY <1>2, <1>3, <1>4 DEF RemoveAt
<1>6. /\ Len(r) = Len(s) - 1 /\ DOMAIN r = 1..(Len(s) - 1)
      /\ \A k \in 1..(i - 1) : r[k] = s[k]
      /\ \A k \in i..(Len(s) - 1) : r[k] = s[k + 1]
  <2>1. Len(r) = Len(u) + Len(w) /\ \A k \in 1..Len(r) : r[k] = IF k <= Len(u) THEN u[k] ELSE w[k - Len(u)]
    BY <1>4, ConcatProperties
  <2>2. Len(r) = Len(s) - 1
    BY <1>1, <1>2, <1>3, <2>1
  <2>3. DOMAIN r = 1..Len(r)
    BY LenProperties
  <2>4. ASSUME NEW k \in 1..(i - 1) PROVE r[k] = s[k]
    <3>1. k \in 1..Len(r) /\ k <= Len(u)
      BY <1>1, <1>2, <2>2
    <3> QED BY <1>2, <2>1, <3>1
  <2>5. ASSUME NEW k \in i..(Len(s) - 1) PROVE r[k] = s[k + 1]
    <3>1. k \in 1..Len(r) /\ ~(k <= Len(u)) /\ k - Len(u) \in 1..(Len(s) - i) /\ i + (k - Len(u)) = k + 1
      BY <1>1, <1>2, <2>2, SMTT(30)
    <3>2. r[k] = w[k - Len(u)]
      BY <2>1, <3>1
    <3>3. w[k - Len(u)] = s[i + (k - Len(u))]
      BY <1>3, <3>1
    <3> QED BY <3>1, <3>2, <3>3
  <2> QED BY <2>2, <2>3, <2>4, <2>5
<1>7. ToSet(s) \subseteq ToSet(r) \cup {s[i]}
  <2>1. ASSUME NEW k \in 1..Len(s), k # i PROVE \E j \in DOMAIN r : r[j] = s[k]
    <3>1. CASE k < i
      <4>1. k \in 1..(i - 1) /\ k \in 1..(Len(s) - 1)
        BY <1>1, <3>1
      <4>2. r[k] = s[k]
        BY <1>6, <4>1
      <4> QED BY <1>6, <4>1, <4>2
    <3>2. CASE k > i
      <4>1. k - 1 \in i..(Len(s) - 1) /\ k - 1 \in 1..(Len(s) - 1) /\ (k - 1) + 1 = k
        BY <1>1, <3>2
      <4>2. r[k - 1] = s[k]
        BY <1>6, <4>1
      <4> QED BY <1>6, <4>1, <4>2
    <3> QED BY <1>1, <2>1, <3>1, <3>2
  <2> QED BY <1>1, <2>1 DEF ToSet
<1>8. \A j \in DOMAIN r : \E k \in 1..Len(s) : k # i /\ r[j] = s[k] /\ k = IF j < i THEN j ELSE j + 1
  <2> SUFFICES ASSUME NEW j \in 1..(Len(s) - 1)
               PROVE  \E k \in 1..Len(s) : k # i /\ r[j] = s[k] /\ k = IF j < i THEN j ELSE j + 1
    BY <1>6
  <2>1. CASE j < i
    <3>1. j \in 1..(i - 1) /\ j \in 1..Len(s) /\ j # i
      BY <1>1, <2>1
    <3>2. r[j] = s[j]
      BY <1>6, <3>1
    <3> QED BY <2>1, <3>1, <3>2
  <2>2. CASE ~(j < i)
    <3>1. j \in i..(Len(s) - 1) /\ j + 1 \in 1..Len(s) /\ j + 1 # i
      BY <1>1, <2>2
    <3>2. r[j] = s[j + 1]
      BY <1>6, <3>1
    <3> QED BY <2>2, <3>1, <3>2
  <2> QED BY <2>1, <2>2
<1>9. ToSet(r) \subseteq ToSet(s)
  BY <1>1, <1>8 DEF ToSet
<1>10. ASSUME Distinct(s) PROVE Distinct(r) /\ \A a \in ToSet(r) : ~Same(a, s[i])
  <2>1. ASSUME NEW j \in DOMAIN r, NEW l \in DOMAIN r, Same(r[j], r[l]) PROVE j = l
    <3>1. PICK k \in 1..Len(s) : r[j] = s[k] /\ k = IF j < i THEN j ELSE j + 1
      BY <1>8
    <3>2. PICK n \in 1..Len(s) : r[l] = s[n] /\ n = IF l < i THEN l ELSE l + 1
      BY <1>8
    <3>3. k = n
      BY <1>1, <1>10, <2>1, <3>1, <3>2 DEF Distinct
    <3> QED BY <1>1, <1>6, <3>1, <3>2, <3>3
  <2>2. ASSUME NEW j \in DOMAIN r PROVE ~Same(r[j], s[i])
    BY <1>1, <1>8, <1>10 DEF Distinct
  <2> QED BY <2>1, <2>2 DEF Distinct, ToSet
<1> QED BY <1>5, <1>7, <1>9, <1>10

\* Putting two together.
LEMMA BothTogether ==
  ASSUME NEW S, NEW s \in Seq(S), NEW t \in Seq(S)
  PROVE  /\ s \o t \in Seq(S) /\ ToSet(s \o t) = ToSet(s) \cup ToSet(t)
         /\ Distinct(s) /\ Distinct(t) /\ Apart(s, t) => Distinct(s \o t)
<1>1. PICK r \in Seq(S) : r = s \o t
  BY ConcatProperties
<1>2. /\ Len(s) \in Nat /\ Len(t) \in Nat /\ Len(r) = Len(s) + Len(t)
      /\ DOMAIN s = 1..Len(s) /\ DOMAIN t = 1..Len(t) /\ DOMAIN r = 1..Len(r)
      /\ \A k \in 1..Len(r) : r[k] = IF k <= Len(s) THEN s[k] ELSE t[k - Len(s)]
  BY <1>1, ConcatProperties, LenProperties
<1>3. \A k \in DOMAIN s : k \in DOMAIN r /\ r[k] = s[k]
  BY <1>2
<1>4. \A k \in DOMAIN t : Len(s) + k \in DOMAIN r /\ r[Len(s) + k] = t[k]
  BY <1>2
<1>5. \A k \in DOMAIN r : \/ k \in DOMAIN s /\ r[k] = s[k]
                          \/ k - Len(s) \in DOMAIN t /\ k > Len(s) /\ r[k] = t[k - Len(s)]
  BY <1>2
<1>6. ToSet(r) = ToSet(s) \cup ToSet(t)
  <2>1. ToSet(s) \subseteq ToSet(r) /\ ToSet(t) \subseteq ToSet(r)
    BY <1>3, <1>4 DEF ToSet
  <2>2. ToSet(r) \subseteq ToSet(s) \cup ToSet(t)
    BY <1>5 DEF ToSet
  <2> QED BY <2>1, <2>2
<1>7. ASSUME Distinct(s), Distinct(t), Apart(s, t)
      PROVE  Distinct(r)
  <2>0. \A a \in DOMAIN s, b \in DOMAIN t : ~Same(s[a], t[b]) /\ ~Same(t[b], s[a])
    BY <1>7 DEF Apart, ToSet, Same
  <2>1. ASSUME NEW j \in DOMAIN r, NEW l \in DOMAIN r, Same(r[j], r[l]) PROVE j = l
    <3>1. CASE j \in DOMAIN s /\ l \in DOMAIN s
      BY <1>3, <1>7, <2>1, <3>1 DEF Distinct
    <3>2. CASE j > Len(s) /\ l > Len(s)
      <4>1. j - Len(s) \in DOMAIN t /\ l - Len(s) \in DOMAIN t
            /\ r[j] = t[j - Len(s)] /\ r[l] = t[l - Len(s)]
        BY <1>2, <3>2
      <4>2. j - Len(s) = l - Len(s)
        BY <1>7, <2>1, <4>1 DEF Distinct
      <4> QED BY <1>2, <4>2
    <3>3. CASE j \in DOMAIN s /\ l > Len(s)
      <4>1. l - Len(s) \in DOMAIN t /\ r[l] = t[l - Len(s)] /\ r[j] = s[j]
        BY <1>2, <3>3
      <4> QED BY <2>0, <2>1, <3>3, <4>1
    <3>4. CASE l \in DOMAIN s /\ j > Len(s)
      <4>1. j - Len(s) \in DOMAIN t /\ r[j] = t[j - Len(s)] /\ r[l] = s[l]
        BY <1>2, <3>4
      <4> QED BY <2>0, <2>1, <3>4, <4>1
    <3> QED BY <1>2, <1>5, <3>1, <3>2, <3>3, <3>4
  <2> QED BY <2>1 DEF Distinct
<1> QED BY <1>1, <1>6, <1>7

LEMMA FewElements ==
  /\ ToSet(<<>>) = {} /\ Distinct(<<>>)
  /\ \A a : ToSet(<<a>>) = {a} /\ Distinct(<<a>>)
BY DEF ToSet, Distinct

\* What a batch takes and what it leaves are the messages there were.
Splits(s, b) ==
    /\ b.msgs \in Seq(Message) /\ b.rest \in Seq(Message)
    /\ ToSet(s) = ToSet(b.msgs) \cup ToSet(b.rest)
    /\ Distinct(s) => Distinct(b.msgs) /\ Distinct(b.rest) /\ Apart(b.msgs, b.rest)

LEMMA SingleSplits ==
  ASSUME NEW s \in Seq(Message), NEW b \in Singles(s)
  PROVE  Splits(s, b)
<1>1. PICK i \in Deliverable(s) : b = [msgs |-> <<s[i]>>, rest |-> RemoveAt(s, i)]
  BY DEF Singles
<1>2. i \in DOMAIN s /\ b.msgs = <<s[i]>> /\ b.rest = RemoveAt(s, i)
  BY <1>1 DEF Deliverable
<1>3. PICK r : r = RemoveAt(s, i)
  OBVIOUS
<1>4. PICK x : x = s[i]
  OBVIOUS
<1>5. /\ r \in Seq(Message) /\ ToSet(s) \subseteq ToSet(r) \cup {x} /\ ToSet(r) \subseteq ToSet(s)
      /\ Distinct(s) => Distinct(r) /\ \A a \in ToSet(r) : ~Same(a, x)
  BY <1>2, <1>3, <1>4, WithoutOne
<1>6. x \in Message /\ x \in ToSet(s) /\ <<x>> \in Seq(Message)
  BY <1>2, <1>4, Elements
<1>7. b.msgs = <<x>> /\ b.rest = r /\ ToSet(b.msgs) = {x} /\ Distinct(b.msgs)
  BY <1>2, <1>3, <1>4, FewElements
<1> QED BY <1>5, <1>6, <1>7 DEF Splits, Apart, Same

LEMMA BatchSplits ==
  ASSUME NEW s \in Seq(Message), NEW b \in Batches(s)
  PROVE  Splits(s, b)
<1>1. CASE b \in Singles(s)
  BY <1>1, SingleSplits
<1>2. CASE b \in Doubles(s)
  <2>0. PICK t \in Singles(s) : \E j \in Deliverable(t.rest) :
          b = [msgs |-> Append(t.msgs, t.rest[j]), rest |-> RemoveAt(t.rest, j)]
    BY <1>2 DEF Doubles
  <2>1. PICK j \in Deliverable(t.rest) :
          b = [msgs |-> Append(t.msgs, t.rest[j]), rest |-> RemoveAt(t.rest, j)]
    BY <2>0
  <2>2. Splits(s, t)
    BY SingleSplits
  <2>3. PICK u \in Seq(Message), w \in Seq(Message) : u = t.msgs /\ w = t.rest
    BY <2>2 DEF Splits
  <2>4. j \in DOMAIN w
    BY <2>3 DEF Deliverable
  <2>5. PICK r : r = RemoveAt(w, j)
    OBVIOUS
  <2>6. PICK x : x = w[j]
    OBVIOUS
  <2>7. /\ r \in Seq(Message) /\ ToSet(w) \subseteq ToSet(r) \cup {x} /\ ToSet(r) \subseteq ToSet(w)
        /\ Distinct(w) => Distinct(r) /\ \A a \in ToSet(r) : ~Same(a, x)
    BY <2>4, <2>5, <2>6, WithoutOne
  <2>8. x \in Message /\ x \in ToSet(w) /\ <<x>> \in Seq(Message) /\ ToSet(<<x>>) = {x} /\ Distinct(<<x>>)
    BY <2>4, <2>6, Elements, FewElements
  <2>y. PICK y \in Seq(Message) : y = <<x>> /\ ToSet(y) = {x} /\ Distinct(y)
    BY <2>8
  <2>9. PICK v : v = u \o y
    OBVIOUS
  <2>10. /\ v \in Seq(Message) /\ ToSet(v) = ToSet(u) \cup {x}
         /\ Distinct(u) /\ Apart(u, y) => Distinct(v)
    <3>1. /\ u \o y \in Seq(Message) /\ ToSet(u \o y) = ToSet(u) \cup ToSet(y)
          /\ Distinct(u) /\ Distinct(y) /\ Apart(u, y) => Distinct(u \o y)
      BY BothTogether
    <3> QED BY <2>y, <2>9, <3>1
  <2>11. b.msgs = v /\ b.rest = r
    <3>1. Append(u, x) = u \o <<x>>
      BY <2>8, AppendIsConcat
    <3> QED BY <2>1, <2>3, <2>5, <2>6, <2>y, <2>9, <3>1
  <2>12. /\ ToSet(s) = ToSet(u) \cup ToSet(w)
         /\ Distinct(s) => Distinct(u) /\ Distinct(w) /\ Apart(u, w)
    BY <2>2, <2>3 DEF Splits
  <2>13. ToSet(s) = ToSet(v) \cup ToSet(r)
    BY <2>7, <2>8, <2>10, <2>12
  <2>14. ASSUME Distinct(s)
         PROVE  Distinct(v) /\ Distinct(r) /\ Apart(v, r)
    <3>1. \A a \in ToSet(r) : ~Same(a, x) /\ ~Same(x, a)
      BY <2>7, <2>12, <2>14 DEF Same
    <3>2. Apart(u, y) /\ Apart(v, r)
      BY <2>y, <2>7, <2>8, <2>10, <2>12, <2>14, <3>1 DEF Apart
    <3> QED BY <2>7, <2>10, <2>12, <2>14, <3>2
  <2> QED BY <2>7, <2>10, <2>11, <2>13, <2>14 DEF Splits
<1> QED BY <1>1, <1>2 DEF Batches

-----------------------------------------------------------------------------
(* Which party takes and which sends what, by stage.                       *)

LEMMA WhoTakes ==
  ASSUME NEW f, NEW q, NEW k, Sends(f, q, k)
  PROVE  /\ f \in Party /\ q \in Party /\ f # q /\ k \in Kind \ {"Abort"}
         /\ TakenAt(k) = 0 => \/ q \in Garbler /\ f = 2 /\ k = "CommCrs"
                              \/ q = 2 /\ f = 0 /\ k = "GarbleKey"
         /\ TakenAt(k) = 1 => q = 1 /\ f = 0 /\ k = "PrfSeed"
         /\ TakenAt(k) = 2 => f = prev_party(q) /\ k = "KeyNext"
         /\ TakenAt(k) = 3 => k = "ShamirToRss"
         /\ TakenAt(k) = 4 => \/ q \in Garbler /\ f = 2 /\ k = "EvaluatorBits"
                              \/ q = 2 /\ f \in Garbler /\ k = "GarblerInputCommit"
         /\ TakenAt(k) = 5 => q = 2 /\ f \in Garbler /\ k = "GarblerI3Commit"
         /\ TakenAt(k) = 6 => q = 2 /\ \/ f = 0 /\ k = "Hash"
                                       \/ f = 1 /\ k = "GarbledTables"
         /\ TakenAt(k) = 7 => \/ q \in Garbler /\ f = 2 /\ k = "Label"
                              \/ q = 2 /\ f \in Garbler /\ k = "Bit"
         /\ TakenAt(k) = 8 => \/ q \in Garbler /\ f = 2 /\ k = "Labels"
                              \/ q = 2 /\ f \in Garbler /\ k = "Bits"
<1>1. Listed(f, q, k)
  BY SendsListed
<1>2. prev_party(1) = 0 /\ prev_party(2) = 1 /\ prev_party(0) = 2 /\ Garbler = {0, 1} /\ Party = {0, 1, 2}
  BY DEF prev_party, Garbler, Party
<1>3. k \in Kind \ {"Abort"}
  BY <1>1 DEF Listed, Kind, CommonRandomnessKinds, ShamirToRssKinds, BatchInputKinds, CircuitEvalKinds,
              OutputVerificationKinds, BatchOutputKinds
<1> QED BY <1>1, <1>2, <1>3, Taken DEF Listed

LEMMA WhoSends ==
  ASSUME NEW f, NEW q, NEW k, Sends(f, q, k)
  PROVE  /\ SentAt(k) = 0 => f = 2 /\ k = "CommCrs"
         /\ SentAt(k) # 1
         /\ SentAt(k) = 2 => \/ f = 0 /\ q = 1 /\ k = "PrfSeed"
                             \/ f = 0 /\ q = 2 /\ k = "GarbleKey"
                             \/ q = next_party(f) /\ k = "KeyNext"
         /\ SentAt(k) = 3 => k = "ShamirToRss"
         /\ SentAt(k) = 4 => \/ f = 2 /\ k = "EvaluatorBits"
                             \/ q = 2 /\ f \in Garbler /\ k = "GarblerInputCommit"
         /\ SentAt(k) \notin {5, 6}
         /\ SentAt(k) = 7 => \/ q = 2 /\ f \in Garbler /\ k = "GarblerI3Commit"
                             \/ q = 2 /\ f = 0 /\ k = "Hash"
                             \/ q = 2 /\ f = 1 /\ k = "GarbledTables"
                             \/ f = 2 /\ k = "Label"
         /\ SentAt(k) = 8 => \/ q = 2 /\ f \in Garbler /\ k = "Bit"
                             \/ f = 2 /\ k = "Labels"
         /\ SentAt(k) = 9 => q = 2 /\ f \in Garbler /\ k = "Bits"
<1>1. Listed(f, q, k)
  BY SendsListed
<1>2. next_party(1) = 2 /\ next_party(2) = 0 /\ next_party(0) = 1 /\ Garbler = {0, 1} /\ Party = {0, 1, 2}
  BY DEF next_party, Garbler, Party
<1> QED BY <1>1, <1>2, Sent DEF Listed

\* The phase of a party at a stage.
LEMMA GarblerAt ==
  ASSUME IInv, NEW p \in Garbler
  PROVE  /\ At(p) \in 0..10 \ {5, 6} /\ p \in Party /\ p # 2
         /\ phase[p] = "WaitCrs" <=> At(p) = 0
         /\ phase[p] = "WaitPrf" <=> At(p) = 1
         /\ phase[p] = "CommonRandomness" <=> At(p) = 2
         /\ phase[p] = "ShamirToRss" <=> At(p) = 3
         /\ phase[p] = "GarblerWaitEvalBits" <=> At(p) = 4
         /\ phase[p] = "GarblerWaitLabel" <=> At(p) = 7
         /\ phase[p] = "GarblerWaitLabels" <=> At(p) = 8
         /\ phase[p] = "Done" <=> At(p) = 9
         /\ phase[p] = "Aborted" <=> At(p) = 10
         /\ phase[p] \notin {"WaitGarbleKey", "EvaluatorWaitMsg1", "EvaluatorWaitMsg2", "CircuitEval",
                             "EvaluatorWaitBit", "EvaluatorWaitBits"}
<1>1. phase[p] \in GarblerPhases
  BY HandlerTypes
<1>2. p \in Party /\ p # 2
  BY DEF Garbler, Party
<1> QED BY <1>1, <1>2, Stages DEF At, GarblerPhases, Terminal

LEMMA EvaluatorAt ==
  ASSUME IInv
  PROVE  /\ At(2) \in 0..10 \ {1} /\ 2 \in Party
         /\ phase[2] = "WaitGarbleKey" <=> At(2) = 0
         /\ phase[2] = "CommonRandomness" <=> At(2) = 2
         /\ phase[2] = "ShamirToRss" <=> At(2) = 3
         /\ phase[2] = "EvaluatorWaitMsg1" <=> At(2) = 4
         /\ phase[2] = "EvaluatorWaitMsg2" <=> At(2) = 5
         /\ phase[2] = "CircuitEval" <=> At(2) = 6
         /\ phase[2] = "EvaluatorWaitBit" <=> At(2) = 7
         /\ phase[2] = "EvaluatorWaitBits" <=> At(2) = 8
         /\ phase[2] = "Done" <=> At(2) = 9
         /\ phase[2] = "Aborted" <=> At(2) = 10
         /\ phase[2] \notin {"WaitCrs", "WaitPrf", "GarblerWaitEvalBits", "GarblerWaitLabel",
                             "GarblerWaitLabels"}
<1>1. phase[2] \in EvaluatorPhases
  BY HandlerTypes
<1> QED BY <1>1, Stages DEF At, EvaluatorPhases, Terminal, Party

LEMMA AtTypes ==
  ASSUME IInv
  PROVE  \A p \in Party : At(p) \in 0..10 /\ (phase[p] \in Terminal <=> At(p) \in {9, 10})
<1>1. \A p \in Party : p = 2 \/ p \in Garbler
  BY DEF Party, Garbler
<1> QED BY <1>1, GarblerAt, EvaluatorAt DEF Terminal

-----------------------------------------------------------------------------
(* What a step of p does to the messages on their way to another party.    *)

\* A new message from p to q.
Fresh(p, q, a) ==
    /\ a.from = p
    /\ IF a.kind = "Abort" THEN ~stopped[p] /\ stopped'[p]
       ELSE /\ Sends(p, q, a.kind) /\ a.val = Honest(a.kind)
            /\ At(p) < SentAt(a.kind) /\ SentAt(a.kind) <= Stage(phase'[p])
            /\ Floor(p, q, a.kind) <= At(q)

\* p sends q everything it comes to send.
Gives(p, q, y) ==
    /\ y \in Seq(Message) /\ Distinct(y) /\ \A a \in ToSet(y) : Fresh(p, q, a)
    /\ \A k \in Kind : /\ Sends(p, q, k) /\ Stage(phase'[p]) # 10
                       /\ At(p) < SentAt(k) /\ SentAt(k) <= Stage(phase'[p])
                       => \E a \in ToSet(y) : a.kind = k

Turn(p) ==
    /\ At(p) <= Stage(phase'[p])
    /\ \A q \in Party : stopped[q] => stopped'[q]
    /\ \A q \in Party \ {p} :
         /\ phase'[q] = phase[q] /\ slot'[q] = slot[q] /\ pending'[q] = pending[q]
         /\ rejected'[q] = rejected[q]
         /\ \E y : Gives(p, q, y) /\ inbox'[q] = inbox[q] \o y

LEMMA OthersKeep ==
  ASSUME IInv, IInv', NEW p \in Party, NEW q \in Party \ {p}, Orderly(q), Turn(p)
  PROVE  Orderly(q)'
<1>1. PICK y : Gives(p, q, y) /\ inbox'[q] = inbox[q] \o y
  BY DEF Turn
<1>t. y \in Seq(Message) /\ inbox[q] \in Seq(Message) /\ q \in Party /\ q # p
  BY <1>1 DEF Gives, IInv, InboxTypes
<1>s. \A f \in Party : /\ Stage(phase[f]) \in 0..10 /\ Stage(phase'[f]) \in 0..10
                       /\ Stage(phase[f]) <= Stage(phase'[f])
                       /\ (f # p => Stage(phase'[f]) = Stage(phase[f]))
  <2>1. \A f \in Party : Stage(phase[f]) \in 0..10
    BY AtTypes DEF At
  <2>2. \A f \in Party : Stage(phase'[f]) \in 0..10
    BY HandlerTypes, StageIs DEF IInv, SessionTypes, PhaseTypes
  <2>3. Stage(phase[p]) <= Stage(phase'[p]) /\ \A f \in Party : f # p => Stage(phase'[f]) = Stage(phase[f])
    BY DEF Turn, At
  <2> QED BY <2>1, <2>2, <2>3
<1>u. /\ slot'[q] = slot[q] /\ pending'[q] = pending[q] /\ rejected'[q] = rejected[q] /\ phase'[q] = phase[q]
      /\ \A r \in Party : stopped[r] => stopped'[r]
  BY <1>t DEF Turn
<1>2. /\ ToSet(inbox'[q]) = ToSet(inbox[q]) \cup ToSet(y)
      /\ Distinct(inbox[q]) /\ Distinct(y) /\ Apart(inbox[q], y) => Distinct(inbox'[q])
  <2>1. /\ ToSet(inbox[q] \o y) = ToSet(inbox[q]) \cup ToSet(y)
        /\ Distinct(inbox[q]) /\ Distinct(y) /\ Apart(inbox[q], y) => Distinct(inbox[q] \o y)
    BY <1>t, BothTogether
  <2> QED BY <1>1, <2>1
<1>3. Around(q)' = Around(q) \cup ToSet(y)
  <2>1. Around(q)' = ToSet(inbox'[q]) \cup ToSet(pending'[q]) \cup ({slot'[q][r] : r \in Party} \ {NoMsg})
    BY DEF Around
  <2> QED BY <1>2, <1>u, <2>1 DEF Around
<1>4. \A a \in ToSet(y) : Fresh(p, q, a)
  BY <1>1 DEF Gives
<1>5. \A m \in Around(q) : m.from \in Party /\ Fits(q, m)
  BY <1>t, AroundTypes DEF Orderly, Message
<1>6. ASSUME NEW m \in Around(q)' PROVE Fits(q, m)'
  <2>1. CASE m \in Around(q)
    <3>1. CASE m.kind = "Abort"
      BY <1>5, <1>u, <2>1, <3>1 DEF Fits
    <3>2. CASE m.kind # "Abort"
      <4>1. Regular(q, m) /\ m.from \in Party
        BY <1>5, <2>1, <3>2 DEF Fits
      <4>2. SentAt(m.kind) \in 0..9
        BY Sent
      <4>3. Regular(q, m)'
        BY <1>s, <1>t, <1>u, <4>1, <4>2 DEF Regular, At, Running
      <4> QED BY <3>2, <4>3 DEF Fits
    <3> QED BY <3>1, <3>2
  <2>2. CASE m \in ToSet(y)
    <3>1. Fresh(p, q, m)
      BY <1>4, <2>2
    <3>2. CASE m.kind = "Abort"
      BY <3>1, <3>2 DEF Fits, Fresh
    <3>3. CASE m.kind # "Abort"
      <4>1. /\ m.from = p /\ Sends(p, q, m.kind) /\ m.val = Honest(m.kind)
            /\ At(p) < SentAt(m.kind) /\ SentAt(m.kind) <= Stage(phase'[p])
            /\ Floor(p, q, m.kind) <= At(q)
        BY <3>1, <3>3 DEF Fresh
      <4>2. Running(q) => At(q) <= TakenAt(m.kind)
        <5>1. ASSUME Running(q), TakenAt(m.kind) < At(q) PROVE FALSE
          <6>1. m.kind \in Kind
            BY <4>1, WhoTakes
          <6>2. SentAt(m.kind) <= At(p)
            BY <4>1, <5>1, <6>1 DEF Orderly, Obeys
          <6> QED BY <1>s, <4>1, <6>2, Sent DEF At
        <5>2. At(q) \in 0..10 /\ TakenAt(m.kind) \in 0..8
          BY <1>s, Taken DEF At
        <5> QED BY <5>1, <5>2
      <4>3. Regular(q, m)'
        BY <1>u, <4>1, <4>2 DEF Regular, At, Running
      <4> QED BY <3>3, <4>3 DEF Fits
    <3> QED BY <3>2, <3>3
  <2> QED BY <1>3, <1>6, <2>1, <2>2
<1>7. \A a \in Around(q), b \in ToSet(y) : ~Same(a, b) /\ ~Same(b, a)
  <2>1. ASSUME NEW a \in Around(q), NEW b \in ToSet(y), a.from = b.from, a.kind = b.kind PROVE FALSE
    <3>1. b.from = p /\ Fresh(p, q, b) /\ Fits(q, a) /\ a.from = p
      BY <1>4, <1>5, <2>1 DEF Fresh
    <3>2. CASE a.kind = "Abort"
      BY <2>1, <3>1, <3>2 DEF Fits, Fresh
    <3>3. CASE a.kind # "Abort"
      <4>1. SentAt(a.kind) <= At(p) /\ At(p) < SentAt(a.kind)
        BY <2>1, <3>1, <3>3 DEF Fits, Fresh, Regular
      <4> QED BY <1>s, <4>1, Sent DEF At
    <3> QED BY <3>2, <3>3
  <2> QED BY <2>1 DEF Same
<1>8. Single(q)'
  <2>1. /\ Distinct(inbox[q]) /\ Distinct(pending[q]) /\ Apart(inbox[q], pending[q])
        /\ \A a \in ToSet(inbox[q]) \cup ToSet(pending[q]) : ~Same(a, slot[q][a.from])
    BY DEF Orderly, Single
  <2>2. ToSet(inbox[q]) \subseteq Around(q) /\ ToSet(pending[q]) \subseteq Around(q)
    BY DEF Around
  <2>3. Apart(inbox[q], y) /\ Distinct(y)
    BY <1>1, <1>7, <2>2 DEF Apart, Gives
  <2>4. Distinct(inbox'[q])
    BY <1>2, <2>1, <2>3
  <2>5. Apart(inbox'[q], pending'[q])
    BY <1>2, <1>7, <1>u, <2>1, <2>2 DEF Apart
  <2>6. ASSUME NEW b \in ToSet(y) PROVE ~Same(b, slot[q][b.from])
    <3>1. b.from = p
      BY <1>4 DEF Fresh
    <3>2. CASE slot[q][p] = NoMsg
      BY <1>t, <3>1, <3>2 DEF Same, NoMsg, Party, Nobody
    <3>3. CASE slot[q][p] # NoMsg
      <4>1. slot[q][p] \in Around(q)
        BY <3>3 DEF Around
      <4> QED BY <1>7, <3>1, <4>1
    <3> QED BY <3>2, <3>3
  <2>7. \A a \in ToSet(inbox'[q]) \cup ToSet(pending'[q]) : ~Same(a, slot'[q][a.from])
    BY <1>2, <1>u, <2>1, <2>6
  <2> QED BY <1>u, <2>1, <2>4, <2>5, <2>7 DEF Single
<1>9. Filed(q)'
  <2>1. Filed(q)
    BY DEF Orderly
  <2> QED BY <1>u, <2>1 DEF Filed, HasBoth, Unmatched, KindsAre
<1>10. Complete(q)'
  <2>1. ASSUME rejected'[q] = NoReject, NEW f \in Party, NEW k \in Kind, Sends(f, q, k),
               Stage(phase'[f]) # 10, SentAt(k) <= Stage(phase'[f]), Stage(phase'[q]) <= TakenAt(k)
        PROVE  \E m \in Around(q)' : m.from = f /\ m.kind = k
    <3>1. CASE SentAt(k) <= Stage(phase[f])
      <4>1. rejected[q] = NoReject /\ Stage(phase[f]) # 10 /\ Stage(phase[q]) <= TakenAt(k)
        BY <1>s, <1>u, <2>1
      <4>2. \E m \in Around(q) : m.from = f /\ m.kind = k
        BY <2>1, <3>1, <4>1 DEF Orderly, Complete, At, Running
      <4> QED BY <1>3, <4>2
    <3>2. CASE ~(SentAt(k) <= Stage(phase[f]))
      <4>1. f = p
        BY <1>s, <2>1, <3>2
      <4>2. At(p) < SentAt(k)
        BY <1>s, <3>2, <4>1, Sent DEF At
      <4>3. \E a \in ToSet(y) : a.kind = k
        BY <1>1, <2>1, <4>1, <4>2 DEF Gives
      <4> QED BY <1>3, <1>4, <4>1, <4>3 DEF Fresh
    <3> QED BY <3>1, <3>2
  <2> QED BY <2>1 DEF Complete, At, Running
<1>11. Obeys(q)'
  <2>1. ASSUME Stage(phase'[q]) # 10, NEW f \in Party, NEW k \in Kind, Sends(f, q, k),
               TakenAt(k) < Stage(phase'[q])
        PROVE  SentAt(k) <= Stage(phase'[f])
    <3>1. SentAt(k) <= Stage(phase[f])
      BY <1>u, <2>1 DEF Orderly, Obeys, At, Running
    <3> QED BY <1>s, <3>1, Sent
  <2> QED BY <2>1 DEF Obeys, At, Running
<1> QED BY <1>6, <1>8, <1>9, <1>10, <1>11 DEF Orderly

-----------------------------------------------------------------------------
(* What a step of p does to p's own messages.                              *)

\* m is the one message taken from p's buffer.
Removes(p, m) ==
    /\ m \in ToSet(pending[p]) /\ ToSet(pending'[p]) \subseteq ToSet(pending[p])
    /\ ToSet(pending[p]) \subseteq ToSet(pending'[p]) \cup {m}
    /\ Distinct(pending[p]) => Distinct(pending'[p]) /\ \A a \in ToSet(pending'[p]) : ~Same(a, m)

LEMMA ConsumeRemoves ==
  ASSUME IInv, NEW p \in Party, NEW i \in DOMAIN pending[p], Consume(p, i)
  PROVE  Removes(p, pending[p][i]) /\ \A q \in Party \ {p} : pending'[q] = pending[q]
<1>t. pending \in [Party -> Seq(Message)] /\ pending[p] \in Seq(Message)
  BY DEF IInv, PendingTypes
<1>1. pending'[p] = RemoveAt(pending[p], i) /\ \A q \in Party \ {p} : pending'[q] = pending[q]
  BY <1>t DEF Consume
<1>2. PICK s \in Seq(Message) : s = pending[p]
  BY <1>t
<1>3. PICK r : r = RemoveAt(s, i)
  OBVIOUS
<1>4. PICK x : x = s[i]
  OBVIOUS
<1>5. /\ ToSet(s) \subseteq ToSet(r) \cup {x} /\ ToSet(r) \subseteq ToSet(s)
      /\ Distinct(s) => Distinct(r) /\ \A a \in ToSet(r) : ~Same(a, x)
  BY <1>2, <1>3, <1>4, WithoutOne
<1>6. x \in ToSet(s)
  BY <1>2, <1>4, Elements
<1> QED BY <1>1, <1>2, <1>3, <1>4, <1>5, <1>6 DEF Removes

\* Nothing is twice among what is on its way to p.
LEMMA OnlyOnce ==
  ASSUME IInv, NEW p \in Party, Single(p)
  PROVE  /\ \A a \in ToSet(inbox[p]), b \in ToSet(pending[p]) : ~Same(a, b) /\ ~Same(b, a)
         /\ \A q \in Party : \A a \in ToSet(inbox[p]) \cup ToSet(pending[p]) :
              ~Same(a, slot[p][q]) /\ ~Same(slot[p][q], a)
<1>1. \A q \in Party : slot[p][q] = NoMsg \/ slot[p][q].from = q
  BY DEF IInv, SlotTypes
<1>2. \A a \in ToSet(inbox[p]) \cup ToSet(pending[p]) : a.from \in Party
  BY AroundTypes DEF Around, Message
<1>3. \A a \in Message : ~Same(a, NoMsg) /\ ~Same(NoMsg, a)
  BY DEF Same, NoMsg, Message, Party, Nobody
<1>4. ToSet(inbox[p]) \cup ToSet(pending[p]) \subseteq Message
  BY AroundTypes DEF Around
<1>5. ASSUME NEW q \in Party, NEW a \in ToSet(inbox[p]) \cup ToSet(pending[p])
      PROVE  ~Same(a, slot[p][q]) /\ ~Same(slot[p][q], a)
  <2>1. ~Same(a, slot[p][a.from])
    BY DEF Single
  <2>2. CASE slot[p][q] = NoMsg
    BY <1>3, <1>4, <2>2
  <2>3. CASE slot[p][q].from = q
    BY <2>1, <2>3 DEF Same
  <2> QED BY <1>1, <2>2, <2>3
<1>6. \A a \in ToSet(inbox[p]), b \in ToSet(pending[p]) : ~Same(a, b) /\ ~Same(b, a)
  BY DEF Single, Apart, Same
<1> QED BY <1>5, <1>6

\* What p has in hand when it handles m: m and what it filed.
InHand(p, m) == {m} \cup ({slot[p][q] : q \in Party} \ {NoMsg})

\* It is all that p's next n stages take.
Takes(p, m, n) ==
    /\ \A a \in InHand(p, m) : TakenAt(a.kind) < n
    /\ \A f \in Party, k \in Kind : Sends(f, p, k) /\ At(p) <= TakenAt(k) /\ TakenAt(k) < n
         => \E a \in InHand(p, m) : a.from = f /\ a.kind = k

\* p goes on to a later stage.
GoesOn(p, m) ==
    /\ At(p) < Stage(phase'[p]) /\ Stage(phase'[p]) <= 9
    /\ Takes(p, m, Stage(phase'[p])) /\ m \in ToSet(pending[p])
    /\ Removes(p, m) \/ (Stage(phase'[p]) = 9 /\ pending'[p] = <<>>)
    /\ slot'[p] = NoSlots /\ inbox'[p] = inbox[p] /\ rejected'[p] = rejected[p]
    /\ \A q \in Party \ {p} : phase'[q] = phase[q]

LEMMA StageTypes ==
  ASSUME IInv, IInv'
  PROVE  \A f \in Party : Stage(phase[f]) \in 0..10 /\ Stage(phase'[f]) \in 0..10
<1>1. \A f \in Party : Stage(phase[f]) \in 0..10
  BY AtTypes DEF At
<1>2. \A f \in Party : Stage(phase'[f]) \in 0..10
  BY StageIs DEF IInv, SessionTypes, PhaseTypes
<1> QED BY <1>1, <1>2

LEMMA AdvanceKeeps ==
  ASSUME IInv, IInv', NEW p \in Party, Orderly(p), NEW m, GoesOn(p, m), stopped' = stopped
  PROVE  Orderly(p)'
<1>s. \A f \in Party : /\ Stage(phase[f]) \in 0..10 /\ Stage(phase'[f]) \in 0..10
                       /\ (f # p => Stage(phase'[f]) = Stage(phase[f]))
  BY StageTypes DEF GoesOn
<1>n. PICK n : n = Stage(phase'[p])
  OBVIOUS
<1>u. /\ slot'[p] = NoSlots /\ inbox'[p] = inbox[p] /\ rejected'[p] = rejected[p]
      /\ At(p) < n /\ n <= 9 /\ Takes(p, m, n) /\ n \in 0..10 /\ At(p) \in 0..10
      /\ m \in ToSet(pending[p])
  BY <1>n, <1>s DEF GoesOn, At
<1>1. /\ ToSet(pending'[p]) \subseteq ToSet(pending[p]) /\ Distinct(pending'[p])
      /\ \A a \in ToSet(pending'[p]) : ~Same(a, m)
      /\ n # 9 => ToSet(pending[p]) \subseteq ToSet(pending'[p]) \cup {m}
  <2>1. Distinct(pending[p])
    BY DEF Orderly, Single
  <2>2. CASE Removes(p, m)
    BY <2>1, <2>2 DEF Removes
  <2>3. CASE n = 9 /\ pending'[p] = <<>>
    BY <2>3, FewElements
  <2> QED BY <1>n, <2>2, <2>3 DEF GoesOn
<1>2. Around(p)' = ToSet(inbox[p]) \cup ToSet(pending'[p])
  <2>1. Around(p)' = ToSet(inbox'[p]) \cup ToSet(pending'[p]) \cup ({slot'[p][r] : r \in Party} \ {NoMsg})
    BY DEF Around
  <2> QED BY <1>u, <2>1 DEF NoSlots
<1>3. Around(p)' \subseteq Around(p)
  BY <1>1, <1>2 DEF Around
<1>4. ASSUME NEW a \in Around(p)', NEW c \in InHand(p, m), Same(c, a) PROVE FALSE
  <2>1. CASE c = m
    BY <1>u, <1>1, <1>2, <1>4, <2>1, OnlyOnce DEF Orderly, Same
  <2>2. CASE c \in {slot[p][q] : q \in Party}
    BY <1>1, <1>2, <1>4, <2>2, OnlyOnce DEF Orderly
  <2> QED BY <2>1, <2>2 DEF InHand
<1>5. ASSUME NEW a \in Around(p)' PROVE Fits(p, a)'
  <2>1. Fits(p, a) /\ a \in Message /\ a \in Around(p)
    BY <1>3, AroundTypes DEF Orderly
  <2>2. CASE a.kind = "Abort"
    BY <2>1, <2>2 DEF Fits
  <2>3. CASE a.kind # "Abort"
    <3>1. Regular(p, a) /\ a.from \in Party /\ a.from # p /\ a.kind \in Kind
      <4>1. Regular(p, a)
        BY <2>1, <2>3 DEF Fits
      <4> QED BY <4>1, WhoTakes DEF Regular
    <3>2. n <= TakenAt(a.kind)
      <4>1. ASSUME TakenAt(a.kind) < n PROVE FALSE
        <5>1. At(p) <= TakenAt(a.kind) /\ Sends(a.from, p, a.kind)
          BY <1>u, <3>1 DEF Regular, Running
        <5>2. PICK c \in InHand(p, m) : c.from = a.from /\ c.kind = a.kind
          BY <1>u, <3>1, <4>1, <5>1 DEF Takes
        <5> QED BY <1>4, <5>2 DEF Same
      <4> QED BY <1>u, <4>1, Taken
    <3>3. Floor(a.from, p, a.kind) <= n
      BY <1>u, <3>1, Floors DEF Regular
    <3>4. Regular(p, a)'
      BY <1>n, <1>s, <3>1, <3>2, <3>3 DEF Regular, At
    <3> QED BY <2>3, <3>4 DEF Fits
  <2> QED BY <2>2, <2>3
<1>6. Single(p)'
  <2>1. Distinct(inbox[p]) /\ Apart(inbox[p], pending[p])
    BY DEF Orderly, Single
  <2>2. Apart(inbox'[p], pending'[p])
    BY <1>u, <1>1, <2>1 DEF Apart
  <2>3. ASSUME NEW a \in ToSet(inbox'[p]) \cup ToSet(pending'[p]) PROVE ~Same(a, slot'[p][a.from])
    <3>1. a.from \in Party
      BY <1>u, <1>2, <1>3, <2>3, AroundTypes DEF Message
    <3> QED BY <1>u, <3>1 DEF NoSlots, NoMsg, Same, Party, Nobody
  <2> QED BY <1>u, <1>1, <2>1, <2>2, <2>3 DEF Single
<1>7. Filed(p)'
  <2>1. \A q \in Party : slot'[p][q] = NoMsg
    BY <1>u DEF NoSlots
  <2>2. ~HasBoth(p, slot'[p])
    BY <2>1 DEF HasBoth, Party
  <2> QED BY <2>1, <2>2 DEF Filed
<1>8. Complete(p)'
  <2>1. ASSUME rejected'[p] = NoReject, NEW f \in Party, NEW k \in Kind, Sends(f, p, k),
               Stage(phase'[f]) # 10, SentAt(k) <= Stage(phase'[f]), n <= TakenAt(k)
        PROVE  \E a \in Around(p)' : a.from = f /\ a.kind = k
    <3>1. f # p /\ n # 9 /\ At(p) <= TakenAt(k)
      BY <1>u, <2>1, WhoTakes, Taken
    <3>2. PICK a \in Around(p) : a.from = f /\ a.kind = k
      BY <1>s, <1>u, <2>1, <3>1 DEF Orderly, Complete, At, Running
    <3>3. a \notin InHand(p, m)
      BY <1>u, <2>1, <3>2, Taken DEF Takes
    <3>4. a \in Around(p)'
      BY <1>1, <1>2, <3>1, <3>2, <3>3 DEF Around, InHand
    <3> QED BY <3>2, <3>4
  <2> QED BY <1>n, <2>1 DEF Complete, At, Running
<1>9. Obeys(p)'
  <2>1. ASSUME NEW f \in Party, NEW k \in Kind, Sends(f, p, k), TakenAt(k) < n
        PROVE  SentAt(k) <= Stage(phase'[f])
    <3>1. f # p /\ Stage(phase'[f]) = At(f)
      BY <1>s, <2>1, WhoTakes DEF At
    <3>2. CASE TakenAt(k) < At(p)
      BY <1>u, <2>1, <3>1, <3>2 DEF Orderly, Obeys, Running
    <3>3. CASE At(p) <= TakenAt(k)
      <4>1. PICK a \in InHand(p, m) : a.from = f /\ a.kind = k
        BY <1>u, <2>1, <3>3 DEF Takes
      <4>2. a \in Around(p)
        BY <1>u, <4>1 DEF InHand, Around
      <4>3. k # "Abort"
        BY <2>1, WhoTakes
      <4> QED BY <3>1, <4>1, <4>2, <4>3 DEF Orderly, Fits, Regular
    <3> QED BY <1>u, <3>2, <3>3, Taken
  <2> QED BY <1>n, <2>1 DEF Obeys, At, Running
<1> QED BY <1>5, <1>6, <1>7, <1>8, <1>9 DEF Orderly

\* p stays at its stage.
LEMMA StayKeeps ==
  ASSUME IInv, NEW p \in Party, Orderly(p), phase' = phase, \A q \in Party : stopped[q] => stopped'[q],
         Around(p)' \subseteq Around(p), Single(p)', Filed(p)',
         \/ rejected'[p] # NoReject
         \/ At(p) \in {9, 10}
         \/ rejected'[p] = rejected[p] /\ Around(p) \subseteq Around(p)'
  PROVE  Orderly(p)'
<1>0. \A q \in Party : Stage(phase'[q]) = Stage(phase[q])
  OBVIOUS
<1>1. ASSUME NEW a \in Around(p)' PROVE Fits(p, a)'
  <2>1. Fits(p, a) /\ a.from \in Party
    BY AroundTypes DEF Orderly, Message
  <2> QED BY <1>0, <2>1 DEF Fits, Regular, At, Running
<1>2. Complete(p)'
  <2>1. CASE rejected'[p] # NoReject
    BY <2>1 DEF Complete
  <2>2. CASE At(p) \in {9, 10}
    <3>1. \A k : ~(At(p) <= TakenAt(k))
      BY <2>2, Taken
    <3> QED BY <1>0, <3>1 DEF Complete, At
  <2>3. CASE rejected'[p] = rejected[p] /\ Around(p) \subseteq Around(p)'
    <3>1. Complete(p)
      BY DEF Orderly
    <3> QED BY <1>0, <2>3, <3>1 DEF Complete, At, Running
  <2> QED BY <2>1, <2>2, <2>3
<1>3. Obeys(p)'
  BY <1>0 DEF Orderly, Obeys, At, Running
<1> QED BY <1>1, <1>2, <1>3 DEF Orderly

\* What is taken out of the buffer may be filed, or what is filed given up.
LEMMA RemovalKeeps ==
  ASSUME IInv, NEW p \in Party, Orderly(p), NEW m, Removes(p, m), inbox'[p] = inbox[p],
         slot'[p] \in {Filled(p, m), NoSlots, slot[p]}
  PROVE  Single(p)' /\ Around(p)' \subseteq Around(p)
<1>1. /\ m \in ToSet(pending[p]) /\ ToSet(pending'[p]) \subseteq ToSet(pending[p])
      /\ Distinct(pending'[p]) /\ \A a \in ToSet(pending'[p]) : ~Same(a, m)
  BY DEF Removes, Orderly, Single
<1>2. m \in Message /\ m.from \in Party /\ m # NoMsg
  <2>1. m \in Message
    BY <1>1, AroundTypes DEF Around
  <2> QED BY <2>1 DEF Message, NoMsg, Party, Nobody
<1>3. \A q \in Party : slot'[p][q] \in {NoMsg, slot[p][q], m}
  BY <1>2 DEF Filled, NoSlots, IInv, SlotTypes
<1>4. Around(p)' \subseteq Around(p)
  <2>1. Around(p)' = ToSet(inbox'[p]) \cup ToSet(pending'[p]) \cup ({slot'[p][r] : r \in Party} \ {NoMsg})
    BY DEF Around
  <2> QED BY <1>1, <1>3, <2>1 DEF Around
<1>5. ASSUME NEW a \in ToSet(inbox'[p]) \cup ToSet(pending'[p]) PROVE ~Same(a, slot'[p][a.from])
  <2>1. a \in Message /\ a.from \in Party
    BY <1>1, <1>5, AroundTypes DEF Around, Message
  <2>2. ~Same(a, NoMsg)
    BY <2>1 DEF Same, NoMsg, Party, Nobody
  <2>3. ~Same(a, m)
    BY <1>1, <1>5, OnlyOnce DEF Orderly
  <2>4. ~Same(a, slot[p][a.from])
    BY <1>1, <1>5 DEF Orderly, Single
  <2> QED BY <1>3, <2>1, <2>2, <2>3, <2>4
<1>6. Apart(inbox'[p], pending'[p]) /\ Distinct(inbox'[p])
  BY <1>1 DEF Orderly, Single, Apart
<1> QED BY <1>1, <1>4, <1>5, <1>6 DEF Single

\* Nothing to send.
LEMMA NoneGiven ==
  ASSUME IInv, NEW p \in Party, NEW q \in Party, inbox'[q] = inbox[q],
         \A k \in Kind : Sends(p, q, k) /\ Stage(phase'[p]) # 10 /\ At(p) < SentAt(k)
                           => ~(SentAt(k) <= Stage(phase'[p]))
  PROVE  \E y : Gives(p, q, y) /\ inbox'[q] = inbox[q] \o y
<1>1. inbox[q] \in Seq(Message)
  BY DEF IInv, InboxTypes
<1>2. PICK y : y = <<>>
  OBVIOUS
<1>3. y \in Seq(Message) /\ ToSet(y) = {} /\ Distinct(y) /\ inbox[q] \o y = inbox[q]
  BY <1>1, <1>2, FewElements, ConcatEmptySeq
<1> QED BY <1>3 DEF Gives

LEMMA QuietTurn ==
  ASSUME IInv, IInv', NEW p \in Party, stopped' = stopped,
         phase' = phase \/ phase' = [phase EXCEPT ![p] = "Aborted"],
         \A q \in Party \ {p} : /\ slot'[q] = slot[q] /\ pending'[q] = pending[q]
                                /\ rejected'[q] = rejected[q] /\ inbox'[q] = inbox[q]
  PROVE  Turn(p)
<1>1. \A q \in Party \ {p} : phase'[q] = phase[q]
  BY HandlerTypes
<1>2. phase'[p] = phase[p] \/ phase'[p] = "Aborted"
  BY HandlerTypes
<1>3. Stage(phase[p]) \in 0..10 /\ (Stage(phase'[p]) = Stage(phase[p]) \/ Stage(phase'[p]) = 10)
  BY <1>2, StageTypes, Stages
<1>4. ASSUME NEW q \in Party \ {p} PROVE \E y : Gives(p, q, y) /\ inbox'[q] = inbox[q] \o y
  <2>1. \A k \in Kind : Sends(p, q, k) /\ Stage(phase'[p]) # 10 /\ At(p) < SentAt(k)
                          => ~(SentAt(k) <= Stage(phase'[p]))
    BY <1>3, Sent DEF At
  <2> QED BY <2>1, NoneGiven
<1> QED BY <1>1, <1>3, <1>4, SMTT(30) DEF Turn, At

\* The others, when p has turned.
LEMMA AllKeep ==
  ASSUME IInv, IInv', Exchange, NEW p \in Party, Turn(p), Orderly(p)'
  PROVE  \A q \in Party : Orderly(q)'
BY OthersKeep DEF Exchange

-----------------------------------------------------------------------------
(* The calls.                                                              *)

LEMMA StandingStays ==
  ASSUME Standing, phase' = phase, ctx' = ctx, keyPrev' = keyPrev, wires' = wires
  PROVE  Standing'
BY DEF Standing, Setups, Streams, Paired, Wired, At, Mine

LEMMA RacesStay ==
  ASSUME RacesOnly, rejected' = rejected
  PROVE  RacesOnly'
BY DEF RacesOnly, KnownRaces, NoReject

\* Messages delivered: they go from the transport to the buffer.
LEMMA MessagesKeep ==
  ASSUME IInv, IInv', Exchange, NEW p \in Party, HandleMessages(p)
  PROVE  Exchange'
<1>t. /\ inbox \in [Party -> Seq(Message)] /\ pending \in [Party -> Seq(Message)]
      /\ inbox[p] \in Seq(Message) /\ pending[p] \in Seq(Message)
  BY DEF IInv, InboxTypes, PendingTypes
<1>u. /\ phase' = phase /\ ctx' = ctx /\ keyPrev' = keyPrev /\ wires' = wires /\ slot' = slot
      /\ rejected' = rejected /\ stopped' = stopped
  BY DEF HandleMessages, session, host
<1>1. PICK b \in Batches(inbox[p]) : /\ pending' = [pending EXCEPT ![p] = @ \o b.msgs]
                                     /\ inbox' = [inbox EXCEPT ![p] = b.rest]
  BY DEF HandleMessages
<1>2. Splits(inbox[p], b)
  BY <1>t, BatchSplits
<1>3. PICK u \in Seq(Message), w \in Seq(Message) : u = b.msgs /\ w = b.rest
  BY <1>2 DEF Splits
<1>4. /\ pending'[p] = pending[p] \o u /\ inbox'[p] = w
      /\ \A q \in Party \ {p} : pending'[q] = pending[q] /\ inbox'[q] = inbox[q]
  BY <1>t, <1>1, <1>3
<1>5. /\ Distinct(inbox[p]) /\ Distinct(pending[p]) /\ Apart(inbox[p], pending[p])
      /\ \A a \in ToSet(inbox[p]) \cup ToSet(pending[p]) : ~Same(a, slot[p][a.from])
  BY DEF Exchange, Orderly, Single
<1>6. ToSet(inbox[p]) = ToSet(u) \cup ToSet(w) /\ Distinct(u) /\ Distinct(w) /\ Apart(u, w)
  BY <1>2, <1>3, <1>5 DEF Splits
<1>7. ToSet(pending'[p]) = ToSet(pending[p]) \cup ToSet(u) /\ Distinct(pending'[p])
  <2>1. /\ ToSet(pending[p] \o u) = ToSet(pending[p]) \cup ToSet(u)
        /\ Distinct(pending[p]) /\ Distinct(u) /\ Apart(pending[p], u) => Distinct(pending[p] \o u)
    BY <1>t, BothTogether
  <2>2. Apart(pending[p], u)
    BY <1>5, <1>6 DEF Apart, Same
  <2> QED BY <1>4, <1>5, <1>6, <2>1, <2>2
<1>8. Single(p)'
  <2>1. Apart(inbox'[p], pending'[p])
    BY <1>4, <1>5, <1>6, <1>7 DEF Apart, Same
  <2> QED BY <1>4, <1>5, <1>6, <1>7, <1>u, <2>1 DEF Single
<1>9. Around(p)' = Around(p)
  <2>1. Around(p)' = ToSet(inbox'[p]) \cup ToSet(pending'[p]) \cup ({slot'[p][r] : r \in Party} \ {NoMsg})
    BY DEF Around
  <2> QED BY <1>4, <1>6, <1>7, <1>u, <2>1 DEF Around
<1>10. Filed(p)'
  BY <1>u DEF Exchange, Orderly, Filed, HasBoth, Unmatched, KindsAre
<1>11. Orderly(p)'
  <2>1. Orderly(p)
    BY DEF Exchange
  <2> QED BY <1>8, <1>9, <1>10, <1>u, <2>1, StayKeeps
<1>12. Turn(p)
  BY <1>4, <1>u, QuietTurn
<1>13. \A q \in Party : Orderly(q)'
  BY <1>11, <1>12, AllKeep
<1>14. Standing' /\ RacesOnly'
  BY <1>u, StandingStays, RacesStay DEF Exchange
<1> QED BY <1>13, <1>14 DEF Exchange

\* Steps that touch none of it.
LEMMA IdleKeeps ==
  ASSUME Exchange, UNCHANGED <<session, host, pending, inbox>>
  PROVE  Exchange'
<1>u. /\ phase' = phase /\ ctx' = ctx /\ keyPrev' = keyPrev /\ wires' = wires /\ slot' = slot
      /\ rejected' = rejected /\ stopped' = stopped /\ pending' = pending /\ inbox' = inbox
  BY DEF session, host
<1>1. ASSUME NEW q \in Party PROVE Orderly(q)'
  <2>1. Around(q)' = Around(q)
    BY <1>u DEF Around
  <2>2. \A m \in Around(q)' : Fits(q, m)'
    BY <1>u, <2>1 DEF Exchange, Orderly, Fits, Regular, At, Running
  <2>3. Single(q)'
    BY <1>u DEF Exchange, Orderly, Single
  <2>4. Filed(q)'
    BY <1>u DEF Exchange, Orderly, Filed, HasBoth, Unmatched, KindsAre
  <2>5. Complete(q)' /\ Obeys(q)'
    BY <1>u, <2>1 DEF Exchange, Orderly, Complete, Obeys, At, Running
  <2> QED BY <2>2, <2>3, <2>4, <2>5 DEF Orderly
<1>2. Standing' /\ RacesOnly'
  BY <1>u, StandingStays, RacesStay DEF Exchange
<1> QED BY <1>1, <1>2 DEF Exchange

\* What is left in the transport once a batch is taken from it.
LEMMA RestOnly ==
  ASSUME IInv, NEW p \in Party, NEW b \in Batches(inbox[p]), inbox' = [inbox EXCEPT ![p] = b.rest],
         Orderly(p)
  PROVE  /\ ToSet(inbox'[p]) \subseteq ToSet(inbox[p]) /\ Distinct(inbox'[p])
         /\ \A q \in Party \ {p} : inbox'[q] = inbox[q]
<1>1. inbox[p] \in Seq(Message) /\ inbox \in [Party -> Seq(Message)]
  BY DEF IInv, InboxTypes
<1>2. Splits(inbox[p], b)
  BY <1>1, BatchSplits
<1>3. Distinct(inbox[p])
  BY DEF Orderly, Single
<1>4. inbox'[p] = b.rest /\ \A q \in Party \ {p} : inbox'[q] = inbox[q]
  BY <1>1
<1> QED BY <1>2, <1>3, <1>4 DEF Splits

\* Messages that reach a session that has ended.
LEMMA AfterEndKeeps ==
  ASSUME IInv, IInv', Exchange, NEW p \in Party, HandleAfterEnd(p)
  PROVE  Exchange'
<1>u. /\ phase' = phase /\ ctx' = ctx /\ keyPrev' = keyPrev /\ wires' = wires /\ slot' = slot
      /\ rejected' = rejected /\ stopped' = stopped /\ pending' = pending /\ phase[p] \in Terminal
  BY DEF HandleAfterEnd, session, host
<1>1. PICK b \in Batches(inbox[p]) : inbox' = [inbox EXCEPT ![p] = b.rest]
  BY DEF HandleAfterEnd
<1>o. Orderly(p)
  BY DEF Exchange
<1>2. /\ ToSet(inbox'[p]) \subseteq ToSet(inbox[p]) /\ Distinct(inbox'[p])
      /\ \A q \in Party \ {p} : inbox'[q] = inbox[q]
  BY <1>1, <1>o, RestOnly
<1>3. Around(p)' \subseteq Around(p)
  <2>1. Around(p)' = ToSet(inbox'[p]) \cup ToSet(pending'[p]) \cup ({slot'[p][r] : r \in Party} \ {NoMsg})
    BY DEF Around
  <2> QED BY <1>2, <1>u, <2>1 DEF Around
<1>4. Single(p)'
  BY <1>2, <1>o, <1>u DEF Orderly, Single, Apart
<1>5. Filed(p)'
  BY <1>o, <1>u DEF Orderly, Filed, HasBoth, Unmatched, KindsAre
<1>6. At(p) \in {9, 10}
  BY <1>u, AtTypes
<1>7. Orderly(p)'
  BY <1>3, <1>4, <1>5, <1>6, <1>o, <1>u, StayKeeps
<1>8. Turn(p)
  BY <1>2, <1>u, QuietTurn
<1>9. \A q \in Party : Orderly(q)'
  BY <1>7, <1>8, AllKeep
<1>10. Standing' /\ RacesOnly'
  BY <1>u, StandingStays, RacesStay DEF Exchange
<1> QED BY <1>9, <1>10 DEF Exchange

\* An Abort received.
LEMMA AbortKeeps ==
  ASSUME IInv, IInv', Exchange, NEW p \in Party, HandleAbort(p)
  PROVE  Exchange'
<1>t. /\ phase \in [Party -> PhaseName] /\ pending \in [Party -> Seq(Message)]
      /\ slot \in [Party -> [Party -> Message \cup {NoMsg}]]
  BY HandlerTypes DEF IInv, PendingTypes, SlotTypes
<1>u. /\ phase' = [phase EXCEPT ![p] = "Aborted"] /\ ctx' = ctx /\ keyPrev' = keyPrev
      /\ rejected' = rejected /\ stopped' = stopped
      /\ phase'[p] = "Aborted" /\ slot'[p] = NoSlots /\ pending'[p] = <<>>
      /\ \A q \in Party \ {p} : phase'[q] = phase[q] /\ slot'[q] = slot[q] /\ pending'[q] = pending[q]
      /\ (p # 2 => wires' = wires)
  BY <1>t DEF HandleAbort, host
<1>1. PICK b \in Batches(inbox[p]) : inbox' = [inbox EXCEPT ![p] = b.rest]
  BY DEF HandleAbort
<1>o. Orderly(p)
  BY DEF Exchange
<1>2. /\ ToSet(inbox'[p]) \subseteq ToSet(inbox[p]) /\ Distinct(inbox'[p])
      /\ \A q \in Party \ {p} : inbox'[q] = inbox[q]
  BY <1>1, <1>o, RestOnly
<1>3. Around(p)' \subseteq Around(p) /\ ToSet(pending'[p]) = {}
  <2>1. Around(p)' = ToSet(inbox'[p]) \cup ToSet(pending'[p]) \cup ({slot'[p][r] : r \in Party} \ {NoMsg})
    BY DEF Around
  <2> QED BY <1>2, <1>u, <2>1, FewElements DEF Around, NoSlots
<1>s. /\ Stage(phase'[p]) = 10
      /\ \A f \in Party : Stage(phase[f]) \in 0..10 /\ (f # p => Stage(phase'[f]) = Stage(phase[f]))
  BY <1>u, StageTypes, Stages
<1>4. Single(p)'
  <2>1. \A r \in Party : slot'[p][r] = NoMsg
    BY <1>u DEF NoSlots
  <2>2. \A a \in ToSet(inbox[p]) : a.from \in Party
    BY AroundTypes DEF Around, Message
  <2>3. \A a \in ToSet(inbox'[p]) : ~Same(a, slot'[p][a.from])
    BY <1>2, <2>1, <2>2 DEF Same, NoMsg, Party, Nobody
  <2> QED BY <1>2, <1>3, <1>u, <2>3, FewElements DEF Single, Apart
<1>5. Filed(p)'
  <2>1. \A q \in Party : slot'[p][q] = NoMsg
    BY <1>u DEF NoSlots
  <2>2. ~HasBoth(p, slot'[p])
    BY <2>1 DEF HasBoth, Party
  <2> QED BY <2>1, <2>2 DEF Filed
<1>6. ASSUME NEW a \in Around(p)' PROVE Fits(p, a)'
  <2>1. Fits(p, a) /\ a.from \in Party
    BY <1>3, <1>o, AroundTypes DEF Orderly, Message
  <2>2. CASE a.kind = "Abort"
    BY <1>u, <2>1, <2>2 DEF Fits
  <2>3. CASE a.kind # "Abort"
    <3>1. Regular(p, a) /\ a.from # p
      BY <2>1, <2>3, WhoTakes DEF Fits, Regular
    <3>2. Regular(p, a)'
      BY <1>s, <2>1, <3>1, Floors DEF Regular, At, Running
    <3> QED BY <2>3, <3>2 DEF Fits
  <2> QED BY <2>2, <2>3
<1>7. Complete(p)' /\ Obeys(p)'
  <2>1. \A k : ~(10 <= TakenAt(k))
    BY Taken
  <2> QED BY <1>s, <2>1 DEF Complete, Obeys, At, Running
<1>8. Orderly(p)'
  BY <1>4, <1>5, <1>6, <1>7 DEF Orderly
<1>9. Turn(p)
  BY <1>2, <1>u, QuietTurn
<1>10. \A q \in Party : Orderly(q)'
  BY <1>8, <1>9, AllKeep
<1>11. Standing'
  <2>1. Standing
    BY DEF Exchange
  <2>2. \A q \in Party : Stage(phase'[q]) = Stage(phase[q]) \/ (q = p /\ Stage(phase'[q]) = 10)
    BY <1>s
  <2>3. Party = {0, 1, 2} /\ Garbler = {0, 1}
    BY DEF Party, Garbler
  <2>4. \A q \in Party : Stage(phase'[q]) \in 0..9 => Stage(phase'[q]) = Stage(phase[q]) /\ q # p
    BY <1>s, <2>2
  <2>5. Setups'
    BY <1>u, <2>1, <2>2, <2>3, <2>4 DEF Standing, Setups, At, Mine
  <2>6. Streams'
    BY <1>u, <2>1, <2>3, <2>4 DEF Standing, Streams, At
  <2>7. Paired'
    BY <1>u, <2>1, <2>4 DEF Standing, Paired, At, Mine
  <2>8. Wired'
    BY <1>u, <2>1, <2>3, <2>4 DEF Standing, Wired, At, Mine
  <2> QED BY <2>5, <2>6, <2>7, <2>8 DEF Standing
<1>12. RacesOnly'
  BY <1>u, RacesStay DEF Exchange
<1> QED BY <1>10, <1>11, <1>12 DEF Exchange

\* A host gives up.
LEMMA HostAbortKeeps ==
  ASSUME IInv, IInv', Exchange, NEW p \in Party, HostAbort(p)
  PROVE  Exchange'
<1>t. stopped \in [Party -> BOOLEAN]
  BY DEF IInv, HostTypes
<1>u. /\ phase' = phase /\ ctx' = ctx /\ keyPrev' = keyPrev /\ wires' = wires /\ slot' = slot
      /\ rejected' = rejected /\ pending' = pending
      /\ ~stopped[p] /\ stopped'[p] /\ \A q \in Party : stopped[q] => stopped'[q]
      /\ Post([q \in Party |-> IF q = p THEN <<>> ELSE <<Msg(p, 0, "Abort", Blank)>>])
  BY <1>t DEF HostAbort, session
<1>1. PICK a : a = Msg(p, 0, "Abort", Blank)
  OBVIOUS
<1>2. a \in Message /\ a.from = p /\ a.kind = "Abort"
  <2>1. Blank \in Payload /\ 0 \in Party /\ "Abort" \in Kind
    BY DEF Blank, Payload, Party, Kind
  <2> QED BY <1>1, <2>1, NewMessage DEF Msg
<1>3. \A q \in Party : inbox'[q] = inbox[q] \o (IF q = p THEN <<>> ELSE <<a>>)
  BY <1>1, <1>u DEF Post
<1>4. inbox'[p] = inbox[p]
  <2>1. inbox[p] \in Seq(Message)
    BY DEF IInv, InboxTypes
  <2>2. inbox'[p] = inbox[p] \o <<>>
    BY <1>3
  <2> QED BY <2>1, <2>2, ConcatEmptySeq
<1>o. Orderly(p)
  BY DEF Exchange
<1>5. Around(p)' = Around(p)
  BY <1>4, <1>u DEF Around
<1>6. Single(p)' /\ Filed(p)'
  BY <1>4, <1>o, <1>u DEF Orderly, Single, Filed, HasBoth, Unmatched, KindsAre
<1>7. Orderly(p)'
  BY <1>5, <1>6, <1>o, <1>u, StayKeeps
<1>8. ASSUME NEW q \in Party \ {p} PROVE \E y : Gives(p, q, y) /\ inbox'[q] = inbox[q] \o y
  <2>1. PICK y : y = <<a>>
    OBVIOUS
  <2>2. y \in Seq(Message) /\ ToSet(y) = {a} /\ Distinct(y)
    BY <1>2, <2>1, FewElements
  <2>3. inbox'[q] = inbox[q] \o y
    BY <1>3, <2>1
  <2>4. Fresh(p, q, a)
    BY <1>2, <1>u DEF Fresh
  <2>5. \A k \in Kind : At(p) < SentAt(k) => ~(SentAt(k) <= Stage(phase'[p]))
    BY <1>u, AtTypes, Sent DEF At
  <2> QED BY <2>2, <2>3, <2>4, <2>5 DEF Gives
<1>9. Turn(p)
  <2>1. At(p) <= Stage(phase'[p])
    BY <1>u, AtTypes DEF At
  <2> QED BY <1>8, <1>u, <2>1 DEF Turn
<1>10. \A q \in Party : Orderly(q)'
  BY <1>7, <1>9, AllKeep
<1>11. Standing' /\ RacesOnly'
  BY <1>u, StandingStays, RacesStay DEF Exchange
<1> QED BY <1>10, <1>11 DEF Exchange

-----------------------------------------------------------------------------
(* What a session refuses.                                                 *)

\* A message in the buffer of a running session is one of this stage or later.
LEMMA Buffered ==
  ASSUME IInv, NEW p \in Party, Orderly(p), NEW m \in Buf(p), m \in ToSet(pending[p])
  PROVE  /\ Regular(p, m) /\ m.from # p /\ m.from \in Party /\ At(p) \in 0..8
         /\ At(p) <= TakenAt(m.kind) /\ Floor(m.from, p, m.kind) <= At(p)
         /\ Sends(m.from, p, m.kind) /\ m.val = Honest(m.kind)
<1>1. m \in Around(p) /\ m.kind # "Abort" /\ m.from \in Party
  BY BufTypes DEF Around
<1>2. Regular(p, m)
  BY <1>1 DEF Orderly, Fits
<1>3. phase[p] \notin Terminal
  <2>1. pending[p] # <<>>
    BY FewElements
  <2> QED BY <2>1 DEF IInv, Quiet
<1>4. At(p) \in 0..8
  BY <1>3, AtTypes
<1>5. m.from # p
  BY <1>2, WhoTakes DEF Regular
<1> QED BY <1>1, <1>2, <1>4, <1>5 DEF Regular, Running

\* A message of a collecting state is one the state collects, and regular.
Collected(p, e) ==
    /\ e \in Message /\ e.kind \in Collects(phase[p]) /\ Regular(p, e) /\ e.from \in Party \ {p}
    /\ e.val = Honest(e.kind) /\ Sends(e.from, p, e.kind) /\ At(p) <= TakenAt(e.kind)

LEMMA SlotCollected ==
  ASSUME IInv, NEW p \in Party, Orderly(p), Running(p), NEW q \in Party, slot[p][q] # NoMsg
  PROVE  Collected(p, slot[p][q]) /\ slot[p][q].from = q
<1>1. PICK e : e = slot[p][q]
  OBVIOUS
<1>2. e \in Buf(p) /\ e.from = q
  BY <1>1 DEF IInv, SlotTypes
<1>3. e \in Around(p) /\ e.kind # "Abort" /\ e \in Message
  BY <1>1, <1>2, BufTypes DEF Around
<1>4. Regular(p, e)
  BY <1>3 DEF Orderly, Fits
<1>5. e.kind \in Collects(phase[p])
  BY <1>1 DEF Orderly, Filed
<1>6. e.from # p
  BY <1>4, WhoTakes DEF Regular
<1> QED BY <1>1, <1>2, <1>3, <1>4, <1>5, <1>6 DEF Collected, Regular

\* What is filed where m would go is of another kind.
LEMMA HeldOther ==
  ASSUME IInv, NEW p \in Party, Orderly(p), NEW m \in Buf(p), m \in ToSet(pending[p]), Held(p, m)
  PROVE  \E k \in Collects(phase[p]) : k # m.kind /\ Sends(m.from, p, k) /\ At(p) <= TakenAt(k)
<1>1. m.from \in Party /\ Running(p) /\ slot[p][m.from] # NoMsg
  BY Buffered DEF Held, Running
<1>2. PICK e : e = slot[p][m.from]
  OBVIOUS
<1>3. Collected(p, e) /\ e.from = m.from
  BY <1>1, <1>2, SlotCollected
<1>4. e.kind # m.kind
  BY <1>2, <1>3 DEF Orderly, Single, Same
<1> QED BY <1>3, <1>4 DEF Collected

\* A pair that m completes.
LEMMA InPair ==
  ASSUME IInv, NEW p \in Party, Orderly(p), NEW m \in Buf(p), m \in ToSet(pending[p]), Routed(p, m),
         HasBoth(p, Filled(p, m)), NEW q \in Party \ {p}
  PROVE  /\ Collected(p, Filled(p, m)[q]) /\ Filled(p, m)[q].from = q
         /\ Filled(p, m)[q] \in InHand(p, m)
<1>1. m.from \in Party /\ Running(p) /\ Filled(p, m)[q] # NoMsg /\ m \in Message
  BY Buffered, BufTypes DEF Running, HasBoth
<1>2. Filled(p, m)[q] = IF q = m.from THEN m ELSE slot[p][q]
  BY <1>1 DEF Filled, IInv, SlotTypes
<1>3. CASE q = m.from
  <2>1. Collected(p, m)
    BY <1>1, Buffered DEF Collected, Routed
  <2> QED BY <1>2, <1>3, <2>1 DEF InHand
<1>4. CASE q # m.from
  <2>1. slot[p][q] # NoMsg
    BY <1>1, <1>2, <1>4
  <2>2. Collected(p, slot[p][q]) /\ slot[p][q].from = q
    BY <1>1, <2>1, SlotCollected
  <2> QED BY <1>2, <1>4, <2>1, <2>2 DEF InHand
<1> QED BY <1>3, <1>4

\* The kinds of the collecting states.
LEMMA CollectsTable ==
  /\ Collects("ShamirToRss") = {"ShamirToRss"}
  /\ Collects("EvaluatorWaitMsg1") = {"EvaluatorBits", "GarblerInputCommit", "GarblerI3Commit"}
  /\ Collects("EvaluatorWaitMsg2") = {"EvaluatorBits", "GarblerInputCommit", "GarblerI3Commit"}
  /\ Collects("CircuitEval") = {"Hash", "GarbledTables"}
  /\ Collects("EvaluatorWaitBit") = {"Label", "Bit"}
  /\ Collects("EvaluatorWaitBits") = {"Labels", "Bits"}
  /\ \A ph \in {"WaitCrs", "WaitPrf", "WaitGarbleKey", "CommonRandomness", "GarblerWaitEvalBits",
                "GarblerWaitLabel", "GarblerWaitLabels", "Done", "Aborted"} : Collects(ph) = {}
BY DEF Collects, ShamirToRssKinds, BatchInputKinds, BatchInputCollects, CircuitEvalKinds,
       OutputVerificationKinds, BatchOutputKinds

\* A state that collects kinds of which each party sends one takes any of them.
LEMMA NotHeld ==
  ASSUME IInv, NEW p \in Party, Orderly(p), NEW m \in Buf(p), m \in ToSet(pending[p]), Routed(p, m),
         \A k, l \in Collects(phase[p]) :
            Sends(m.from, p, k) /\ Sends(m.from, p, l) /\ At(p) <= TakenAt(k) /\ At(p) <= TakenAt(l) => k = l,
         ~AcceptsFirst(p, m)
  PROVE  Completes(p, m)
<1>1. ~Held(p, m)
  <2>1. ASSUME Held(p, m) PROVE FALSE
    <3>1. PICK k \in Collects(phase[p]) : k # m.kind /\ Sends(m.from, p, k) /\ At(p) <= TakenAt(k)
      BY <2>1, HeldOther
    <3>2. Sends(m.from, p, m.kind) /\ At(p) <= TakenAt(m.kind) /\ m.kind \in Collects(phase[p])
      BY Buffered DEF Routed
    <3> QED BY <3>1, <3>2
  <2> QED BY <2>1
<1> QED BY <1>1 DEF AcceptsFirst, Fills, Completes

LEMMA SharesTaken ==
  ASSUME IInv, NEW p \in Party, Orderly(p), Standing, NEW m \in Buf(p), m \in ToSet(pending[p]),
         phase[p] = "ShamirToRss", m.kind = "ShamirToRss"
  PROVE  AcceptsFirst(p, m) \/ AcceptsShares(p, m)
<1>1. ASSUME ~AcceptsFirst(p, m) PROVE AcceptsShares(p, m)
  <2>1. Routed(p, m)
    BY CollectsTable, Buffered DEF Routed
  <2>2. Completes(p, m)
    BY <1>1, <2>1, NotHeld, CollectsTable
  <2>3. keyPrev[p] = Mine
    BY Stages DEF Standing, Paired, At
  <2>4. \A q \in Party \ {p} : Filled(p, m)[q].val.own = Mine
    <3>1. ASSUME NEW q \in Party \ {p} PROVE Filled(p, m)[q].val.own = Mine
      <4>1. PICK e : e = Filled(p, m)[q]
        OBVIOUS
      <4>2. Collected(p, e)
        BY <2>1, <2>2, <4>1, InPair DEF Completes
      <4>3. e.kind = "ShamirToRss" /\ e.val = Honest("ShamirToRss")
        BY <4>2, CollectsTable DEF Collected
      <4>4. Honest("ShamirToRss").own = Mine
        BY HonestFields
      <4> QED BY <4>1, <4>3, <4>4
    <3> QED BY <3>1
  <2>5. Shares(p, Filled(p, m)) = Mine
    BY <2>3, <2>4 DEF Shares
  <2> QED BY <2>2, <2>5 DEF AcceptsShares, OnOneLine
<1> QED BY <1>1

\* What the evaluator's pairs are.
LEMMA EvaluatorPair ==
  ASSUME IInv, Orderly(2), NEW m \in Buf(2), m \in ToSet(pending[2]), Routed(2, m),
         HasBoth(2, Filled(2, m)), NEW q \in Garbler
  PROVE  /\ Filled(2, m)[q].from = q /\ Filled(2, m)[q].val = Honest(Filled(2, m)[q].kind)
         /\ Filled(2, m)[q] \in InHand(2, m)
         /\ phase[2] = "EvaluatorWaitMsg2" => Filled(2, m)[q].kind = "GarblerI3Commit"
         /\ phase[2] = "CircuitEval" =>
              Filled(2, m)[q].kind = IF q = 0 THEN "Hash" ELSE "GarbledTables"
         /\ phase[2] = "EvaluatorWaitBit" => Filled(2, m)[q].kind = "Bit"
         /\ phase[2] = "EvaluatorWaitBits" => Filled(2, m)[q].kind = "Bits"
<1>1. PICK e : e = Filled(2, m)[q]
  OBVIOUS
<1>2. 2 \in Party /\ q \in Party \ {2} /\ q \in {0, 1}
  BY DEF Party, Garbler
<1>3. Collected(2, e) /\ e.from = q /\ e \in InHand(2, m)
  BY <1>1, <1>2, InPair
<1>4. /\ e.kind \in Collects(phase[2]) /\ Sends(q, 2, e.kind) /\ At(2) <= TakenAt(e.kind)
      /\ e.val = Honest(e.kind)
  BY <1>3 DEF Collected
<1>5. Listed(q, 2, e.kind)
  BY <1>4, SendsListed
<1>6. phase[2] = "EvaluatorWaitMsg2" => e.kind = "GarblerI3Commit"
  BY <1>2, <1>4, <1>5, CollectsTable, Taken, EvaluatorAt DEF Listed
<1>7. phase[2] = "CircuitEval" => e.kind = IF q = 0 THEN "Hash" ELSE "GarbledTables"
  BY <1>2, <1>4, <1>5, CollectsTable DEF Listed
<1>8. phase[2] = "EvaluatorWaitBit" => e.kind = "Bit"
  BY <1>2, <1>4, <1>5, CollectsTable DEF Listed
<1>9. phase[2] = "EvaluatorWaitBits" => e.kind = "Bits"
  BY <1>2, <1>4, <1>5, CollectsTable DEF Listed
<1> QED BY <1>1, <1>3, <1>4, <1>6, <1>7, <1>8, <1>9

\* The evaluator takes each message of a pair it waits for.
LEMMA EvaluatorTakes ==
  ASSUME IInv, Orderly(2), Standing, NEW m \in Buf(2), m \in ToSet(pending[2]), Routed(2, m),
         phase[2] \in {"EvaluatorWaitMsg2", "CircuitEval", "EvaluatorWaitBit", "EvaluatorWaitBits"}
  PROVE  Accepts(2, m)
<1>1. ASSUME ~AcceptsFirst(2, m) PROVE Accepts(2, m)
  <2>0. 2 \in Party /\ m.from \in {0, 1} /\ Garbler = {0, 1}
    BY Buffered DEF Party, Garbler
  <2>1. Completes(2, m)
    <3>1. ASSUME NEW k \in Collects(phase[2]), NEW l \in Collects(phase[2]), Sends(m.from, 2, k),
                 Sends(m.from, 2, l), At(2) <= TakenAt(k), At(2) <= TakenAt(l)
          PROVE  k = l
      <4>1. Listed(m.from, 2, k) /\ Listed(m.from, 2, l)
        BY <3>1, SendsListed
      <4>2. CASE phase[2] = "EvaluatorWaitMsg2"
        <5>1. {k, l} \subseteq {"EvaluatorBits", "GarblerInputCommit", "GarblerI3Commit"} /\ At(2) = 5
          BY <3>1, <4>2, CollectsTable, EvaluatorAt
        <5>2. k = "GarblerI3Commit" /\ l = "GarblerI3Commit"
          BY <2>0, <3>1, <4>1, <5>1, Taken DEF Listed
        <5> QED BY <5>2
      <4>3. CASE phase[2] = "CircuitEval"
        <5>1. {k, l} \subseteq {"Hash", "GarbledTables"}
          BY <3>1, <4>3, CollectsTable
        <5> QED BY <2>0, <4>1, <5>1 DEF Listed
      <4>4. CASE phase[2] = "EvaluatorWaitBit"
        <5>1. {k, l} \subseteq {"Label", "Bit"}
          BY <3>1, <4>4, CollectsTable
        <5> QED BY <2>0, <4>1, <5>1 DEF Listed
      <4>5. CASE phase[2] = "EvaluatorWaitBits"
        <5>1. {k, l} \subseteq {"Labels", "Bits"}
          BY <3>1, <4>5, CollectsTable
        <5> QED BY <2>0, <4>1, <5>1 DEF Listed
      <4> QED BY <4>2, <4>3, <4>4, <4>5
    <3> QED BY <1>1, <2>0, <3>1, NotHeld
  <2>2. HasBoth(2, Filled(2, m))
    BY <2>1 DEF Completes
  <2>3. PICK a : a = Filled(2, m)[0]
    OBVIOUS
  <2>4. PICK b : b = Filled(2, m)[1]
    OBVIOUS
  <2>5. /\ a.val = Honest(a.kind) /\ b.val = Honest(b.kind)
        /\ phase[2] = "EvaluatorWaitMsg2" => a.kind = "GarblerI3Commit" /\ b.kind = "GarblerI3Commit"
        /\ phase[2] = "CircuitEval" => a.kind = "Hash" /\ b.kind = "GarbledTables"
        /\ phase[2] = "EvaluatorWaitBit" => a.kind = "Bit" /\ b.kind = "Bit"
        /\ phase[2] = "EvaluatorWaitBits" => a.kind = "Bits" /\ b.kind = "Bits"
    BY <2>0, <2>2, <2>3, <2>4, EvaluatorPair
  <2>6. CASE phase[2] = "EvaluatorWaitMsg2"
    <3>1. /\ a.val.crs = Mine /\ a.val.seed = Mine /\ a.val.own = Mine /\ a.val.prf = 1
          /\ b.val.crs = Mine /\ b.val.seed = Mine /\ b.val.own = Mine /\ b.val.prf = 1
      BY <2>5, <2>6, HonestFields
    <3>2. ctx[2].crs = Mine
      BY DEF Standing, Setups
    <3>3. CommitmentsAgree(Filled(2, m)) /\ OpenedAsAsked(Filled(2, m))
      BY <2>3, <2>4, <3>1, <3>2 DEF CommitmentsAgree, SameStream, OpenedAsAsked
    <3> QED BY <2>1, <2>6, <3>3 DEF Accepts, AcceptsMsg2
  <2>7. CASE phase[2] = "CircuitEval"
    <3>1. a.val.seed = Mine /\ a.val.prf = 2 /\ b.val.seed = Mine /\ b.val.prf = 2
      BY <2>5, <2>7, HonestFields
    <3>2. SameStream(Filled(2, m)[0], Filled(2, m)[1])
      BY <2>3, <2>4, <3>1 DEF SameStream
    <3> QED BY <2>1, <2>7, <3>2 DEF Accepts, AcceptsTables
  <2>8. CASE phase[2] = "EvaluatorWaitBit"
    <3>1. a.val.bit /\ b.val.bit
      <4>1. Honest("Bit").bit = ("Bit" = "Bit")
        BY HonestFields
      <4>2. a.val = Honest("Bit") /\ b.val = Honest("Bit")
        BY <2>5, <2>8
      <4> QED BY <4>1, <4>2, Zenon
    <3>2. KindsAre(Filled(2, m), "Bit", "Bit") /\ \A q \in Garbler : Filled(2, m)[q].val.bit
      BY <2>0, <2>3, <2>4, <2>5, <2>8, <3>1 DEF KindsAre
    <3> QED BY <2>1, <2>8, <3>2 DEF Accepts, AcceptsBit
  <2>9. CASE phase[2] = "EvaluatorWaitBits"
    <3>1. a.val.own = b.val.own
      BY <2>5, <2>9
    <3>2. KindsAre(Filled(2, m), "Bits", "Bits")
      BY <2>3, <2>4, <2>5, <2>9 DEF KindsAre
    <3> QED BY <2>1, <2>3, <2>4, <2>9, <3>1, <3>2 DEF Accepts, AcceptsBits
  <2> QED BY <2>6, <2>7, <2>8, <2>9
<1> QED BY <1>1 DEF Accepts

\* A session takes, keeps for later or refuses for one of the known reasons.
Answered(p, m) ==
    NotReady(p, m) \/ Accepts(p, m) \/ <<p, phase[p], m.kind, m.from>> \in KnownRaces

LEMMA GarblerAnswers ==
  ASSUME IInv, NEW p \in Garbler, Orderly(p), Standing, NEW m \in Buf(p), m \in ToSet(pending[p])
  PROVE  Answered(p, m)
<1>1. /\ p \in Party /\ p # 2 /\ p \in {0, 1}
  BY DEF Garbler, Party
<1>2. /\ m.from # p /\ m.from \in Party /\ At(p) \in 0..8 \ {5, 6} /\ At(p) <= TakenAt(m.kind)
      /\ Floor(m.from, p, m.kind) <= At(p) /\ Sends(m.from, p, m.kind) /\ m.val = Honest(m.kind)
  BY <1>1, Buffered, GarblerAt
<1>3. Listed(m.from, p, m.kind)
  BY <1>2, SendsListed
<1>k. m.kind \in {"CommCrs", "PrfSeed", "KeyNext", "ShamirToRss", "EvaluatorBits", "Label", "Labels"}
  BY <1>1, <1>3 DEF Listed
<1>4. CASE m.kind = "CommCrs"
  <2>1. At(p) = 0 /\ m.from = 2
    BY <1>1, <1>2, <1>3, <1>4, Taken DEF Listed
  <2> QED BY <1>4, <2>1, GarblerAt DEF Answered, Accepts, AcceptsCrs
<1>5. CASE m.kind = "PrfSeed"
  <2>1. p = 1 /\ m.from = 0 /\ At(p) \in {0, 1}
    BY <1>1, <1>2, <1>3, <1>5, Taken DEF Listed
  <2>2. CASE At(p) = 0
    BY <1>5, <2>1, <2>2, GarblerAt DEF Answered, NotReady, SetupNotReady
  <2>3. CASE At(p) = 1
    <3>1. m.val.crs = Mine /\ ctx[p].crs = Mine
      BY <1>2, <1>5, <2>1, <2>3, HonestFields DEF Standing, Setups
    <3> QED BY <1>5, <2>1, <2>3, <3>1, GarblerAt DEF Answered, Accepts, AcceptsPrf
  <2> QED BY <2>1, <2>2, <2>3
<1>6. CASE m.kind = "KeyNext"
  <2>1. At(p) \in 0..2 /\ m.from = prev_party(p) /\ (p = 0 => At(p) = 2) /\ (p = 1 => m.from = 0)
    <3>1. (p = 0 => m.from = 2) /\ (p = 1 => m.from = 0)
      BY <1>1, <1>3, <1>6 DEF Listed
    <3>2. At(p) <= 2 /\ (p = 0 => 2 <= At(p))
      BY <1>2, <1>6, Taken, Floors
    <3>3. prev_party(0) = 2 /\ prev_party(1) = 0
      BY DEF prev_party
    <3> QED BY <1>1, <1>2, <3>1, <3>2, <3>3
  <2>2. CASE At(p) = 2
    BY <1>6, <2>1, <2>2, GarblerAt DEF Answered, Accepts, AcceptsKey
  <2>3. CASE At(p) \in {0, 1}
    BY <1>1, <1>6, <2>1, <2>3, GarblerAt DEF Answered, NotReady, SetupNotReady
  <2> QED BY <2>1, <2>2, <2>3
<1>7. CASE m.kind = "ShamirToRss"
  <2>1. At(p) \in 0..3
    BY <1>2, <1>7, Taken
  <2>2. CASE At(p) = 3
    <3>1. AcceptsFirst(p, m) \/ AcceptsShares(p, m)
      BY <1>1, <1>7, <2>2, GarblerAt, SharesTaken
    <3> QED BY <3>1 DEF Answered, Accepts
  <2>3. CASE At(p) = 2
    BY <1>2, <1>7, <2>3, GarblerAt DEF Answered, NotReady, LaterNotReady, ShamirToRssKinds
  <2>4. CASE At(p) \in {0, 1}
    <3>1. p = 1 /\ m.from = 0
      <4>1. m.from \in {0, 1, 2}
        BY <1>2 DEF Party
      <4> QED BY <1>1, <1>2, <1>7, <2>4, <4>1, Floors
    <3>2. phase[p] \in {"WaitCrs", "WaitPrf"}
      BY <2>4, GarblerAt
    <3> QED BY <1>7, <3>1, <3>2 DEF Answered, KnownRaces
  <2> QED BY <2>1, <2>2, <2>3, <2>4
<1>8. CASE m.kind = "EvaluatorBits"
  <2>1. At(p) \in {3, 4} /\ m.from = 2
    BY <1>1, <1>2, <1>3, <1>8, Taken, Floors DEF Listed
  <2>2. CASE At(p) = 3
    BY <1>2, <1>8, <2>2, GarblerAt DEF Answered, NotReady, LaterNotReady, BatchInputKinds
  <2>3. CASE At(p) = 4
    BY <1>8, <2>1, <2>3, GarblerAt DEF Answered, Accepts, AcceptsEvalBits
  <2> QED BY <2>1, <2>2, <2>3
<1>9. CASE m.kind = "Label"
  <2>1. At(p) = 7 /\ m.from = 2
    BY <1>1, <1>2, <1>3, <1>9, Taken, Floors DEF Listed
  <2>2. ctx[p].seed = Mine
    BY <1>1, <2>1 DEF Standing, Setups
  <2>3. m.val.seed = Mine /\ m.val.own = Mine
    BY <1>2, <1>9, HonestFields
  <2>4. Verified(m)
    BY <2>3, RunsAssumption DEF Verified, Mine
  <2> QED BY <1>9, <2>1, <2>2, <2>3, <2>4, GarblerAt
          DEF Answered, Accepts, AcceptsLabel, ReadsLabel, LabelMatches
<1>10. CASE m.kind = "Labels"
  <2>1. At(p) = 8 /\ m.from = 2
    BY <1>1, <1>2, <1>3, <1>10, Taken, Floors DEF Listed
  <2>2. ctx[p].seed = Mine
    BY <1>1, <2>1 DEF Standing, Setups
  <2>3. m.val.seed = Mine
    BY <1>2, <1>10, HonestFields
  <2> QED BY <1>10, <2>1, <2>2, <2>3, GarblerAt DEF Answered, Accepts, AcceptsLabels, LabelMatches
<1> QED BY <1>k, <1>4, <1>5, <1>6, <1>7, <1>8, <1>9, <1>10

LEMMA EvaluatorAnswers ==
  ASSUME IInv, Orderly(2), Standing, NEW m \in Buf(2), m \in ToSet(pending[2])
  PROVE  Answered(2, m)
<1>1. 2 \in Party /\ Garbler = {0, 1}
  BY DEF Garbler, Party
<1>2. /\ m.from # 2 /\ m.from \in {0, 1} /\ At(2) \in 0..8 \ {1} /\ At(2) <= TakenAt(m.kind)
      /\ Floor(m.from, 2, m.kind) <= At(2) /\ Sends(m.from, 2, m.kind) /\ m.val = Honest(m.kind)
  BY <1>1, Buffered, EvaluatorAt DEF Party
<1>3. Listed(m.from, 2, m.kind)
  BY <1>2, SendsListed
<1>k. m.kind \in {"GarbleKey", "KeyNext", "ShamirToRss", "GarblerInputCommit", "GarblerI3Commit",
                  "Hash", "GarbledTables", "Bit", "Bits"}
  BY <1>3 DEF Listed
<1>4. CASE m.kind = "GarbleKey"
  <2>1. At(2) = 0 /\ m.from = 0
    BY <1>2, <1>3, <1>4, Taken DEF Listed
  <2> QED BY <1>4, <2>1, EvaluatorAt DEF Answered, Accepts, AcceptsGarbleKey
<1>5. CASE m.kind = "KeyNext"
  <2>1. At(2) \in {0, 2} /\ m.from = 1 /\ prev_party(2) = 1
    <3>1. At(2) <= 2 /\ m.from = 1
      BY <1>2, <1>3, <1>5, Taken DEF Listed
    <3> QED BY <1>2, <3>1 DEF prev_party
  <2>2. CASE At(2) = 2
    BY <1>5, <2>1, <2>2, EvaluatorAt DEF Answered, Accepts, AcceptsKey
  <2>3. CASE At(2) = 0
    BY <1>5, <2>1, <2>3, EvaluatorAt DEF Answered, NotReady, SetupNotReady
  <2> QED BY <2>1, <2>2, <2>3
<1>6. CASE m.kind = "ShamirToRss"
  <2>1. At(2) \in {0, 2, 3}
    BY <1>2, <1>6, Taken
  <2>2. CASE At(2) = 3
    <3>1. AcceptsFirst(2, m) \/ AcceptsShares(2, m)
      BY <1>1, <1>6, <2>2, EvaluatorAt, SharesTaken
    <3> QED BY <3>1 DEF Answered, Accepts
  <2>3. CASE At(2) = 2
    BY <1>2, <1>6, <2>3, EvaluatorAt DEF Answered, NotReady, LaterNotReady, ShamirToRssKinds
  <2>4. CASE At(2) = 0
    <3>1. m.from = 1
      BY <1>2, <1>6, <2>4, Floors
    <3>2. phase[2] = "WaitGarbleKey"
      BY <2>4, EvaluatorAt
    <3> QED BY <1>6, <3>1, <3>2 DEF Answered, KnownRaces
  <2> QED BY <2>1, <2>2, <2>3, <2>4
<1>7. CASE m.kind = "GarblerInputCommit"
  <2>1. At(2) \in {3, 4}
    BY <1>2, <1>7, Taken, Floors
  <2>2. CASE At(2) = 3
    BY <1>2, <1>7, <2>2, EvaluatorAt DEF Answered, NotReady, LaterNotReady, BatchInputKinds
  <2>3. CASE At(2) = 4
    BY <1>2, <1>7, <2>3, EvaluatorAt DEF Answered, KnownRaces
  <2> QED BY <2>1, <2>2, <2>3
<1>8. CASE m.kind = "GarblerI3Commit"
  <2>1. At(2) \in {4, 5}
    BY <1>2, <1>8, Taken, Floors
  <2>2. CASE At(2) = 4
    BY <1>2, <1>8, <2>2, EvaluatorAt DEF Answered, KnownRaces
  <2>3. CASE At(2) = 5
    <3>1. phase[2] = "EvaluatorWaitMsg2" /\ Routed(2, m)
      BY <1>2, <1>8, <2>3, EvaluatorAt, CollectsTable DEF Routed
    <3> QED BY <3>1, EvaluatorTakes DEF Answered
  <2> QED BY <2>1, <2>2, <2>3
<1>9. CASE m.kind \in {"Hash", "GarbledTables"}
  <2>1. At(2) \in {4, 5, 6}
    BY <1>2, <1>9, Taken, Floors
  <2>2. CASE At(2) \in {4, 5}
    BY <1>2, <1>9, <2>2, EvaluatorAt DEF Answered, NotReady, LaterNotReady, InputPhases, CircuitEvalKinds
  <2>3. CASE At(2) = 6
    <3>1. phase[2] = "CircuitEval" /\ Routed(2, m)
      BY <1>2, <1>9, <2>3, EvaluatorAt, CollectsTable DEF Routed
    <3> QED BY <3>1, EvaluatorTakes DEF Answered
  <2> QED BY <2>1, <2>2, <2>3
<1>10. CASE m.kind = "Bit"
  <2>1. At(2) = 7
    BY <1>2, <1>10, Taken, Floors
  <2>2. phase[2] = "EvaluatorWaitBit" /\ Routed(2, m)
    BY <1>2, <1>10, <2>1, EvaluatorAt, CollectsTable DEF Routed
  <2> QED BY <2>2, EvaluatorTakes DEF Answered
<1>11. CASE m.kind = "Bits"
  <2>1. At(2) = 8
    BY <1>2, <1>11, Taken, Floors
  <2>2. phase[2] = "EvaluatorWaitBits" /\ Routed(2, m)
    BY <1>2, <1>11, <2>1, EvaluatorAt, CollectsTable DEF Routed
  <2> QED BY <2>2, EvaluatorTakes DEF Answered
<1> QED BY <1>k, <1>4, <1>5, <1>6, <1>7, <1>8, <1>9, <1>10, <1>11

\* A message that is refused.
LEMMA RejectKeeps ==
  ASSUME IInv, IInv', Exchange, NEW p \in Party, LoopReject(p)
  PROVE  Exchange'
<1>t. /\ slot \in [Party -> [Party -> Message \cup {NoMsg}]]
      /\ rejected \in [Party -> Rejection \cup {NoReject}]
      /\ pending[p] \in Seq(Buf(p)) /\ pending[p] \in Seq(Message)
  BY DEF IInv, SlotTypes, HostTypes, PendingTypes
<1>o. Orderly(p) /\ Standing /\ RacesOnly
  BY DEF Exchange
<1>1. PICK i \in DOMAIN pending[p] :
        /\ i \in ReadyAt(p) /\ ~Accepts(p, pending[p][i]) /\ Consume(p, i)
        /\ slot' = [slot EXCEPT ![p] = SlotAfterError(p, pending[p][i])]
        /\ rejected' = [rejected EXCEPT ![p] =
              [kind |-> pending[p][i].kind, from |-> pending[p][i].from, phase |-> phase[p],
               run |-> pending[p][i].run]]
        /\ IF ReadsLabel(p, pending[p][i]) THEN Post(To(2, Msg(p, 2, "Bit", Blank))) ELSE UNCHANGED inbox
  BY DEF LoopReject, IsCursor
<1>2. PICK m : m = pending[p][i]
  OBVIOUS
<1>u. /\ phase' = phase /\ ctx' = ctx /\ keyPrev' = keyPrev /\ wires' = wires /\ stopped' = stopped
  BY DEF LoopReject
<1>3. m \in Buf(p) /\ m \in ToSet(pending[p]) /\ ~NotReady(p, m) /\ ~Accepts(p, m)
  <2>1. m \in Buf(p)
    BY <1>t, <1>2, ElementOfSeq, LenProperties
  <2>2. m \in ToSet(pending[p])
    BY <1>t, <1>2, Elements
  <2> QED BY <1>1, <1>2, <2>1, <2>2 DEF ReadyAt
<1>4. Answered(p, m)
  <2>1. p = 2 \/ p \in Garbler
    BY DEF Party, Garbler
  <2> QED BY <1>3, <1>o, <2>1, GarblerAnswers, EvaluatorAnswers
<1>5. <<p, phase[p], m.kind, m.from>> \in KnownRaces
  BY <1>3, <1>4 DEF Answered
<1>6. inbox' = inbox
  <2>1. ~ReadsLabel(p, m)
    BY <1>5 DEF ReadsLabel, KnownRaces
  <2> QED BY <1>1, <1>2, <2>1
<1>7. /\ Removes(p, m) /\ \A q \in Party \ {p} : pending'[q] = pending[q]
  BY <1>1, <1>2, ConsumeRemoves
<1>8. /\ slot'[p] = SlotAfterError(p, m) /\ \A q \in Party \ {p} : slot'[q] = slot[q]
  BY <1>t, <1>1, <1>2
<1>9. slot'[p] \in {Filled(p, m), NoSlots, slot[p]}
      /\ (slot'[p] = Filled(p, m) => Routed(p, m) \/ slot'[p] \in {NoSlots, slot[p]})
  BY <1>8 DEF SlotAfterError, Fills
<1>10. Single(p)' /\ Around(p)' \subseteq Around(p)
  BY <1>6, <1>7, <1>9, <1>o, RemovalKeeps
<1>11. /\ rejected'[p].kind = m.kind /\ rejected'[p].from = m.from /\ rejected'[p].phase = phase[p]
       /\ rejected'[p] # NoReject
       /\ \A q \in Party \ {p} : rejected'[q] = rejected[q]
  <2>1. m.from \in Party
    BY <1>3, BufTypes
  <2> QED BY <1>t, <1>1, <1>2, <2>1 DEF NoReject, Party, Nobody
<1>12. Filed(p)'
  <2>1. \A q \in Party : slot[p][q] # NoMsg => slot[p][q].kind \in Collects(phase[p])
    BY <1>o DEF Orderly, Filed
  <2>2. m.from \in Party
    BY <1>3, BufTypes
  <2>3. ASSUME NEW q \in Party, slot'[p][q] # NoMsg PROVE slot'[p][q].kind \in Collects(phase[p])
    <3>1. CASE slot'[p] \in {NoSlots, slot[p]}
      BY <2>1, <2>3, <3>1 DEF NoSlots
    <3>2. CASE slot'[p] = Filled(p, m) /\ Routed(p, m)
      BY <1>t, <2>1, <2>2, <2>3, <3>2 DEF Filled, Routed
    <3> QED BY <1>9, <3>1, <3>2
  <2> QED BY <1>11, <1>u, <2>3 DEF Filed
<1>13. Orderly(p)'
  BY <1>10, <1>11, <1>12, <1>o, <1>u, StayKeeps
<1>14. Turn(p)
  BY <1>6, <1>7, <1>8, <1>11, <1>u, QuietTurn
<1>15. \A q \in Party : Orderly(q)'
  BY <1>13, <1>14, AllKeep
<1>16. Standing'
  BY <1>o, <1>u, StandingStays
<1>17. RacesOnly'
  <2>1. \A q \in Party : rejected'[q] # NoReject =>
          <<q, rejected'[q].phase, rejected'[q].kind, rejected'[q].from>> \in KnownRaces
    BY <1>5, <1>11, <1>o DEF RacesOnly
  <2>2. KnownRaces' = KnownRaces /\ NoReject' = NoReject
    BY DEF KnownRaces, NoReject
  <2> QED BY <2>1, <2>2 DEF RacesOnly
<1> QED BY <1>15, <1>16, <1>17 DEF Exchange

-----------------------------------------------------------------------------
(* What handling a message takes and gives.                                *)

\* A message that a state takes alone.
LEMMA AloneTakes ==
  ASSUME IInv, NEW p \in Party, Orderly(p), NEW m \in Buf(p), m \in ToSet(pending[p]),
         Collects(phase[p]) = {}, NEW n \in 0..9, TakenAt(m.kind) < n,
         \A f \in Party, k \in Kind : Sends(f, p, k) /\ At(p) <= TakenAt(k) /\ TakenAt(k) < n
           => f = m.from /\ k = m.kind
  PROVE  Takes(p, m, n)
<1>1. \A q \in Party : slot[p][q] = NoMsg
  BY DEF Orderly, Filed
<1>2. InHand(p, m) = {m}
  BY <1>1 DEF InHand
<1> QED BY <1>2 DEF Takes

\* A pair.
LEMMA PairTakes ==
  ASSUME IInv, NEW p \in Party, Orderly(p), NEW m \in Buf(p), m \in ToSet(pending[p]),
         Completes(p, m), NEW n \in 0..9,
         \A q \in Party \ {p} : TakenAt(Filled(p, m)[q].kind) < n,
         \A f \in Party, k \in Kind : Sends(f, p, k) /\ At(p) <= TakenAt(k) /\ TakenAt(k) < n
           => k = Filled(p, m)[f].kind
  PROVE  Takes(p, m, n)
<1>1. Routed(p, m) /\ ~Held(p, m) /\ HasBoth(p, Filled(p, m)) /\ m.from \in Party \ {p} /\ Running(p)
  BY Buffered DEF Completes, Fills, Running
<1>2. \A q \in Party : Filled(p, m)[q] = IF q = m.from THEN m ELSE slot[p][q]
  BY <1>1 DEF Filled, IInv, SlotTypes
<1>3. ASSUME NEW a \in InHand(p, m) PROVE \E q \in Party \ {p} : a = Filled(p, m)[q]
  <2>1. CASE a = m
    BY <1>1, <1>2, <2>1
  <2>2. CASE a # m
    <3>1. PICK q \in Party : a = slot[p][q] /\ slot[p][q] # NoMsg
      BY <2>2 DEF InHand
    <3>2. Collected(p, slot[p][q]) /\ slot[p][q].from = q
      BY <1>1, <3>1, SlotCollected
    <3>3. q # p /\ q # m.from
      BY <1>1, <3>1, <3>2 DEF Collected, Held
    <3> QED BY <1>2, <3>1, <3>3
  <2> QED BY <2>1, <2>2
<1>4. ASSUME NEW f \in Party, NEW k \in Kind, Sends(f, p, k), At(p) <= TakenAt(k), TakenAt(k) < n
      PROVE  \E a \in InHand(p, m) : a.from = f /\ a.kind = k
  <2>1. f \in Party \ {p}
    BY <1>4, WhoTakes
  <2>2. Filled(p, m)[f] \in InHand(p, m) /\ Filled(p, m)[f].from = f
    BY <1>1, <2>1, InPair
  <2>3. Filled(p, m)[f].kind = k
    BY <1>4
  <2> QED BY <2>2, <2>3
<1>5. \A a \in InHand(p, m) : TakenAt(a.kind) < n
  BY <1>3
<1> QED BY <1>4, <1>5 DEF Takes

\* A message of p that is new to q and what a run in which nothing fails sends.
Due(p, q, k, v) ==
    /\ Sends(p, q, k) /\ v = Honest(k)
    /\ At(p) < SentAt(k) /\ SentAt(k) <= Stage(phase'[p]) /\ Floor(p, q, k) <= At(q)

LEMMA DueFresh ==
  ASSUME NEW p \in Party, NEW q \in Party, NEW k, NEW v, Due(p, q, k, v)
  PROVE  LET a == Msg(p, q, k, v) IN
           a \in Message /\ Fresh(p, q, a) /\ a.kind = k /\ a.from = p
<1>1. PICK a : a = Msg(p, q, k, v)
  OBVIOUS
<1>2. k \in Kind \ {"Abort"} /\ v \in Payload
  BY WhoTakes, HonestFields DEF Due
<1>3. a \in Message
  BY <1>1, <1>2, NewMessage
<1>4. a.from = p /\ a.kind = k /\ a.val = v
  BY <1>1 DEF Msg
<1>5. Fresh(p, q, a)
  BY <1>2, <1>4 DEF Fresh, Due
<1> QED BY <1>1, <1>3, <1>4, <1>5

\* The kinds p comes to send q.
Owes(p, q, k) == Sends(p, q, k) /\ At(p) < SentAt(k) /\ SentAt(k) <= Stage(phase'[p])

LEMMA OneGiven ==
  ASSUME NEW p \in Party, NEW q \in Party, NEW k, NEW v, Due(p, q, k, v),
         \A l \in Kind : Owes(p, q, l) => l = k
  PROVE  Gives(p, q, <<Msg(p, q, k, v)>>)
<1>1. PICK a : a = Msg(p, q, k, v)
  OBVIOUS
<1>2. a \in Message /\ Fresh(p, q, a) /\ a.kind = k
  BY <1>1, DueFresh
<1>3. PICK y : y = <<a>>
  OBVIOUS
<1>4. y \in Seq(Message) /\ ToSet(y) = {a} /\ Distinct(y)
  BY <1>2, <1>3, FewElements
<1>5. Gives(p, q, y)
  BY <1>2, <1>4 DEF Gives, Owes
<1> QED BY <1>1, <1>3, <1>5

LEMMA TwoGiven ==
  ASSUME NEW p \in Party, NEW q \in Party, NEW k, NEW v, Due(p, q, k, v),
         NEW j, NEW w, Due(p, q, j, w), j # k, \A l \in Kind : Owes(p, q, l) => l \in {j, k}
  PROVE  Gives(p, q, <<Msg(p, q, k, v), Msg(p, q, j, w)>>)
<1>1. PICK a : a = Msg(p, q, k, v)
  OBVIOUS
<1>b. PICK b : b = Msg(p, q, j, w)
  OBVIOUS
<1>2. a \in Message /\ Fresh(p, q, a) /\ a.kind = k
  BY <1>1, DueFresh
<1>3. b \in Message /\ Fresh(p, q, b) /\ b.kind = j
  BY <1>b, DueFresh
<1>4. PICK y : y = <<a, b>>
  OBVIOUS
<1>5. y \in Seq(Message) /\ DOMAIN y = {1, 2} /\ y[1] = a /\ y[2] = b
  BY <1>2, <1>3, <1>4
<1>6. ToSet(y) = {a, b} /\ Distinct(y)
  BY <1>2, <1>3, <1>5 DEF ToSet, Distinct, Same
<1>7. Gives(p, q, y)
  BY <1>2, <1>3, <1>5, <1>6 DEF Gives, Owes
<1> QED BY <1>1, <1>b, <1>4, <1>7

\* p's messages of the step.
Delivers(p) ==
    /\ inbox'[p] = inbox[p]
    /\ \A q \in Party \ {p} : \E y : Gives(p, q, y) /\ inbox'[q] = inbox[q] \o y

LEMMA QuietDelivers ==
  ASSUME IInv, NEW p \in Party, inbox' = inbox, \A q \in Party, k \in Kind : ~Owes(p, q, k)
  PROVE  Delivers(p)
<1>1. ASSUME NEW q \in Party \ {p} PROVE \E y : Gives(p, q, y) /\ inbox'[q] = inbox[q] \o y
  <2>1. \A k \in Kind : Sends(p, q, k) /\ Stage(phase'[p]) # 10 /\ At(p) < SentAt(k)
                          => ~(SentAt(k) <= Stage(phase'[p]))
    BY DEF Owes
  <2> QED BY <2>1, NoneGiven
<1> QED BY <1>1 DEF Delivers

\* One message of kind k to each of R.
LEMMA SendsEach ==
  ASSUME IInv, NEW p \in Party, NEW R \in SUBSET Party, p \notin R, NEW k, NEW v,
         Post(ToEach(R, p, k, v)), \A q \in R : Due(p, q, k, v),
         \A q \in Party, l \in Kind : Owes(p, q, l) => q \in R /\ l = k
  PROVE  Delivers(p)
<1>0. \A q \in Party : inbox'[q] = inbox[q] \o (IF q \in R THEN <<Msg(p, q, k, v)>> ELSE <<>>)
  BY DEF Post, ToEach
<1>1. \A q \in Party : inbox[q] \in Seq(Message)
  BY DEF IInv, InboxTypes
<1>2. \A q \in Party : q \notin R => inbox'[q] = inbox[q]
  <2>1. ASSUME NEW q \in Party, q \notin R PROVE inbox'[q] = inbox[q]
    <3>1. inbox'[q] = inbox[q] \o <<>>
      BY <1>0, <2>1
    <3> QED BY <1>1, <3>1, ConcatEmptySeq
  <2> QED BY <2>1
<1>3. ASSUME NEW q \in Party \ {p} PROVE \E y : Gives(p, q, y) /\ inbox'[q] = inbox[q] \o y
  <2>1. CASE q \in R
    <3>1. Gives(p, q, <<Msg(p, q, k, v)>>)
      <4>1. Due(p, q, k, v) /\ \A l \in Kind : Owes(p, q, l) => l = k
        BY <2>1
      <4> QED BY <4>1, OneGiven
    <3>2. inbox'[q] = inbox[q] \o <<Msg(p, q, k, v)>>
      BY <1>0, <2>1
    <3> QED BY <3>1, <3>2
  <2>2. CASE q \notin R
    <3>1. \A l \in Kind : Sends(p, q, l) /\ Stage(phase'[p]) # 10 /\ At(p) < SentAt(l)
                          => ~(SentAt(l) <= Stage(phase'[p]))
      BY <2>2 DEF Owes
    <3> QED BY <1>2, <2>2, <3>1, NoneGiven
  <2> QED BY <2>1, <2>2
<1> QED BY <1>2, <1>3 DEF Delivers

\* Handling m takes p to a later stage.
Forward(p, m) ==
    /\ At(p) < Stage(phase'[p]) /\ Stage(phase'[p]) <= 9 /\ Takes(p, m, Stage(phase'[p]))
    /\ slot' = [slot EXCEPT ![p] = NoSlots]
    /\ \A q \in Party \ {p} : phase'[q] = phase[q]
    /\ Delivers(p) /\ Standing'

\* The messages handled.
LEMMA ForwardKeeps ==
  ASSUME IInv, IInv', Exchange, NEW p \in Party, NEW m, m \in ToSet(pending[p]), Forward(p, m),
         \/ Removes(p, m) /\ \A q \in Party \ {p} : pending'[q] = pending[q]
         \/ Stage(phase'[p]) = 9 /\ pending' = [pending EXCEPT ![p] = <<>>],
         rejected' = rejected, stopped' = stopped
  PROVE  Exchange'
<1>t. slot \in [Party -> [Party -> Message \cup {NoMsg}]] /\ pending \in [Party -> Seq(Message)]
  BY DEF IInv, SlotTypes, PendingTypes
<1>1. slot'[p] = NoSlots /\ \A q \in Party \ {p} : slot'[q] = slot[q]
  BY <1>t DEF Forward
<1>2. /\ Removes(p, m) \/ (Stage(phase'[p]) = 9 /\ pending'[p] = <<>>)
      /\ \A q \in Party \ {p} : pending'[q] = pending[q]
  BY <1>t
<1>3. GoesOn(p, m)
  BY <1>1, <1>2 DEF Forward, Delivers, GoesOn
<1>4. Orderly(p)'
  BY <1>3, AdvanceKeeps DEF Exchange
<1>5. Turn(p)
  <2>1. At(p) <= Stage(phase'[p])
    BY StageTypes DEF Forward, At
  <2> QED BY <1>1, <1>2, <2>1 DEF Forward, Delivers, Turn
<1>6. \A q \in Party : Orderly(q)'
  BY <1>4, <1>5, AllKeep
<1>7. Standing' /\ RacesOnly'
  BY RacesStay DEF Forward, Exchange
<1> QED BY <1>6, <1>7 DEF Exchange

\* A message filed away.
LEMMA StoreKeeps ==
  ASSUME IInv, IInv', Exchange, NEW p \in Party, NEW m \in Buf(p), Removes(p, m),
         \A q \in Party \ {p} : pending'[q] = pending[q],
         StoreFirst(p, m), rejected' = rejected, stopped' = stopped
  PROVE  Exchange'
<1>t. slot \in [Party -> [Party -> Message \cup {NoMsg}]]
  BY DEF IInv, SlotTypes
<1>o. Orderly(p)
  BY DEF Exchange
<1>u. /\ phase' = phase /\ ctx' = ctx /\ keyPrev' = keyPrev /\ wires' = wires /\ inbox' = inbox
      /\ slot'[p] = Filled(p, m) /\ \A q \in Party \ {p} : slot'[q] = slot[q]
      /\ AcceptsFirst(p, m)
  BY <1>t DEF StoreFirst
<1>m. m.from \in Party /\ slot[p][m.from] = NoMsg /\ m.kind \in Collects(phase[p])
  BY <1>u, BufTypes DEF AcceptsFirst, Fills, Held, Routed
<1>1. Single(p)' /\ Around(p)' \subseteq Around(p)
  BY <1>o, <1>u, RemovalKeeps
<1>2. \A q \in Party : slot'[p][q] = IF q = m.from THEN m ELSE slot[p][q]
  BY <1>t, <1>u, <1>m DEF Filled
<1>3. Around(p) \subseteq Around(p)'
  <2>1. Around(p)' = ToSet(inbox'[p]) \cup ToSet(pending'[p]) \cup ({slot'[p][r] : r \in Party} \ {NoMsg})
    BY DEF Around
  <2>2. ToSet(pending[p]) \subseteq ToSet(pending'[p]) \cup {m}
    BY DEF Removes
  <2>3. m \in {slot'[p][r] : r \in Party} \ {NoMsg}
    <3>1. m # NoMsg
      BY <1>m DEF NoMsg, Party, Nobody
    <3> QED BY <1>2, <1>m, <3>1
  <2>4. {slot[p][r] : r \in Party} \ {NoMsg} \subseteq {slot'[p][r] : r \in Party} \ {NoMsg}
    BY <1>2, <1>m
  <2> QED BY <1>u, <2>1, <2>2, <2>3, <2>4 DEF Around
<1>4. Filed(p)'
  <2>1. \A q \in Party : slot'[p][q] # NoMsg => slot'[p][q].kind \in Collects(phase[p])
    BY <1>2, <1>m, <1>o DEF Orderly, Filed
  <2>2. HasBoth(p, slot'[p]) => Unmatched(phase[p], slot'[p])
    BY <1>u DEF AcceptsFirst
  <2> QED BY <1>u, <2>1, <2>2 DEF Filed, HasBoth, Unmatched, KindsAre
<1>5. Orderly(p)'
  BY <1>1, <1>3, <1>4, <1>o, <1>u, StayKeeps
<1>6. Turn(p)
  BY <1>u, QuietTurn
<1>7. \A q \in Party : Orderly(q)'
  BY <1>5, <1>6, AllKeep
<1>8. Standing' /\ RacesOnly'
  BY <1>u, StandingStays, RacesStay DEF Exchange
<1> QED BY <1>7, <1>8 DEF Exchange

-----------------------------------------------------------------------------
(* The handlers: setup and common randomness.                              *)

\* What stands of the parties that do not move.
LEMMA OnlyOneMoves ==
  ASSUME IInv, NEW p \in Party, NEW next, phase' = [phase EXCEPT ![p] = next]
  PROVE  /\ phase'[p] = next /\ \A q \in Party \ {p} : phase'[q] = phase[q]
         /\ \A q \in Party \ {p} : Stage(phase'[q]) = At(q)
<1>1. phase'[p] = next /\ \A q \in Party \ {p} : phase'[q] = phase[q]
  BY HandlerTypes
<1> QED BY <1>1 DEF At

LEMMA SetupCrs0Forward ==
  ASSUME IInv, NEW m \in Buf(0), m \in ToSet(pending[0]), \A p \in Party : Orderly(p), Standing,
         SetupCrs0(m)
  PROVE  Forward(0, m)
<1>t. /\ 0 \in Party /\ 0 \in Garbler /\ Party = {0, 1, 2} /\ Garbler = {0, 1}
      /\ phase[0] = "WaitCrs" /\ m.from = 2 /\ m.kind = "CommCrs" /\ prev_party(0) = 2 /\ next_party(0) = 1
  BY DEF Party, Garbler, SetupCrs0, AcceptsCrs, prev_party, next_party
<1>a. At(0) = 0 /\ m.val.crs = Mine
  BY <1>t, Buffered, HonestFields, GarblerAt
<1>1. /\ phase' = [phase EXCEPT ![0] = "CommonRandomness"] /\ slot' = [slot EXCEPT ![0] = NoSlots]
      /\ ctx' = [ctx EXCEPT ![0] = [crs |-> m.val.crs, seed |-> Mine, prf |-> 0]]
      /\ wires' = wires /\ keyPrev' = keyPrev
  BY DEF SetupCrs0, Goto
<1>2. /\ phase'[0] = "CommonRandomness" /\ Stage(phase'[0]) = 2
      /\ \A q \in Party \ {0} : phase'[q] = phase[q] /\ Stage(phase'[q]) = At(q)
  BY <1>t, <1>1, OnlyOneMoves, Stages
<1>3. Takes(0, m, 2)
  <2>1. ASSUME NEW f \in Party, NEW k \in Kind, Sends(f, 0, k), TakenAt(k) < 2
        PROVE  f = 2 /\ k = "CommCrs"
    <3>1. Listed(f, 0, k)
      BY <2>1, SendsListed
    <3> QED BY <2>1, <3>1, Taken DEF Listed
  <2>2. Collects(phase[0]) = {} /\ TakenAt(m.kind) < 2
    BY <1>t, CollectsTable, Taken
  <2> QED BY <1>t, <2>1, <2>2, AloneTakes
<1>4. Delivers(0)
  <2>u. PICK u : u = [Blank EXCEPT !.crs = m.val.crs, !.seed = Mine]
    OBVIOUS
  <2>v. PICK v : v = [Blank EXCEPT !.own = Mine]
    OBVIOUS
  <2>w. PICK w : w = [Blank EXCEPT !.seed = Mine]
    OBVIOUS
  <2>1. u = Honest("PrfSeed") /\ v = Honest("KeyNext") /\ w = Honest("GarbleKey")
    BY <1>a, <2>u, <2>v, <2>w DEF Honest, HonestPayload, Blank, Mine
  <2>y. PICK y : y = <<Msg(0, 1, "PrfSeed", u), Msg(0, 1, "KeyNext", v)>>
    OBVIOUS
  <2>z. PICK z : z = <<Msg(0, 2, "GarbleKey", w)>>
    OBVIOUS
  <2>o. PICK out : out = [q \in Party |->
            CASE q = 1 -> <<Msg(0, 1, "PrfSeed", [Blank EXCEPT !.crs = m.val.crs, !.seed = Mine]),
                            Msg(0, 1, "KeyNext", [Blank EXCEPT !.own = Mine])>>
              [] q = 2 -> <<Msg(0, 2, "GarbleKey", [Blank EXCEPT !.seed = Mine])>>
              [] OTHER -> <<>>]
    OBVIOUS
  <2>2. out[0] = <<>> /\ out[1] = y /\ out[2] = z
    BY <1>t, <2>o, <2>u, <2>v, <2>w, <2>y, <2>z
  <2>6. inbox'[0] = inbox[0] \o <<>> /\ inbox'[1] = inbox[1] \o y /\ inbox'[2] = inbox[2] \o z
    <3>1. Post(out)
      BY <2>o DEF SetupCrs0
    <3> QED BY <1>t, <2>2, <3>1 DEF Post
  <2>3. inbox'[0] = inbox[0]
    <3>1. inbox'[0] = inbox[0] \o <<>>
      BY <2>6
    <3>2. inbox[0] \in Seq(Message)
      BY <1>t DEF IInv, InboxTypes
    <3> QED BY <3>1, <3>2, ConcatEmptySeq
  <2>4. Gives(0, 1, <<Msg(0, 1, "PrfSeed", u), Msg(0, 1, "KeyNext", v)>>)
    <3>1. Listed(0, 1, "PrfSeed") /\ Listed(0, 1, "KeyNext")
      BY DEF Listed
    <3>2. Sends(0, 1, "PrfSeed") /\ Sends(0, 1, "KeyNext")
      BY <3>1, SendsListed
    <3>3. At(1) \in 0..10
      BY <1>t, AtTypes
    <3>4. Due(0, 1, "PrfSeed", u) /\ Due(0, 1, "KeyNext", v)
      BY <1>a, <1>2, <2>1, <3>2, <3>3, Sent, Floors DEF Due
    <3>5. ASSUME NEW l \in Kind, Owes(0, 1, l) PROVE l \in {"KeyNext", "PrfSeed"}
      <4>1. Sends(0, 1, l) /\ SentAt(l) \in {1, 2}
        BY <1>a, <1>2, <3>5, Sent DEF Owes
      <4> QED BY <1>t, <4>1, WhoSends
    <3> QED BY <1>t, <3>4, <3>5, TwoGiven
  <2>5. Gives(0, 2, <<Msg(0, 2, "GarbleKey", w)>>)
    <3>1. Listed(0, 2, "GarbleKey")
      BY DEF Listed
    <3>2. Sends(0, 2, "GarbleKey")
      BY <3>1, SendsListed
    <3>3. At(2) \in 0..10
      BY <1>t, AtTypes
    <3>4. Due(0, 2, "GarbleKey", w)
      BY <1>a, <1>2, <2>1, <3>2, <3>3, Sent, Floors DEF Due
    <3>5. ASSUME NEW l \in Kind, Owes(0, 2, l) PROVE l = "GarbleKey"
      <4>1. Sends(0, 2, l) /\ SentAt(l) \in {1, 2}
        BY <1>a, <1>2, <3>5, Sent DEF Owes
      <4> QED BY <1>t, <4>1, WhoSends
    <3> QED BY <1>t, <3>4, <3>5, OneGiven
  <2> QED BY <1>t, <2>y, <2>z, <2>3, <2>4, <2>5, <2>6 DEF Delivers
<1>5. Standing'
  <2>1. /\ ctx'[0].crs = Mine /\ ctx'[0].seed = Mine /\ ctx'[0].prf = 0
        /\ ctx'[1] = ctx[1] /\ ctx'[2] = ctx[2]
    BY <1>t, <1>a, <1>1, HandlerTypes
  <2>2. Setups'
    BY <1>t, <1>2, <2>1 DEF Standing, Setups, At, Mine
  <2>3. Streams'
    BY <1>t, <1>2, <2>1 DEF Standing, Streams, At
  <2>4. Paired'
    BY <1>t, <1>1, <1>2 DEF Standing, Paired, At, Mine
  <2>5. Wired'
    BY <1>t, <1>1, <1>2 DEF Standing, Wired, At, Mine
  <2> QED BY <2>2, <2>3, <2>4, <2>5 DEF Standing
<1> QED BY <1>a, <1>1, <1>2, <1>3, <1>4, <1>5 DEF Forward

\* One message to one party.
LEMMA SendsOne ==
  ASSUME IInv, NEW p \in Party, NEW r \in Party \ {p}, NEW k, NEW v,
         Post(To(r, Msg(p, r, k, v))), Due(p, r, k, v),
         \A q \in Party, l \in Kind : Owes(p, q, l) => q = r /\ l = k
  PROVE  Delivers(p)
<1>1. Post(ToEach({r}, p, k, v))
  BY DEF Post, To, ToEach
<1>2. {r} \in SUBSET Party /\ p \notin {r}
  OBVIOUS
<1>3. \A q \in {r} : Due(p, q, k, v)
  OBVIOUS
<1>4. \A q \in Party, l \in Kind : Owes(p, q, l) => q \in {r} /\ l = k
  OBVIOUS
<1> QED BY <1>1, <1>2, <1>3, <1>4, SendsEach

\* Whoever sent what p has in hand has come to the stage that sends it.
LEMMA InHandSent ==
  ASSUME IInv, NEW p \in Party, Orderly(p), NEW m \in Buf(p), m \in ToSet(pending[p]),
         NEW e \in InHand(p, m)
  PROVE  SentAt(e.kind) <= At(e.from) /\ e.val = Honest(e.kind)
<1>1. CASE e = m
  BY <1>1, Buffered DEF Regular
<1>2. CASE e # m
  <2>1. PICK q \in Party : e = slot[p][q] /\ slot[p][q] # NoMsg
    BY <1>2 DEF InHand
  <2>2. Running(p)
    BY Buffered DEF Running
  <2>3. Collected(p, slot[p][q])
    BY <2>1, <2>2, SlotCollected
  <2> QED BY <2>1, <2>3 DEF Collected, Regular
<1> QED BY <1>1, <1>2

LEMMA SetupCrs1Forward ==
  ASSUME IInv, NEW m \in Buf(1), m \in ToSet(pending[1]), \A p \in Party : Orderly(p), Standing,
         SetupCrs1(m)
  PROVE  Forward(1, m)
<1>t. /\ 1 \in Party /\ 1 \in Garbler /\ Party = {0, 1, 2} /\ Garbler = {0, 1}
      /\ phase[1] = "WaitCrs" /\ m.from = 2 /\ m.kind = "CommCrs"
  BY DEF Party, Garbler, SetupCrs1, AcceptsCrs
<1>a. At(1) = 0 /\ m.val.crs = Mine
  BY <1>t, Buffered, HonestFields, GarblerAt
<1>1. /\ phase' = [phase EXCEPT ![1] = "WaitPrf"] /\ slot' = [slot EXCEPT ![1] = NoSlots]
      /\ ctx' = [ctx EXCEPT ![1].crs = m.val.crs]
      /\ wires' = wires /\ keyPrev' = keyPrev /\ inbox' = inbox
  BY DEF SetupCrs1, Goto
<1>2. /\ phase'[1] = "WaitPrf" /\ Stage(phase'[1]) = 1
      /\ \A q \in Party \ {1} : phase'[q] = phase[q] /\ Stage(phase'[q]) = At(q)
  BY <1>t, <1>1, OnlyOneMoves, Stages
<1>3. Takes(1, m, 1)
  <2>1. ASSUME NEW f \in Party, NEW k \in Kind, Sends(f, 1, k), TakenAt(k) < 1
        PROVE  f = 2 /\ k = "CommCrs"
    <3>1. Listed(f, 1, k)
      BY <2>1, SendsListed
    <3> QED BY <2>1, <3>1, Taken DEF Listed
  <2>2. Collects(phase[1]) = {} /\ TakenAt(m.kind) < 1
    BY <1>t, CollectsTable, Taken
  <2> QED BY <1>t, <2>1, <2>2, AloneTakes
<1>4. Delivers(1)
  <2>1. ASSUME NEW q \in Party, NEW k \in Kind, Owes(1, q, k) PROVE FALSE
    <3>1. SentAt(k) = 1 /\ Sends(1, q, k)
      BY <1>a, <1>2, <2>1, Sent DEF Owes
    <3> QED BY <3>1, WhoSends
  <2> QED BY <1>t, <1>1, <2>1, QuietDelivers
<1>5. Standing'
  <2>1. /\ ctx'[1].crs = Mine /\ ctx'[1].prf = ctx[1].prf /\ ctx'[0] = ctx[0] /\ ctx'[2] = ctx[2]
    BY <1>t, <1>a, <1>1, HandlerTypes DEF Context
  <2>2. Setups'
    BY <1>t, <1>2, <2>1 DEF Standing, Setups, At, Mine
  <2>3. Streams'
    BY <1>t, <1>a, <1>2, <2>1 DEF Standing, Streams, At
  <2>4. Paired'
    BY <1>t, <1>1, <1>2 DEF Standing, Paired, At, Mine
  <2>5. Wired'
    BY <1>t, <1>1, <1>2 DEF Standing, Wired, At, Mine
  <2> QED BY <2>2, <2>3, <2>4, <2>5 DEF Standing
<1> QED BY <1>a, <1>1, <1>2, <1>3, <1>4, <1>5 DEF Forward

LEMMA SetupPrfForward ==
  ASSUME IInv, NEW m \in Buf(1), m \in ToSet(pending[1]), \A p \in Party : Orderly(p), Standing,
         SetupPrf(m)
  PROVE  Forward(1, m)
<1>t. /\ 1 \in Party /\ 2 \in Party \ {1} /\ 1 \in Garbler /\ Party = {0, 1, 2} /\ Garbler = {0, 1}
      /\ phase[1] = "WaitPrf" /\ m.from = 0 /\ m.kind = "PrfSeed" /\ next_party(1) = 2
  BY DEF Party, Garbler, SetupPrf, AcceptsPrf, next_party
<1>a. At(1) = 1 /\ m.val.seed = Mine
  BY <1>t, Buffered, HonestFields, GarblerAt
<1>1. /\ phase' = [phase EXCEPT ![1] = "CommonRandomness"] /\ slot' = [slot EXCEPT ![1] = NoSlots]
      /\ ctx' = [ctx EXCEPT ![1].seed = m.val.seed, ![1].prf = 0]
      /\ wires' = wires /\ keyPrev' = keyPrev
  BY DEF SetupPrf, Goto
<1>2. /\ phase'[1] = "CommonRandomness" /\ Stage(phase'[1]) = 2
      /\ \A q \in Party \ {1} : phase'[q] = phase[q] /\ Stage(phase'[q]) = At(q)
  BY <1>t, <1>1, OnlyOneMoves, Stages
<1>3. Takes(1, m, 2)
  <2>1. ASSUME NEW f \in Party, NEW k \in Kind, Sends(f, 1, k), At(1) <= TakenAt(k), TakenAt(k) < 2
        PROVE  f = 0 /\ k = "PrfSeed"
    <3>1. Listed(f, 1, k)
      BY <2>1, SendsListed
    <3> QED BY <1>a, <2>1, <3>1, Taken DEF Listed
  <2>2. Collects(phase[1]) = {} /\ TakenAt(m.kind) < 2
    BY <1>t, CollectsTable, Taken
  <2> QED BY <1>t, <2>1, <2>2, AloneTakes
<1>4. Delivers(1)
  <2>v. PICK v : v = [Blank EXCEPT !.own = Mine]
    OBVIOUS
  <2>1. v = Honest("KeyNext")
    BY <2>v DEF Honest, HonestPayload, Blank, Mine
  <2>2. Post(To(2, Msg(1, 2, "KeyNext", v)))
    BY <2>v DEF SetupPrf
  <2>3. Due(1, 2, "KeyNext", v)
    <3>1. Listed(1, 2, "KeyNext")
      BY DEF Listed
    <3>2. Sends(1, 2, "KeyNext")
      BY <3>1, SendsListed
    <3>3. At(2) \in 0..10
      BY <1>t, AtTypes
    <3> QED BY <1>a, <1>2, <2>1, <3>2, <3>3, Sent, Floors DEF Due
  <2>4. ASSUME NEW q \in Party, NEW l \in Kind, Owes(1, q, l) PROVE q = 2 /\ l = "KeyNext"
    <3>1. Sends(1, q, l) /\ SentAt(l) = 2
      BY <1>a, <1>2, <2>4, Sent DEF Owes
    <3> QED BY <1>t, <3>1, WhoSends
  <2> QED BY <1>t, <2>2, <2>3, <2>4, SendsOne
<1>5. Standing'
  <2>1. /\ ctx'[1].crs = ctx[1].crs /\ ctx'[1].seed = Mine /\ ctx'[1].prf = 0
        /\ ctx'[0] = ctx[0] /\ ctx'[2] = ctx[2]
    BY <1>t, <1>a, <1>1, HandlerTypes DEF Context
  <2>2. Setups'
    BY <1>t, <1>a, <1>2, <2>1 DEF Standing, Setups, At, Mine
  <2>3. Streams'
    BY <1>t, <1>2, <2>1 DEF Standing, Streams, At
  <2>4. Paired'
    BY <1>t, <1>1, <1>2 DEF Standing, Paired, At, Mine
  <2>5. Wired'
    BY <1>t, <1>1, <1>2 DEF Standing, Wired, At, Mine
  <2> QED BY <2>2, <2>3, <2>4, <2>5 DEF Standing
<1> QED BY <1>a, <1>1, <1>2, <1>3, <1>4, <1>5 DEF Forward

LEMMA SetupGarbleKeyForward ==
  ASSUME IInv, NEW m \in Buf(2), m \in ToSet(pending[2]), \A p \in Party : Orderly(p), Standing,
         SetupGarbleKey(m)
  PROVE  Forward(2, m)
<1>t. /\ 2 \in Party /\ 0 \in Party \ {2} /\ Party = {0, 1, 2} /\ Garbler = {0, 1}
      /\ phase[2] = "WaitGarbleKey" /\ m.from = 0 /\ m.kind = "GarbleKey" /\ next_party(2) = 0
  BY DEF Party, Garbler, SetupGarbleKey, AcceptsGarbleKey, next_party
<1>a. At(2) = 0 /\ m.val.seed = Mine /\ 2 <= At(0)
  BY <1>t, Buffered, HonestFields, EvaluatorAt, Sent DEF Regular
<1>1. /\ phase' = [phase EXCEPT ![2] = "CommonRandomness"] /\ slot' = [slot EXCEPT ![2] = NoSlots]
      /\ ctx' = [ctx EXCEPT ![2].seed = m.val.seed]
      /\ wires' = wires /\ keyPrev' = keyPrev
  BY DEF SetupGarbleKey, Goto
<1>2. /\ phase'[2] = "CommonRandomness" /\ Stage(phase'[2]) = 2
      /\ \A q \in Party \ {2} : phase'[q] = phase[q] /\ Stage(phase'[q]) = At(q)
  BY <1>t, <1>1, OnlyOneMoves, Stages
<1>3. Takes(2, m, 2)
  <2>1. ASSUME NEW f \in Party, NEW k \in Kind, Sends(f, 2, k), TakenAt(k) < 2
        PROVE  f = 0 /\ k = "GarbleKey"
    <3>1. Listed(f, 2, k)
      BY <2>1, SendsListed
    <3> QED BY <2>1, <3>1, Taken DEF Listed
  <2>2. Collects(phase[2]) = {} /\ TakenAt(m.kind) < 2
    BY <1>t, CollectsTable, Taken
  <2> QED BY <1>t, <2>1, <2>2, AloneTakes
<1>4. Delivers(2)
  <2>v. PICK v : v = [Blank EXCEPT !.own = Mine]
    OBVIOUS
  <2>1. v = Honest("KeyNext")
    BY <2>v DEF Honest, HonestPayload, Blank, Mine
  <2>2. Post(To(0, Msg(2, 0, "KeyNext", v)))
    BY <2>v DEF SetupGarbleKey
  <2>3. Due(2, 0, "KeyNext", v)
    <3>1. Listed(2, 0, "KeyNext")
      BY DEF Listed
    <3>2. Sends(2, 0, "KeyNext")
      BY <3>1, SendsListed
    <3> QED BY <1>a, <1>2, <2>1, <3>2, Sent, Floors DEF Due
  <2>4. ASSUME NEW q \in Party, NEW l \in Kind, Owes(2, q, l) PROVE q = 0 /\ l = "KeyNext"
    <3>1. Sends(2, q, l) /\ SentAt(l) \in {1, 2}
      BY <1>a, <1>2, <2>4, Sent DEF Owes
    <3> QED BY <1>t, <3>1, WhoSends
  <2> QED BY <1>t, <2>2, <2>3, <2>4, SendsOne
<1>5. Standing'
  <2>1. /\ ctx'[2].crs = ctx[2].crs /\ ctx'[2].seed = Mine
        /\ ctx'[0] = ctx[0] /\ ctx'[1] = ctx[1]
    BY <1>t, <1>a, <1>1, HandlerTypes DEF Context
  <2>2. Setups'
    BY <1>t, <1>2, <2>1 DEF Standing, Setups, At, Mine
  <2>3. Streams'
    BY <1>t, <1>2, <2>1 DEF Standing, Streams, At
  <2>4. Paired'
    BY <1>t, <1>1, <1>2 DEF Standing, Paired, At, Mine
  <2>5. Wired'
    BY <1>t, <1>1, <1>2 DEF Standing, Wired, At, Mine
  <2> QED BY <2>2, <2>3, <2>4, <2>5 DEF Standing
<1> QED BY <1>a, <1>1, <1>2, <1>3, <1>4, <1>5 DEF Forward

\* The Shamir share goes to both others, who are where they can wait for it.
LEMMA CommonRandomnessForward ==
  ASSUME IInv, NEW p \in Party, NEW m \in Buf(p), m \in ToSet(pending[p]),
         \A q \in Party : Orderly(q), Standing, CommonRandomness(p, m)
  PROVE  Forward(p, m)
<1>t. /\ Party = {0, 1, 2} /\ p \in {0, 1, 2}
      /\ phase[p] = "CommonRandomness" /\ m.from = prev_party(p) /\ m.kind = "KeyNext"
      /\ prev_party(0) = 2 /\ prev_party(1) = 0 /\ prev_party(2) = 1
  BY DEF Party, CommonRandomness, AcceptsKey, prev_party
<1>a. At(p) = 2 /\ m.val.own = Mine /\ 2 <= At(m.from)
  BY <1>t, Buffered, HonestFields, Stages, Sent DEF Regular, At
<1>1. /\ phase' = [phase EXCEPT ![p] = "ShamirToRss"] /\ slot' = [slot EXCEPT ![p] = NoSlots]
      /\ keyPrev' = [keyPrev EXCEPT ![p] = m.val.own]
      /\ wires' = wires /\ ctx' = ctx
  BY DEF CommonRandomness, Goto
<1>2. /\ phase'[p] = "ShamirToRss" /\ Stage(phase'[p]) = 3
      /\ \A q \in Party \ {p} : phase'[q] = phase[q] /\ Stage(phase'[q]) = At(q)
  BY <1>t, <1>1, OnlyOneMoves, Stages
<1>3. Takes(p, m, 3)
  <2>1. ASSUME NEW f \in Party, NEW k \in Kind, Sends(f, p, k), At(p) <= TakenAt(k), TakenAt(k) < 3
        PROVE  f = m.from /\ k = m.kind
    <3>1. TakenAt(k) = 2
      BY <1>a, <2>1, Taken
    <3> QED BY <1>t, <2>1, <3>1, WhoTakes
  <2>2. Collects(phase[p]) = {} /\ TakenAt(m.kind) < 3
    BY <1>t, CollectsTable, Taken
  <2> QED BY <1>t, <2>1, <2>2, AloneTakes
<1>4. Delivers(p)
  <2>v. PICK v : v = [Blank EXCEPT !.own = m.val.own \cup Mine]
    OBVIOUS
  <2>1. v = Honest("ShamirToRss")
    BY <1>a, <2>v DEF Honest, HonestPayload, Blank, Mine
  <2>2. Post(ToEach(Party \ {p}, p, "ShamirToRss", v))
    BY <2>v DEF CommonRandomness
  <2>3. ASSUME NEW q \in Party \ {p} PROVE Due(p, q, "ShamirToRss", v)
    <3>1. Listed(p, q, "ShamirToRss")
      BY <1>t DEF Listed
    <3>2. Sends(p, q, "ShamirToRss")
      BY <3>1, SendsListed
    <3>3. At(q) \in 0..10
      BY AtTypes
    <3>4. p = 2 => 2 <= At(0)
      <4>1. Listed(0, 2, "GarbleKey") /\ "GarbleKey" \in Kind /\ 0 \in Party
        BY <1>t DEF Listed, Kind
      <4>2. Sends(0, 2, "GarbleKey") /\ TakenAt("GarbleKey") = 0 /\ SentAt("GarbleKey") = 2
        BY <4>1, SendsListed, Sent, Taken
      <4> QED BY <1>a, <4>1, <4>2 DEF Orderly, Obeys, Running
    <3>5. Floor(p, q, "ShamirToRss") <= At(q)
      BY <1>t, <1>a, <3>3, <3>4, Floors
    <3> QED BY <1>a, <1>2, <2>1, <3>2, <3>5, Sent DEF Due
  <2>4. ASSUME NEW q \in Party, NEW l \in Kind, Owes(p, q, l)
        PROVE  q \in Party \ {p} /\ l = "ShamirToRss"
    <3>1. Sends(p, q, l) /\ SentAt(l) = 3
      BY <1>a, <1>2, <2>4, Sent DEF Owes
    <3>2. l = "ShamirToRss" /\ Listed(p, q, l)
      BY <3>1, WhoSends, SendsListed
    <3> QED BY <1>t, <3>2 DEF Listed
  <2>5. Party \ {p} \in SUBSET Party /\ p \notin Party \ {p}
    OBVIOUS
  <2> QED BY <2>2, <2>3, <2>4, <2>5, SendsEach
<1>5. Standing'
  <2>1. keyPrev'[p] = Mine /\ \A q \in Party \ {p} : keyPrev'[q] = keyPrev[q]
    BY <1>a, <1>1, HandlerTypes
  <2>s. /\ Stage(phase[p]) = 2 /\ Stage(phase'[p]) = 3
        /\ \A q \in Party \ {p} : Stage(phase'[q]) = Stage(phase[q])
    BY <1>a, <1>2 DEF At
  <2>2. Setups'
    BY <1>t, <1>1, <2>s DEF Standing, Setups, At, Mine
  <2>3. Streams'
    BY <1>t, <1>1, <2>s DEF Standing, Streams, At, Garbler
  <2>4. Paired'
    BY <2>s, <2>1 DEF Standing, Paired, At, Mine
  <2>5. Wired'
    BY <1>t, <1>1, <2>s DEF Standing, Wired, At, Mine
  <2> QED BY <2>2, <2>3, <2>4, <2>5 DEF Standing
<1> QED BY <1>a, <1>1, <1>2, <1>3, <1>4, <1>5 DEF Forward

-----------------------------------------------------------------------------
(* The handlers: input and circuit evaluation.                             *)

\* A garbler commits when it has the share of the evaluator, who is then where
\* it can wait for the commitment.
LEMMA ShamirToRssGarblerForward ==
  ASSUME IInv, NEW p \in Party, NEW m \in Buf(p), m \in ToSet(pending[p]),
         \A q \in Party : Orderly(q), Standing, Misfit = Nobody, ShamirToRssGarbler(p, m)
  PROVE  Forward(p, m)
<1>t. /\ Party = {0, 1, 2} /\ Garbler = {0, 1} /\ p \in Garbler /\ p \in {0, 1} /\ 2 \in Party \ {p}
      /\ phase[p] = "ShamirToRss" /\ Completes(p, m) /\ Shares(p, Filled(p, m)) = Mine
  BY DEF Party, Garbler, ShamirToRssGarbler, AcceptsShares, OnOneLine
<1>a. At(p) = 3
  BY <1>t, GarblerAt
<1>b. /\ HasBoth(p, Filled(p, m)) /\ Routed(p, m)
  BY <1>t DEF Completes, Fills
<1>c. /\ \A q \in Party \ {p} : /\ Filled(p, m)[q].kind = "ShamirToRss" /\ Filled(p, m)[q].from = q
                                /\ Filled(p, m)[q] \in InHand(p, m)
  <2>1. ASSUME NEW q \in Party \ {p}
        PROVE  /\ Collected(p, Filled(p, m)[q]) /\ Filled(p, m)[q].from = q
               /\ Filled(p, m)[q] \in InHand(p, m)
    BY <1>b, InPair
  <2> QED BY <1>t, <2>1, CollectsTable DEF Collected
<1>d. 3 <= At(2)
  <2>1. PICK e \in InHand(p, m) : e.kind = "ShamirToRss" /\ e.from = 2
    BY <1>t, <1>c
  <2> QED BY <2>1, InHandSent, Sent
<1>1. /\ phase' = [phase EXCEPT ![p] = "GarblerWaitEvalBits"] /\ slot' = [slot EXCEPT ![p] = NoSlots]
      /\ keyPrev' = keyPrev /\ wires' = wires /\ Advance(p, 1)
  BY FirstDraw DEF ShamirToRssGarbler, Goto
<1>2. /\ phase'[p] = "GarblerWaitEvalBits" /\ Stage(phase'[p]) = 4
      /\ \A q \in Party \ {p} : phase'[q] = phase[q] /\ Stage(phase'[q]) = At(q)
  BY <1>t, <1>1, OnlyOneMoves, Stages, ZenonT(40)
<1>s. ctx[p].crs = Mine /\ ctx[p].seed = Mine /\ ctx[p].prf = 0
  BY <1>t, <1>a DEF Standing, Setups, Streams
<1>3. Takes(p, m, 4)
  <2>1. ASSUME NEW f \in Party, NEW k \in Kind, Sends(f, p, k), At(p) <= TakenAt(k), TakenAt(k) < 4
        PROVE  k = Filled(p, m)[f].kind
    <3>1. TakenAt(k) = 3
      BY <1>a, <2>1, Taken
    <3>2. k = "ShamirToRss" /\ f # p
      BY <2>1, <3>1, WhoTakes
    <3> QED BY <1>c, <3>2
  <2>2. \A q \in Party \ {p} : TakenAt(Filled(p, m)[q].kind) < 4
    BY <1>c, Taken
  <2> QED BY <1>t, <2>1, <2>2, PairTakes
<1>4. Delivers(p)
  <2>v. PICK v : v = [Blank EXCEPT !.crs = ctx[p].crs, !.seed = ctx[p].seed, !.prf = ctx[p].prf,
                                   !.own = Shares(p, Filled(p, m))]
    OBVIOUS
  <2>1. v = Honest("GarblerInputCommit")
    BY <1>t, <1>s, <2>v DEF Honest, HonestPayload, Blank, Mine
  <2>2. Post(To(2, Msg(p, 2, "GarblerInputCommit", v)))
    <3>1. Entered(p, Shares(p, Filled(p, m))) = {Shares(p, Filled(p, m))}
      BY EnteredFits
    <3> QED BY <2>v, <3>1 DEF ShamirToRssGarbler
  <2>3. Due(p, 2, "GarblerInputCommit", v)
    <3>1. Listed(p, 2, "GarblerInputCommit")
      BY <1>t DEF Listed
    <3>2. Sends(p, 2, "GarblerInputCommit")
      BY <3>1, SendsListed
    <3> QED BY <1>a, <1>d, <1>2, <2>1, <3>2, Sent, Floors DEF Due
  <2>4. ASSUME NEW q \in Party, NEW l \in Kind, Owes(p, q, l) PROVE q = 2 /\ l = "GarblerInputCommit"
    <3>1. Sends(p, q, l) /\ SentAt(l) = 4
      BY <1>a, <1>2, <2>4, Sent DEF Owes
    <3> QED BY <1>t, <3>1, WhoSends
  <2> QED BY <1>t, <2>2, <2>3, <2>4, SendsOne
<1>5. Standing'
  <2>1. /\ \A q \in Party : ctx'[q].crs = ctx[q].crs /\ ctx'[q].seed = ctx[q].seed
        /\ ctx'[p].prf = 1 /\ \A q \in Party \ {p} : ctx'[q].prf = ctx[q].prf
    <3>1. \A q \in Party : /\ ctx'[q].crs = ctx[q].crs /\ ctx'[q].seed = ctx[q].seed
                           /\ ctx'[q].prf = IF q = p THEN ctx[q].prf + 1 ELSE ctx[q].prf
      BY <1>1, Advances
    <3> QED BY <1>s, <3>1
  <2>s. /\ Stage(phase[p]) = 3 /\ Stage(phase'[p]) = 4
        /\ \A q \in Party \ {p} : Stage(phase'[q]) = Stage(phase[q])
    BY <1>a, <1>2 DEF At
  <2>2. Setups'
    BY <1>t, <2>1, <2>s DEF Standing, Setups, At, Mine
  <2>3. Streams'
    BY <1>t, <2>1, <2>s DEF Standing, Streams, At, Garbler
  <2>4. Paired'
    BY <1>1, <2>s DEF Standing, Paired, At, Mine
  <2>5. Wired'
    BY <1>t, <1>1, <2>s DEF Standing, Wired, At, Mine
  <2> QED BY <2>2, <2>3, <2>4, <2>5 DEF Standing
<1> QED BY <1>a, <1>1, <1>2, <1>3, <1>4, <1>5 DEF Forward

LEMMA ShamirToRssEvaluatorForward ==
  ASSUME IInv, NEW m \in Buf(2), m \in ToSet(pending[2]),
         \A q \in Party : Orderly(q), Standing, Misfit = Nobody, ShamirToRssEvaluator(m)
  PROVE  Forward(2, m)
<1>t. /\ Party = {0, 1, 2} /\ Garbler = {0, 1} /\ 2 \in Party /\ Garbler \subseteq Party \ {2}
      /\ phase[2] = "ShamirToRss" /\ Completes(2, m) /\ Shares(2, Filled(2, m)) = Mine
  BY DEF Party, Garbler, ShamirToRssEvaluator, AcceptsShares, OnOneLine
<1>a. At(2) = 3
  BY <1>t, EvaluatorAt
<1>b. /\ HasBoth(2, Filled(2, m)) /\ Routed(2, m)
  BY <1>t DEF Completes, Fills
<1>c. /\ \A q \in Party \ {2} : /\ Filled(2, m)[q].kind = "ShamirToRss" /\ Filled(2, m)[q].from = q
                                /\ Filled(2, m)[q] \in InHand(2, m)
  <2>1. ASSUME NEW q \in Party \ {2}
        PROVE  /\ Collected(2, Filled(2, m)[q]) /\ Filled(2, m)[q].from = q
               /\ Filled(2, m)[q] \in InHand(2, m)
    BY <1>t, <1>b, InPair
  <2> QED BY <1>t, <2>1, CollectsTable DEF Collected
<1>d. \A q \in Garbler : 3 <= At(q)
  <2>1. ASSUME NEW q \in Garbler PROVE 3 <= At(q)
    <3>1. PICK e \in InHand(2, m) : e.kind = "ShamirToRss" /\ e.from = q
      BY <1>t, <1>c
    <3> QED BY <1>t, <3>1, InHandSent, Sent
  <2> QED BY <2>1
<1>1. /\ phase' = [phase EXCEPT ![2] = "EvaluatorWaitMsg1"] /\ slot' = [slot EXCEPT ![2] = NoSlots]
      /\ keyPrev' = keyPrev /\ ctx' = ctx /\ wires' = [wires EXCEPT !.own = Shares(2, Filled(2, m))]
  BY <1>t, EnteredFits DEF ShamirToRssEvaluator, Goto
<1>2. /\ phase'[2] = "EvaluatorWaitMsg1" /\ Stage(phase'[2]) = 4
      /\ \A q \in Party \ {2} : phase'[q] = phase[q] /\ Stage(phase'[q]) = At(q)
  BY <1>t, <1>1, OnlyOneMoves, Stages
<1>3. Takes(2, m, 4)
  <2>1. ASSUME NEW f \in Party, NEW k \in Kind, Sends(f, 2, k), At(2) <= TakenAt(k), TakenAt(k) < 4
        PROVE  k = Filled(2, m)[f].kind
    <3>1. TakenAt(k) = 3
      BY <1>a, <2>1, Taken
    <3>2. k = "ShamirToRss" /\ f # 2
      BY <2>1, <3>1, WhoTakes
    <3> QED BY <1>c, <3>2
  <2>2. \A q \in Party \ {2} : TakenAt(Filled(2, m)[q].kind) < 4
    BY <1>c, Taken
  <2> QED BY <1>t, <2>1, <2>2, PairTakes
<1>4. Delivers(2)
  <2>v. PICK v : v = [Blank EXCEPT !.own = Mine]
    OBVIOUS
  <2>1. v = Honest("EvaluatorBits")
    BY <2>v DEF Honest, HonestPayload, Blank, Mine
  <2>2. Post(ToEach(Garbler, 2, "EvaluatorBits", v))
    BY <2>v DEF ShamirToRssEvaluator
  <2>3. ASSUME NEW q \in Garbler PROVE Due(2, q, "EvaluatorBits", v)
    <3>1. Listed(2, q, "EvaluatorBits")
      BY <1>t DEF Listed
    <3>2. Sends(2, q, "EvaluatorBits")
      BY <3>1, SendsListed
    <3> QED BY <1>a, <1>d, <1>2, <2>1, <3>2, Sent, Floors DEF Due
  <2>4. ASSUME NEW q \in Party, NEW l \in Kind, Owes(2, q, l) PROVE q \in Garbler /\ l = "EvaluatorBits"
    <3>1. Sends(2, q, l) /\ SentAt(l) = 4
      BY <1>a, <1>2, <2>4, Sent DEF Owes
    <3>2. l = "EvaluatorBits" /\ Listed(2, q, l)
      BY <1>t, <3>1, WhoSends, SendsListed
    <3> QED BY <1>t, <3>2 DEF Listed
  <2>5. Garbler \in SUBSET Party /\ 2 \notin Garbler
    BY <1>t
  <2> QED BY <1>t, <2>2, <2>3, <2>4, <2>5, SendsEach
<1>5. Standing'
  <2>1. wires'.own = Mine /\ wires'.seed = wires.seed
    BY <1>t, <1>1, HandlerTypes DEF Wires
  <2>s. /\ Stage(phase[2]) = 3 /\ Stage(phase'[2]) = 4
        /\ Stage(phase'[0]) = Stage(phase[0]) /\ Stage(phase'[1]) = Stage(phase[1])
    BY <1>t, <1>a, <1>2 DEF At
  <2>2. Setups'
    BY <1>t, <1>1, <2>s DEF Standing, Setups, At, Mine
  <2>3. Streams'
    BY <1>t, <1>1, <1>2 DEF Standing, Streams, At
  <2>4. Paired'
    BY <1>t, <1>a, <1>1, <1>2 DEF Standing, Paired, At, Mine
  <2>5. Wired'
    BY <1>2, <2>1 DEF Standing, Wired, At, Mine
  <2> QED BY <2>2, <2>3, <2>4, <2>5 DEF Standing
<1> QED BY <1>a, <1>1, <1>2, <1>3, <1>4, <1>5 DEF Forward

\* A garbler opens its labels, and garbles.
LEMMA GarblerEvalBitsForward ==
  ASSUME IInv, NEW p \in Party, NEW m \in Buf(p), m \in ToSet(pending[p]),
         \A q \in Party : Orderly(q), Standing, GarblerEvalBits(p, m)
  PROVE  Forward(p, m)
<1>g. phase[p] = "GarblerWaitEvalBits" /\ m.from = 2 /\ m.kind = "EvaluatorBits"
  BY DEF GarblerEvalBits, AcceptsEvalBits
<1>t. /\ Party = {0, 1, 2} /\ Garbler = {0, 1} /\ p \in Garbler /\ p \in {0, 1} /\ 2 \in Party \ {p}
  BY <1>g, EvaluatorAt DEF Party, Garbler
<1>a. At(p) = 4 /\ m.val.own = Mine /\ 4 <= At(2)
  BY <1>g, <1>t, Buffered, HonestFields, GarblerAt, Sent DEF Regular
<1>1. /\ phase' = [phase EXCEPT ![p] = "GarblerWaitLabel"] /\ slot' = [slot EXCEPT ![p] = NoSlots]
      /\ keyPrev' = keyPrev /\ wires' = wires /\ Advance(p, 2)
  BY HandlerTypes, OtherDraws DEF GarblerEvalBits, Goto, DataTypes
<1>2. /\ phase'[p] = "GarblerWaitLabel" /\ Stage(phase'[p]) = 7
      /\ \A q \in Party \ {p} : phase'[q] = phase[q] /\ Stage(phase'[q]) = At(q)
  BY <1>1, OnlyOneMoves, Stages
<1>s. ctx[p].crs = Mine /\ ctx[p].seed = Mine /\ ctx[p].prf = 1
  BY <1>t, <1>a DEF Standing, Setups, Streams
<1>3. Takes(p, m, 7)
  <2>1. ASSUME NEW f \in Party, NEW k \in Kind, Sends(f, p, k), At(p) <= TakenAt(k), TakenAt(k) < 7
        PROVE  f = m.from /\ k = m.kind
    <3>1. TakenAt(k) \in {4, 5, 6}
      BY <1>a, <2>1, Taken
    <3> QED BY <1>g, <1>t, <2>1, <3>1, WhoTakes
  <2>2. Collects(phase[p]) = {} /\ TakenAt(m.kind) < 7
    BY <1>g, CollectsTable, Taken
  <2> QED BY <1>t, <2>1, <2>2, AloneTakes
<1>4. Delivers(p)
  <2>j. PICK j : j = IF p = 0 THEN "Hash" ELSE "GarbledTables"
    OBVIOUS
  <2>v. PICK v : v = [Blank EXCEPT !.crs = ctx[p].crs, !.seed = ctx[p].seed,
                                   !.prf = ctx[p].prf, !.own = m.val.own]
    OBVIOUS
  <2>w. PICK w : w = [Blank EXCEPT !.seed = ctx[p].seed, !.prf = ctx[p].prf + 1]
    OBVIOUS
  <2>1. v = Honest("GarblerI3Commit")
    BY <1>a, <1>s, <2>v DEF Honest, HonestPayload, Blank, Mine
  <2>2. w = Honest(j)
    <3>1. ctx[p].prf + 1 = 2
      BY <1>s
    <3>2. w = [Blank EXCEPT !.seed = Mine, !.prf = 2]
      BY <1>s, <2>w, <3>1
    <3> QED BY <2>j, <3>2 DEF Honest, HonestPayload, Blank, Mine
  <2>y. PICK y : y = <<Msg(p, 2, "GarblerI3Commit", v), Msg(p, 2, j, w)>>
    OBVIOUS
  <2>3. Gives(p, 2, y)
    <3>1. Listed(p, 2, "GarblerI3Commit") /\ Listed(p, 2, j)
      BY <1>t, <2>j DEF Listed
    <3>2. Sends(p, 2, "GarblerI3Commit") /\ Sends(p, 2, j)
      BY <3>1, SendsListed
    <3>3. SentAt(j) = 7 /\ Floor(p, 2, j) = 4 /\ j # "GarblerI3Commit"
      BY <2>j, Sent, Floors
    <3>4. Due(p, 2, "GarblerI3Commit", v) /\ Due(p, 2, j, w)
      BY <1>a, <1>2, <2>1, <2>2, <3>2, <3>3, Sent, Floors DEF Due
    <3>5. ASSUME NEW l \in Kind, Owes(p, 2, l) PROVE l \in {j, "GarblerI3Commit"}
      <4>1. Sends(p, 2, l) /\ SentAt(l) \in {5, 6, 7}
        BY <1>a, <1>2, <3>5, Sent DEF Owes
      <4> QED BY <1>t, <2>j, <4>1, WhoSends
    <3> QED BY <1>t, <2>y, <3>3, <3>4, <3>5, TwoGiven
  <2>o. PICK out : out = [q \in Party |-> IF q # 2 THEN <<>> ELSE
          <<Msg(p, 2, "GarblerI3Commit",
                [Blank EXCEPT !.crs = ctx[p].crs, !.seed = ctx[p].seed,
                              !.prf = ctx[p].prf, !.own = m.val.own]),
            Msg(p, 2, IF p = 0 THEN "Hash" ELSE "GarbledTables",
                [Blank EXCEPT !.seed = ctx[p].seed, !.prf = ctx[p].prf + 1])>>]
    OBVIOUS
  <2>4. out[2] = y /\ \A q \in Party \ {2} : out[q] = <<>>
    BY <1>t, <2>j, <2>v, <2>w, <2>y, <2>o
  <2>5. /\ inbox'[2] = inbox[2] \o y
        /\ \A q \in Party \ {2} : inbox'[q] = inbox[q] \o <<>>
    <3>1. Post(out)
      BY <2>o, HandlerTypes, OtherDraws DEF DataTypes
    <3> QED BY <1>t, <2>4, <3>1 DEF Post
  <2>6. \A q \in Party \ {2} : inbox'[q] = inbox[q]
    <3>1. \A q \in Party : inbox[q] \in Seq(Message)
      BY DEF IInv, InboxTypes
    <3> QED BY <2>5, <3>1, ConcatEmptySeq
  <2>7. ASSUME NEW q \in Party \ {p} PROVE \E z : Gives(p, q, z) /\ inbox'[q] = inbox[q] \o z
    <3>1. CASE q = 2
      BY <2>3, <2>5, <3>1
    <3>2. CASE q # 2
      <4>1. ASSUME NEW l \in Kind, Sends(p, q, l), Stage(phase'[p]) # 10, At(p) < SentAt(l)
            PROVE  ~(SentAt(l) <= Stage(phase'[p]))
        <5>1. SUFFICES ASSUME SentAt(l) <= Stage(phase'[p]) PROVE FALSE
          OBVIOUS
        <5>2. SentAt(l) \in {5, 6, 7}
          BY <1>a, <1>2, <4>1, <5>1, Sent
        <5> QED BY <1>t, <3>2, <4>1, <5>2, WhoSends
      <4> QED BY <2>6, <3>2, <4>1, NoneGiven
    <3> QED BY <3>1, <3>2
  <2> QED BY <1>t, <2>6, <2>7 DEF Delivers
<1>5. Standing'
  <2>1. /\ \A q \in Party : ctx'[q].crs = ctx[q].crs /\ ctx'[q].seed = ctx[q].seed
        /\ \A q \in Party \ {p} : ctx'[q].prf = ctx[q].prf
    <3>1. \A q \in Party : /\ ctx'[q].crs = ctx[q].crs /\ ctx'[q].seed = ctx[q].seed
                           /\ ctx'[q].prf = IF q = p THEN ctx[q].prf + 2 ELSE ctx[q].prf
      BY <1>1, Advances
    <3> QED BY <3>1
  <2>s. /\ Stage(phase[p]) = 4 /\ Stage(phase'[p]) = 7
        /\ \A q \in Party \ {p} : Stage(phase'[q]) = Stage(phase[q])
    BY <1>a, <1>2 DEF At
  <2>2. Setups'
    BY <1>t, <2>1, <2>s DEF Standing, Setups, At, Mine
  <2>3. Streams'
    BY <1>t, <2>1, <2>s DEF Standing, Streams, At, Garbler
  <2>4. Paired'
    BY <1>1, <2>s DEF Standing, Paired, At, Mine
  <2>5. Wired'
    BY <1>t, <1>1, <2>s DEF Standing, Wired, At, Mine
  <2> QED BY <2>2, <2>3, <2>4, <2>5 DEF Standing
<1> QED BY <1>a, <1>1, <1>2, <1>3, <1>4, <1>5 DEF Forward

\* A pair of the evaluator takes all that its next stages take, when these
\* take what the pair is.
LEMMA EvaluatorPairTakes ==
  ASSUME IInv, Orderly(2), NEW m \in Buf(2), m \in ToSet(pending[2]), Completes(2, m),
         NEW n \in 0..8, At(2) = n, n \in {4, 5, 6, 7, 8}, NEW i, NEW j,
         TakenAt(i) = n, TakenAt(j) = n,
         Filled(2, m)[0].kind = i, Filled(2, m)[1].kind = j,
         \A k \in Kind : TakenAt(k) = n => /\ Sends(0, 2, k) => k = i
                                           /\ Sends(1, 2, k) => k = j
  PROVE  Takes(2, m, n + 1)
<1>1. Party = {0, 1, 2} /\ 2 \in Party /\ n + 1 \in 0..9
  BY DEF Party
<1>2. \A q \in Party \ {2} : TakenAt(Filled(2, m)[q].kind) < n + 1
  BY <1>1
<1>3. ASSUME NEW f \in Party, NEW k \in Kind, Sends(f, 2, k), At(2) <= TakenAt(k), TakenAt(k) < n + 1
      PROVE  k = Filled(2, m)[f].kind
  <2>1. TakenAt(k) = n
    BY <1>3, Taken
  <2>2. f # 2
    BY <1>3, WhoTakes
  <2> QED BY <1>1, <1>3, <2>1, <2>2
<1>4. PICK l : l = n + 1
  OBVIOUS
<1>5. /\ l \in 0..9 /\ \A q \in Party \ {2} : TakenAt(Filled(2, m)[q].kind) < l
      /\ \A f \in Party, k \in Kind : Sends(f, 2, k) /\ At(2) <= TakenAt(k) /\ TakenAt(k) < l
           => k = Filled(2, m)[f].kind
  BY <1>1, <1>2, <1>3, <1>4
<1>6. Takes(2, m, l)
  BY <1>1, <1>5, PairTakes
<1> QED BY <1>4, <1>6

\* The stages of the others stay, and what stands of them.
LEMMA OthersStand ==
  ASSUME Standing, NEW a, NEW b, Stage(phase[2]) = a, Stage(phase'[2]) = b,
         a \in 4..8, b \in 4..9, a < b,
         Stage(phase'[0]) = Stage(phase[0]), Stage(phase'[1]) = Stage(phase[1]),
         ctx' = ctx, keyPrev' = keyPrev, wires'.own = Mine, wires'.seed = Mine
  PROVE  Standing'
<1>t. Party = {0, 1, 2} /\ Garbler = {0, 1}
  BY DEF Party, Garbler
<1>1. Setups'
  BY DEF Standing, Setups, At, Mine
<1>2. Streams'
  BY <1>t DEF Standing, Streams, At
<1>3. Paired'
  BY <1>t DEF Standing, Paired, At, Mine
<1>4. Wired'
  BY DEF Standing, Wired, At, Mine
<1> QED BY <1>1, <1>2, <1>3, <1>4 DEF Standing

\* The evaluator takes the garblers' commitments.
LEMMA EvaluatorMsg1Forward ==
  ASSUME IInv, NEW m \in Buf(2), m \in ToSet(pending[2]),
         \A q \in Party : Orderly(q), Standing, EvaluatorMsg1(m)
  PROVE  Forward(2, m)
<1>t. /\ Party = {0, 1, 2} /\ Garbler = {0, 1} /\ 2 \in Party
      /\ phase[2] = "EvaluatorWaitMsg1" /\ Completes(2, m)
  BY DEF Party, Garbler, EvaluatorMsg1, AcceptsMsg1
<1>a. At(2) = 4 /\ wires.own = Mine
  BY <1>t, EvaluatorAt DEF Standing, Wired
<1>b. /\ HasBoth(2, Filled(2, m)) /\ Routed(2, m)
      /\ Filled(2, m)[0].kind = "GarblerInputCommit" /\ Filled(2, m)[1].kind = "GarblerInputCommit"
  BY <1>t DEF Completes, Fills, Unmatched, KindsAre
<1>c. \A q \in Garbler : Filled(2, m)[q].val = Honest("GarblerInputCommit")
  BY <1>t, <1>b, EvaluatorPair
<1>1. /\ phase' = [phase EXCEPT ![2] = "EvaluatorWaitMsg2"] /\ slot' = [slot EXCEPT ![2] = NoSlots]
      /\ keyPrev' = keyPrev /\ ctx' = ctx /\ inbox' = inbox
      /\ wires' = [seed |-> Filled(2, m)[0].val.seed,
                   own |-> wires.own \cup Filled(2, m)[0].val.own \cup Filled(2, m)[1].val.own]
  BY DEF EvaluatorMsg1, Goto
<1>2. /\ phase'[2] = "EvaluatorWaitMsg2" /\ Stage(phase'[2]) = 5
      /\ \A q \in Party \ {2} : phase'[q] = phase[q] /\ Stage(phase'[q]) = At(q)
  BY <1>t, <1>1, OnlyOneMoves, Stages
<1>3. Takes(2, m, 5)
  <2>1. TakenAt("GarblerInputCommit") = 4
    BY Taken
  <2>2. \A k \in Kind : TakenAt(k) = 4 => /\ Sends(0, 2, k) => k = "GarblerInputCommit"
                                          /\ Sends(1, 2, k) => k = "GarblerInputCommit"
    BY <1>t, WhoTakes
  <2>3. Takes(2, m, 4 + 1)
    BY <1>t, <1>a, <1>b, <2>1, <2>2, EvaluatorPairTakes
  <2> QED BY <2>3
<1>4. Delivers(2)
  <2>1. ASSUME NEW q \in Party, NEW k \in Kind, Owes(2, q, k) PROVE FALSE
    <3>1. SentAt(k) = 5 /\ Sends(2, q, k)
      BY <1>a, <1>2, <2>1, Sent DEF Owes
    <3> QED BY <3>1, WhoSends
  <2> QED BY <1>t, <1>1, <2>1, QuietDelivers
<1>5. Standing'
  <2>1. wires'.own = Mine /\ wires'.seed = Mine
    BY <1>t, <1>a, <1>c, <1>1, HonestFields
  <2> QED BY <1>t, <1>a, <1>1, <1>2, <2>1, OthersStand DEF At
<1> QED BY <1>a, <1>1, <1>2, <1>3, <1>4, <1>5 DEF Forward

\* It takes the openings of its own inputs.
LEMMA EvaluatorMsg2Forward ==
  ASSUME IInv, NEW m \in Buf(2), m \in ToSet(pending[2]),
         \A q \in Party : Orderly(q), Standing, EvaluatorMsg2(m)
  PROVE  Forward(2, m)
<1>t. /\ Party = {0, 1, 2} /\ Garbler = {0, 1} /\ 2 \in Party
      /\ phase[2] = "EvaluatorWaitMsg2" /\ Completes(2, m)
  BY DEF Party, Garbler, EvaluatorMsg2, AcceptsMsg2
<1>a. At(2) = 5 /\ wires.own = Mine /\ wires.seed = Mine
  BY <1>t, EvaluatorAt DEF Standing, Wired
<1>b. /\ HasBoth(2, Filled(2, m)) /\ Routed(2, m)
      /\ Filled(2, m)[0].kind = "GarblerI3Commit" /\ Filled(2, m)[1].kind = "GarblerI3Commit"
  BY <1>t DEF Completes, Fills, Unmatched, KindsAre
<1>c. \A q \in Garbler : Filled(2, m)[q].val = Honest("GarblerI3Commit")
  BY <1>t, <1>b, EvaluatorPair
<1>1. /\ phase' = [phase EXCEPT ![2] = "CircuitEval"] /\ slot' = [slot EXCEPT ![2] = NoSlots]
      /\ keyPrev' = keyPrev /\ ctx' = ctx /\ inbox' = inbox
      /\ wires' = [wires EXCEPT !.seed = @ \cup Filled(2, m)[0].val.seed]
  BY DEF EvaluatorMsg2, Goto
<1>2. /\ phase'[2] = "CircuitEval" /\ Stage(phase'[2]) = 6
      /\ \A q \in Party \ {2} : phase'[q] = phase[q] /\ Stage(phase'[q]) = At(q)
  BY <1>t, <1>1, OnlyOneMoves, Stages
<1>3. Takes(2, m, 6)
  <2>1. TakenAt("GarblerI3Commit") = 5
    BY Taken
  <2>2. \A k \in Kind : TakenAt(k) = 5 => /\ Sends(0, 2, k) => k = "GarblerI3Commit"
                                          /\ Sends(1, 2, k) => k = "GarblerI3Commit"
    BY <1>t, WhoTakes
  <2>3. Takes(2, m, 5 + 1)
    BY <1>t, <1>a, <1>b, <2>1, <2>2, EvaluatorPairTakes
  <2> QED BY <2>3
<1>4. Delivers(2)
  <2>1. ASSUME NEW q \in Party, NEW k \in Kind, Owes(2, q, k) PROVE FALSE
    <3>1. SentAt(k) = 6 /\ Sends(2, q, k)
      BY <1>a, <1>2, <2>1, Sent DEF Owes
    <3> QED BY <3>1, WhoSends
  <2> QED BY <1>t, <1>1, <2>1, QuietDelivers
<1>5. Standing'
  <2>1. wires'.own = Mine /\ wires'.seed = Mine
    BY <1>t, <1>a, <1>c, <1>1, HonestFields, HandlerTypes DEF Wires
  <2> QED BY <1>t, <1>a, <1>1, <1>2, <2>1, OthersStand DEF At
<1> QED BY <1>a, <1>1, <1>2, <1>3, <1>4, <1>5 DEF Forward

\* It evaluates, and asks both garblers, who have garbled, for the check bit.
LEMMA EvaluateCircuitForward ==
  ASSUME IInv, NEW m \in Buf(2), m \in ToSet(pending[2]),
         \A q \in Party : Orderly(q), Standing, EvaluateCircuit(m)
  PROVE  Forward(2, m)
<1>t. /\ Party = {0, 1, 2} /\ Garbler = {0, 1} /\ 2 \in Party
      /\ phase[2] = "CircuitEval" /\ Completes(2, m)
  BY DEF Party, Garbler, EvaluateCircuit, AcceptsTables
<1>a. At(2) = 6 /\ wires.own = Mine /\ wires.seed = Mine /\ ctx[2].seed = Mine
  BY <1>t, EvaluatorAt DEF Standing, Wired, Setups
<1>b. HasBoth(2, Filled(2, m)) /\ Routed(2, m)
  BY <1>t DEF Completes, Fills
<1>c. /\ Filled(2, m)[0].kind = "Hash" /\ Filled(2, m)[1].kind = "GarbledTables"
      /\ Filled(2, m)[1].val.seed = Mine
      /\ \A q \in Garbler : Filled(2, m)[q].from = q /\ Filled(2, m)[q] \in InHand(2, m)
  <2>1. \A q \in Garbler :
          /\ Filled(2, m)[q].from = q /\ Filled(2, m)[q].val = Honest(Filled(2, m)[q].kind)
          /\ Filled(2, m)[q] \in InHand(2, m)
          /\ Filled(2, m)[q].kind = IF q = 0 THEN "Hash" ELSE "GarbledTables"
    BY <1>t, <1>b, EvaluatorPair
  <2> QED BY <1>t, <2>1, HonestFields
<1>d. \A q \in Garbler : 7 <= At(q)
  <2>1. ASSUME NEW q \in Garbler PROVE 7 <= At(q)
    <3>1. PICK e \in InHand(2, m) : e.kind \in {"Hash", "GarbledTables"} /\ e.from = q
      BY <1>t, <1>c
    <3> QED BY <1>t, <3>1, InHandSent, Sent
  <2> QED BY <2>1
<1>1. /\ phase' = [phase EXCEPT ![2] = "EvaluatorWaitBit"] /\ slot' = [slot EXCEPT ![2] = NoSlots]
      /\ keyPrev' = keyPrev /\ ctx' = ctx
      /\ wires' = [wires EXCEPT !.seed = @ \cup Filled(2, m)[1].val.seed \cup ctx[2].seed]
  BY DEF EvaluateCircuit, Goto
<1>2. /\ phase'[2] = "EvaluatorWaitBit" /\ Stage(phase'[2]) = 7
      /\ \A q \in Party \ {2} : phase'[q] = phase[q] /\ Stage(phase'[q]) = At(q)
  BY <1>t, <1>1, OnlyOneMoves, Stages
<1>w. wires'.own = Mine /\ wires'.seed = Mine
  BY <1>a, <1>c, <1>1, HandlerTypes DEF Wires
<1>3. Takes(2, m, 7)
  <2>1. TakenAt("Hash") = 6 /\ TakenAt("GarbledTables") = 6
    BY Taken
  <2>2. \A k \in Kind : TakenAt(k) = 6 => /\ Sends(0, 2, k) => k = "Hash"
                                          /\ Sends(1, 2, k) => k = "GarbledTables"
    BY <1>t, WhoTakes
  <2>3. Takes(2, m, 6 + 1)
    BY <1>t, <1>a, <1>c, <2>1, <2>2, EvaluatorPairTakes
  <2> QED BY <2>3
<1>4. Delivers(2)
  <2>v. PICK v : v = [Blank EXCEPT !.seed = wires'.seed, !.own = wires'.own]
    OBVIOUS
  <2>1. v = Honest("Label")
    BY <1>w, <2>v DEF Honest, HonestPayload, Blank, Mine
  <2>2. Post(ToEach(Garbler, 2, "Label", v))
    BY <2>v DEF EvaluateCircuit
  <2>3. ASSUME NEW q \in Garbler PROVE Due(2, q, "Label", v)
    <3>1. Listed(2, q, "Label")
      BY <1>t DEF Listed
    <3>2. Sends(2, q, "Label")
      BY <3>1, SendsListed
    <3> QED BY <1>a, <1>d, <1>2, <2>1, <3>2, Sent, Floors DEF Due
  <2>4. ASSUME NEW q \in Party, NEW l \in Kind, Owes(2, q, l) PROVE q \in Garbler /\ l = "Label"
    <3>1. Sends(2, q, l) /\ SentAt(l) = 7
      BY <1>a, <1>2, <2>4, Sent DEF Owes
    <3>2. l = "Label" /\ Listed(2, q, l)
      BY <1>t, <3>1, WhoSends, SendsListed
    <3> QED BY <1>t, <3>2 DEF Listed
  <2>5. Garbler \in SUBSET Party /\ 2 \notin Garbler
    BY <1>t
  <2> QED BY <1>t, <2>2, <2>3, <2>4, <2>5, SendsEach
<1>5. Standing'
  BY <1>t, <1>a, <1>1, <1>2, <1>w, OthersStand DEF At
<1> QED BY <1>a, <1>1, <1>2, <1>3, <1>4, <1>5 DEF Forward

-----------------------------------------------------------------------------
(* The handlers: the output.                                               *)

\* What stands when a garbler goes on past its use of the label stream.
LEMMA GarblerStands ==
  ASSUME Standing, NEW p \in Garbler, NEW a, NEW b, Stage(phase[p]) = a, Stage(phase'[p]) = b,
         a \in 5..8, b \in 5..9, a < b,
         \A q \in Party \ {p} : Stage(phase'[q]) = Stage(phase[q]),
         ctx' = ctx, keyPrev' = keyPrev, wires' = wires
  PROVE  Standing'
<1>t. Party = {0, 1, 2} /\ Garbler = {0, 1}
  BY DEF Party, Garbler
<1>1. Setups'
  BY <1>t DEF Standing, Setups, At, Mine
<1>2. Streams'
  BY <1>t DEF Standing, Streams, At
<1>3. Paired'
  BY <1>t DEF Standing, Paired, At, Mine
<1>4. Wired'
  BY <1>t DEF Standing, Wired, At, Mine
<1> QED BY <1>1, <1>2, <1>3, <1>4 DEF Standing

\* The check bit.
LEMMA GarblerVerifyForward ==
  ASSUME IInv, NEW p \in Party, NEW m \in Buf(p), m \in ToSet(pending[p]),
         \A q \in Party : Orderly(q), Standing, GarblerVerify(p, m)
  PROVE  Forward(p, m)
<1>g. phase[p] = "GarblerWaitLabel" /\ m.from = 2 /\ m.kind = "Label"
  BY DEF GarblerVerify, AcceptsLabel, ReadsLabel
<1>t. /\ Party = {0, 1, 2} /\ Garbler = {0, 1} /\ p \in Garbler /\ p \in {0, 1} /\ 2 \in Party \ {p}
  BY <1>g, EvaluatorAt DEF Party, Garbler
<1>a. At(p) = 7 /\ 7 <= At(2)
  BY <1>g, <1>t, Buffered, GarblerAt, Sent DEF Regular
<1>1. /\ phase' = [phase EXCEPT ![p] = "GarblerWaitLabels"] /\ slot' = [slot EXCEPT ![p] = NoSlots]
      /\ keyPrev' = keyPrev /\ wires' = wires /\ ctx' = ctx
  BY DEF GarblerVerify, Goto
<1>2. /\ phase'[p] = "GarblerWaitLabels" /\ Stage(phase'[p]) = 8
      /\ \A q \in Party \ {p} : phase'[q] = phase[q] /\ Stage(phase'[q]) = At(q)
  BY <1>1, OnlyOneMoves, Stages
<1>3. Takes(p, m, 8)
  <2>1. ASSUME NEW f \in Party, NEW k \in Kind, Sends(f, p, k), At(p) <= TakenAt(k), TakenAt(k) < 8
        PROVE  f = m.from /\ k = m.kind
    <3>1. TakenAt(k) = 7
      BY <1>a, <2>1, Taken
    <3> QED BY <1>g, <1>t, <2>1, <3>1, WhoTakes
  <2>2. Collects(phase[p]) = {} /\ TakenAt(m.kind) < 8
    BY <1>g, CollectsTable, Taken
  <2> QED BY <1>t, <2>1, <2>2, AloneTakes
<1>4. Delivers(p)
  <2>v. PICK v : v = [Blank EXCEPT !.bit = TRUE]
    OBVIOUS
  <2>1. v = Honest("Bit")
    BY <2>v DEF Honest, HonestPayload, Blank, Mine
  <2>2. Post(To(2, Msg(p, 2, "Bit", v)))
    BY <2>v DEF GarblerVerify
  <2>3. Due(p, 2, "Bit", v)
    <3>1. Listed(p, 2, "Bit")
      BY <1>t DEF Listed
    <3>2. Sends(p, 2, "Bit")
      BY <3>1, SendsListed
    <3> QED BY <1>a, <1>2, <2>1, <3>2, Sent, Floors DEF Due
  <2>4. ASSUME NEW q \in Party, NEW l \in Kind, Owes(p, q, l) PROVE q = 2 /\ l = "Bit"
    <3>1. Sends(p, q, l) /\ SentAt(l) = 8
      BY <1>a, <1>2, <2>4, Sent DEF Owes
    <3> QED BY <1>t, <3>1, WhoSends
  <2> QED BY <1>t, <2>2, <2>3, <2>4, SendsOne
<1>5. Standing'
  BY <1>t, <1>a, <1>1, <1>2, GarblerStands DEF At
<1> QED BY <1>a, <1>1, <1>2, <1>3, <1>4, <1>5 DEF Forward

\* The output labels.
LEMMA EvaluatorVerifiedForward ==
  ASSUME IInv, NEW m \in Buf(2), m \in ToSet(pending[2]),
         \A q \in Party : Orderly(q), Standing, EvaluatorVerified(m)
  PROVE  Forward(2, m)
<1>t. /\ Party = {0, 1, 2} /\ Garbler = {0, 1} /\ 2 \in Party
      /\ phase[2] = "EvaluatorWaitBit" /\ Completes(2, m)
  BY DEF Party, Garbler, EvaluatorVerified, AcceptsBit
<1>a. At(2) = 7 /\ wires.own = Mine /\ wires.seed = Mine
  BY <1>t, EvaluatorAt DEF Standing, Wired
<1>b. HasBoth(2, Filled(2, m)) /\ Routed(2, m)
  BY <1>t DEF Completes, Fills
<1>c. \A q \in Garbler : /\ Filled(2, m)[q].kind = "Bit" /\ Filled(2, m)[q].from = q
                         /\ Filled(2, m)[q] \in InHand(2, m)
  BY <1>t, <1>b, EvaluatorPair
<1>d. \A q \in Garbler : 8 <= At(q)
  <2>1. ASSUME NEW q \in Garbler PROVE 8 <= At(q)
    <3>1. PICK e \in InHand(2, m) : e.kind = "Bit" /\ e.from = q
      BY <1>c
    <3> QED BY <1>t, <3>1, InHandSent, Sent
  <2> QED BY <2>1
<1>1. /\ phase' = [phase EXCEPT ![2] = "EvaluatorWaitBits"] /\ slot' = [slot EXCEPT ![2] = NoSlots]
      /\ keyPrev' = keyPrev /\ ctx' = ctx /\ wires' = wires
  BY DEF EvaluatorVerified, Goto
<1>2. /\ phase'[2] = "EvaluatorWaitBits" /\ Stage(phase'[2]) = 8
      /\ \A q \in Party \ {2} : phase'[q] = phase[q] /\ Stage(phase'[q]) = At(q)
  BY <1>t, <1>1, OnlyOneMoves, Stages
<1>3. Takes(2, m, 8)
  <2>1. TakenAt("Bit") = 7
    BY Taken
  <2>2. \A k \in Kind : TakenAt(k) = 7 => /\ Sends(0, 2, k) => k = "Bit"
                                          /\ Sends(1, 2, k) => k = "Bit"
    BY <1>t, WhoTakes
  <2>3. Filled(2, m)[0].kind = "Bit" /\ Filled(2, m)[1].kind = "Bit"
    BY <1>t, <1>c
  <2>4. Takes(2, m, 7 + 1)
    BY <1>t, <1>a, <2>1, <2>2, <2>3, EvaluatorPairTakes
  <2> QED BY <2>4
<1>4. Delivers(2)
  <2>v. PICK v : v = [Blank EXCEPT !.seed = wires.seed, !.own = wires.own]
    OBVIOUS
  <2>1. v = Honest("Labels")
    BY <1>a, <2>v DEF Honest, HonestPayload, Blank, Mine
  <2>2. Post(ToEach(Garbler, 2, "Labels", v))
    BY <2>v DEF EvaluatorVerified
  <2>3. ASSUME NEW q \in Garbler PROVE Due(2, q, "Labels", v)
    <3>1. Listed(2, q, "Labels")
      BY <1>t DEF Listed
    <3>2. Sends(2, q, "Labels")
      BY <3>1, SendsListed
    <3> QED BY <1>a, <1>d, <1>2, <2>1, <3>2, Sent, Floors DEF Due
  <2>4. ASSUME NEW q \in Party, NEW l \in Kind, Owes(2, q, l) PROVE q \in Garbler /\ l = "Labels"
    <3>1. Sends(2, q, l) /\ SentAt(l) = 8
      BY <1>a, <1>2, <2>4, Sent DEF Owes
    <3>2. l = "Labels" /\ Listed(2, q, l)
      BY <1>t, <3>1, WhoSends, SendsListed
    <3> QED BY <1>t, <3>2 DEF Listed
  <2>5. Garbler \in SUBSET Party /\ 2 \notin Garbler
    BY <1>t
  <2> QED BY <1>t, <2>2, <2>3, <2>4, <2>5, SendsEach
<1>5. Standing'
  BY <1>t, <1>a, <1>1, <1>2, OthersStand DEF At
<1> QED BY <1>a, <1>1, <1>2, <1>3, <1>4, <1>5 DEF Forward

\* A garbler ends.
LEMMA GarblerDecodeForward ==
  ASSUME IInv, NEW p \in Party, NEW m \in Buf(p), m \in ToSet(pending[p]),
         \A q \in Party : Orderly(q), Standing, GarblerDecode(p, m)
  PROVE  Forward(p, m)
<1>g. phase[p] = "GarblerWaitLabels" /\ m.from = 2 /\ m.kind = "Labels"
  BY DEF GarblerDecode, AcceptsLabels
<1>t. /\ Party = {0, 1, 2} /\ Garbler = {0, 1} /\ p \in Garbler /\ p \in {0, 1} /\ 2 \in Party \ {p}
  BY <1>g, EvaluatorAt DEF Party, Garbler
<1>a. At(p) = 8 /\ 8 <= At(2) /\ m.val.own = Mine
  BY <1>g, <1>t, Buffered, HonestFields, GarblerAt, Sent DEF Regular
<1>1. /\ phase' = [phase EXCEPT ![p] = "Done"] /\ slot' = [slot EXCEPT ![p] = NoSlots]
      /\ keyPrev' = keyPrev /\ wires' = wires /\ ctx' = ctx
  BY DEF GarblerDecode, Goto
<1>2. /\ phase'[p] = "Done" /\ Stage(phase'[p]) = 9
      /\ \A q \in Party \ {p} : phase'[q] = phase[q] /\ Stage(phase'[q]) = At(q)
  BY <1>1, OnlyOneMoves, Stages
<1>3. Takes(p, m, 9)
  <2>1. ASSUME NEW f \in Party, NEW k \in Kind, Sends(f, p, k), At(p) <= TakenAt(k), TakenAt(k) < 9
        PROVE  f = m.from /\ k = m.kind
    <3>1. TakenAt(k) = 8
      BY <1>a, <2>1, Taken
    <3> QED BY <1>g, <1>t, <2>1, <3>1, WhoTakes
  <2>2. Collects(phase[p]) = {} /\ TakenAt(m.kind) < 9
    BY <1>g, CollectsTable, Taken
  <2> QED BY <1>t, <2>1, <2>2, AloneTakes
<1>4. Delivers(p)
  <2>v. PICK v : v = [Blank EXCEPT !.own = m.val.own]
    OBVIOUS
  <2>1. v = Honest("Bits")
    BY <1>a, <2>v DEF Honest, HonestPayload, Blank, Mine
  <2>2. Post(To(2, Msg(p, 2, "Bits", v)))
    BY <2>v DEF GarblerDecode
  <2>3. Due(p, 2, "Bits", v)
    <3>1. Listed(p, 2, "Bits")
      BY <1>t DEF Listed
    <3>2. Sends(p, 2, "Bits")
      BY <3>1, SendsListed
    <3> QED BY <1>a, <1>2, <2>1, <3>2, Sent, Floors DEF Due
  <2>4. ASSUME NEW q \in Party, NEW l \in Kind, Owes(p, q, l) PROVE q = 2 /\ l = "Bits"
    <3>1. Sends(p, q, l) /\ SentAt(l) = 9
      BY <1>a, <1>2, <2>4, Sent DEF Owes
    <3>2. Listed(p, q, l)
      BY <3>1, SendsListed
    <3> QED BY <1>t, <3>1, <3>2, Sent DEF Listed
  <2> QED BY <1>t, <2>2, <2>3, <2>4, SendsOne
<1>5. Standing'
  BY <1>t, <1>a, <1>1, <1>2, GarblerStands DEF At
<1> QED BY <1>a, <1>1, <1>2, <1>3, <1>4, <1>5 DEF Forward

\* The evaluator ends.
LEMMA EvaluatorDecodeForward ==
  ASSUME IInv, NEW m \in Buf(2), m \in ToSet(pending[2]),
         \A q \in Party : Orderly(q), Standing, EvaluatorDecode(m)
  PROVE  Forward(2, m)
<1>t. /\ Party = {0, 1, 2} /\ Garbler = {0, 1} /\ 2 \in Party
      /\ phase[2] = "EvaluatorWaitBits" /\ Completes(2, m)
  BY DEF Party, Garbler, EvaluatorDecode, AcceptsBits
<1>a. At(2) = 8 /\ wires.own = Mine /\ wires.seed = Mine
  BY <1>t, EvaluatorAt DEF Standing, Wired
<1>b. HasBoth(2, Filled(2, m)) /\ Routed(2, m)
  BY <1>t DEF Completes, Fills
<1>c. \A q \in Garbler : Filled(2, m)[q].kind = "Bits"
  BY <1>t, <1>b, EvaluatorPair
<1>1. /\ phase' = [phase EXCEPT ![2] = "Done"] /\ slot' = [slot EXCEPT ![2] = NoSlots]
      /\ keyPrev' = keyPrev /\ ctx' = ctx /\ wires' = wires /\ inbox' = inbox
  BY DEF EvaluatorDecode, Goto
<1>2. /\ phase'[2] = "Done" /\ Stage(phase'[2]) = 9
      /\ \A q \in Party \ {2} : phase'[q] = phase[q] /\ Stage(phase'[q]) = At(q)
  BY <1>t, <1>1, OnlyOneMoves, Stages
<1>3. Takes(2, m, 9)
  <2>1. TakenAt("Bits") = 8
    BY Taken
  <2>2. \A k \in Kind : TakenAt(k) = 8 => /\ Sends(0, 2, k) => k = "Bits"
                                          /\ Sends(1, 2, k) => k = "Bits"
    BY <1>t, WhoTakes
  <2>3. Filled(2, m)[0].kind = "Bits" /\ Filled(2, m)[1].kind = "Bits"
    BY <1>t, <1>c
  <2>4. Takes(2, m, 8 + 1)
    BY <1>t, <1>a, <2>1, <2>2, <2>3, EvaluatorPairTakes
  <2> QED BY <2>4
<1>4. Delivers(2)
  <2>1. ASSUME NEW q \in Party, NEW k \in Kind, Owes(2, q, k) PROVE FALSE
    <3>1. SentAt(k) = 9 /\ Sends(2, q, k)
      BY <1>a, <1>2, <2>1, Sent DEF Owes
    <3> QED BY <1>t, <3>1, WhoSends
  <2> QED BY <1>t, <1>1, <2>1, QuietDelivers
<1>5. Standing'
  BY <1>t, <1>a, <1>1, <1>2, OthersStand DEF At
<1> QED BY <1>a, <1>1, <1>2, <1>3, <1>4, <1>5 DEF Forward

-----------------------------------------------------------------------------
(* The steps.                                                              *)

\* Every handler but the one that files a message goes on.
LEMMA HandleForward ==
  ASSUME IInv, Exchange, Misfit = Nobody,
         NEW p \in Party, NEW m \in Buf(p), m \in ToSet(pending[p]), Handle(p, m)
  PROVE  Forward(p, m) \/ StoreFirst(p, m)
<1>1. (\A q \in Party : Orderly(q)) /\ Standing
  BY DEF Exchange
<1>2. CASE p = 0 /\ SetupCrs0(m)
  BY <1>1, <1>2, SetupCrs0Forward
<1>3. CASE p = 1 /\ (SetupCrs1(m) \/ SetupPrf(m))
  BY <1>1, <1>3, SetupCrs1Forward, SetupPrfForward
<1>4. CASE p = 2 /\ (SetupGarbleKey(m) \/ ShamirToRssEvaluator(m) \/ EvaluatorMsg1(m))
  BY <1>1, <1>4, SetupGarbleKeyForward, ShamirToRssEvaluatorForward, EvaluatorMsg1Forward
<1>5. CASE p = 2 /\ (EvaluatorMsg2(m) \/ EvaluateCircuit(m))
  BY <1>1, <1>5, EvaluatorMsg2Forward, EvaluateCircuitForward
<1>6. CASE p = 2 /\ (EvaluatorVerified(m) \/ EvaluatorDecode(m))
  BY <1>1, <1>6, EvaluatorVerifiedForward, EvaluatorDecodeForward
<1>7. CASE CommonRandomness(p, m) \/ ShamirToRssGarbler(p, m)
  BY <1>1, <1>7, CommonRandomnessForward, ShamirToRssGarblerForward
<1>8. CASE GarblerEvalBits(p, m) \/ GarblerVerify(p, m) \/ GarblerDecode(p, m)
  BY <1>1, <1>8, GarblerEvalBitsForward, GarblerVerifyForward, GarblerDecodeForward
<1> QED BY <1>2, <1>3, <1>4, <1>5, <1>6, <1>7, <1>8 DEF Handle

\* A turn of the loop that handles a message.
LEMMA LoopHandleKeeps ==
  ASSUME IInv, IInv', Exchange, Misfit = Nobody, NEW p \in Party, LoopHandle(p)
  PROVE  Exchange'
<1>t. /\ pending[p] \in Seq(Buf(p)) /\ pending[p] \in Seq(Message) /\ phase' \in [Party -> PhaseName]
      /\ pending \in [Party -> Seq(Message)]
  BY DEF IInv, PendingTypes, SessionTypes, PhaseTypes
<1>1. PICK i \in DOMAIN pending[p] :
        /\ Handle(p, pending[p][i])
        /\ IF phase'[p] = "Done" THEN pending' = [pending EXCEPT ![p] = <<>>] ELSE Consume(p, i)
  BY DEF LoopHandle
<1>2. PICK m : m = pending[p][i]
  OBVIOUS
<1>3. rejected' = rejected /\ stopped' = stopped
  BY DEF LoopHandle, host
<1>4. m \in Buf(p) /\ m \in ToSet(pending[p])
  <2>1. m \in Buf(p)
    BY <1>t, <1>2, ElementOfSeq, LenProperties
  <2> QED BY <1>t, <1>2, <2>1, Elements
<1>5. Handle(p, m)
  BY <1>1, <1>2
<1>6. phase'[p] # "Done" => Removes(p, m) /\ \A q \in Party \ {p} : pending'[q] = pending[q]
  BY <1>1, <1>2, ConsumeRemoves
<1>7. CASE StoreFirst(p, m)
  <2>1. phase'[p] # "Done"
    <3>1. phase' = phase
      BY <1>7 DEF StoreFirst
    <3>2. pending[p] # <<>>
      BY <1>4, FewElements
    <3>3. phase[p] \notin Terminal
      BY <3>2 DEF IInv, Quiet
    <3> QED BY <3>1, <3>3 DEF Terminal
  <2> QED BY <1>3, <1>4, <1>6, <1>7, <2>1, StoreKeeps
<1>8. CASE Forward(p, m)
  <2>1. CASE phase'[p] = "Done"
    <3>1. Stage(phase'[p]) = 9 /\ pending' = [pending EXCEPT ![p] = <<>>]
      BY <1>1, <2>1, Stages
    <3> QED BY <1>3, <1>4, <1>8, <3>1, ForwardKeeps
  <2>2. CASE phase'[p] # "Done"
    BY <1>3, <1>4, <1>6, <1>8, <2>2, ForwardKeeps
  <2> QED BY <2>1, <2>2
<1> QED BY <1>4, <1>5, <1>7, <1>8, HandleForward

\* Without faults of the transport nothing else can happen.
LEMMA ExchangeStep ==
  ASSUME MaxFaults = 0, Misfit = Nobody, IInv, Exchange, [Next]_vars
  PROVE  Exchange'
<1>1. IInv'
  BY NextStep
<1>2. CASE Next
  <2>1. PICK p \in Party : \/ Call(p) \/ Redeliver(p) \/ Poll(p) \/ HandleAfterEnd(p)
                           \/ HandleMisdirected(p) \/ HostAbort(p) \/ Loop(p)
    BY <1>2 DEF Next
  <2>2. ~Redeliver(p) /\ ~HandleMisdirected(p)
    <3>1. faults \in Nat
      BY DEF IInv, HostTypes
    <3>2. ~(faults < MaxFaults)
      BY <3>1
    <3> QED BY <3>2 DEF Redeliver, HandleMisdirected
  <2>3. CASE Poll(p) \/ LoopReturn(p)
    <3>1. UNCHANGED <<session, host, pending, inbox>>
      BY <2>3 DEF Poll, LoopReturn
    <3> QED BY <3>1, IdleKeeps
  <2>4. CASE Call(p)
    BY <1>1, <2>4, MessagesKeep, AbortKeeps DEF Call
  <2>5. CASE HandleAfterEnd(p) \/ HostAbort(p)
    BY <1>1, <2>5, AfterEndKeeps, HostAbortKeeps
  <2>6. CASE LoopHandle(p) \/ LoopReject(p)
    BY <1>1, <2>6, LoopHandleKeeps, RejectKeeps
  <2> QED BY <2>1, <2>2, <2>3, <2>4, <2>5, <2>6 DEF Loop
<1>3. CASE UNCHANGED vars
  <2>1. UNCHANGED <<session, host, pending, inbox>>
    BY <1>3 DEF vars, session, host
  <2> QED BY <2>1, IdleKeeps
<1> QED BY <1>2, <1>3

\* At the start only the evaluator's CRS is on its way.
LEMMA InitExchange ==
  ASSUME MaxStale = 0, Init
  PROVE  Exchange
<1>t. Party = {0, 1, 2} /\ Garbler = {0, 1}
  BY DEF Party, Garbler
<1>1. \A q \in Party : phase[q] = (IF q = 2 THEN "WaitGarbleKey" ELSE "WaitCrs") /\ At(q) = 0
  BY Stages DEF Init, At
<1>c. PICK c : c = [Blank EXCEPT !.crs = Mine]
  OBVIOUS
<1>2. \A q \in Party : inbox[q] = (IF q = 2 THEN <<>> ELSE <<Msg(2, q, "CommCrs", c)>>)
  <2>1. PICK late \in {<<>>} :
        inbox = [p \in Party |->
                  (IF p = 2 THEN <<>>
                   ELSE <<Msg(2, p, "CommCrs", [Blank EXCEPT !.crs = Mine])>>)
                    \o (IF late # <<>> /\ late[1].to = p THEN late ELSE <<>>)]
    BY DEF Init
  <2>2. ASSUME NEW q \in Party
        PROVE  inbox[q] = (IF q = 2 THEN <<>> ELSE <<Msg(2, q, "CommCrs", c)>>)
    <3>1. PICK y : y = IF q = 2 THEN <<>> ELSE <<Msg(2, q, "CommCrs", c)>>
      OBVIOUS
    <3>2. inbox[q] = y \o <<>>
      BY <1>c, <2>1, <3>1
    <3>3. y \in Seq({Msg(2, q, "CommCrs", c)})
      BY <3>1, ShortSeq
    <3> QED BY <3>1, <3>2, <3>3, ConcatEmptySeq
  <2> QED BY <2>2
<1>3. \A q \in Party : pending[q] = <<>> /\ slot[q] = NoSlots /\ rejected[q] = NoReject
  BY DEF Init
<1>h. c = Honest("CommCrs")
  BY <1>c DEF Honest, HonestPayload, Blank, Mine
<1>4. ASSUME NEW q \in Party PROVE Orderly(q)
  <2>1. ToSet(inbox[q]) = (IF q = 2 THEN {} ELSE {Msg(2, q, "CommCrs", c)}) /\ Distinct(inbox[q])
    BY <1>2, FewElements
  <2>2. \A r \in Party : slot[q][r] = NoMsg
    BY <1>3 DEF NoSlots
  <2>3. ToSet(pending[q]) = {} /\ Distinct(pending[q])
    BY <1>3, FewElements
  <2>4. Around(q) = ToSet(inbox[q])
    BY <2>2, <2>3 DEF Around
  <2>5. ASSUME NEW m \in Around(q) PROVE Fits(q, m)
    <3>1. q \in {0, 1} /\ m = Msg(2, q, "CommCrs", c)
      BY <1>t, <2>1, <2>4, <2>5
    <3>2. m.from = 2 /\ m.kind = "CommCrs" /\ m.val = c
      BY <3>1 DEF Msg
    <3>3. Listed(2, q, "CommCrs")
      BY <3>1 DEF Listed
    <3>4. Sends(2, q, "CommCrs")
      BY <3>3, SendsListed
    <3>5. At(2) = 0 /\ At(q) = 0
      BY <1>1, <1>t
    <3>6. Regular(q, m)
      BY <1>h, <3>2, <3>4, <3>5, Sent, Taken, Floors DEF Regular
    <3> QED BY <3>2, <3>6 DEF Fits
  <2>6. Single(q)
    <3>1. ASSUME NEW a \in ToSet(inbox[q]) PROVE ~Same(a, slot[q][a.from])
      <4>1. a.from = 2 /\ 2 \in Party
        BY <1>t, <2>1, <3>1 DEF Msg
      <4>2. slot[q][a.from].from = Nobody
        BY <2>2, <4>1 DEF NoMsg
      <4> QED BY <4>1, <4>2 DEF Same, Nobody
    <3> QED BY <2>1, <2>3, <3>1 DEF Single, Apart
  <2>7. Filed(q)
    <3>1. ~HasBoth(q, slot[q])
      BY <1>t, <2>2 DEF HasBoth
    <3> QED BY <2>2, <3>1 DEF Filed
  <2>8. Complete(q)
    <3>1. ASSUME NEW f \in Party, NEW k \in Kind, Sends(f, q, k), SentAt(k) <= At(f)
          PROVE  \E m \in Around(q) : m.from = f /\ m.kind = k
      <4>1. SentAt(k) = 0
        BY <1>1, <3>1, Sent
      <4>2. f = 2 /\ k = "CommCrs" /\ Listed(f, q, k)
        BY <3>1, <4>1, WhoSends, SendsListed
      <4>3. q \in {0, 1}
        BY <4>2 DEF Listed
      <4>4. PICK m : m = Msg(2, q, "CommCrs", c)
        OBVIOUS
      <4>5. m \in Around(q)
        BY <2>1, <2>4, <4>3, <4>4
      <4>6. m.from = 2 /\ m.kind = "CommCrs"
        BY <4>4 DEF Msg
      <4> QED BY <4>2, <4>5, <4>6
    <3> QED BY <3>1 DEF Complete
  <2>9. Obeys(q)
    BY <1>1, Taken DEF Obeys
  <2> QED BY <2>5, <2>6, <2>7, <2>8, <2>9 DEF Orderly
<1>5. Standing
  <2>1. ctx[2].crs = Mine /\ \A q \in Garbler : ctx[q].prf = 0
    BY <1>t DEF Init
  <2> QED BY <1>t, <1>1, <2>1 DEF Standing, Setups, Streams, Paired, Wired
<1>6. RacesOnly
  BY <1>3 DEF RacesOnly
<1> QED BY <1>4, <1>5, <1>6 DEF Exchange

\* The exchange stays in order.
LEMMA ExchangeInvariant ==
  ASSUME MaxFaults = 0, MaxStale = 0, Misfit = Nobody
  PROVE  Spec => [](IInv /\ Exchange)
<1>1. Init => IInv /\ Exchange
  BY InitStep, InitExchange
<1>2. IInv /\ Exchange /\ [Next]_vars => (IInv /\ Exchange)'
  BY NextStep, ExchangeStep
<1> QED BY <1>1, <1>2, PTL DEF Spec

-----------------------------------------------------------------------------
(* Nobody waits for what was sent.                                         *)

\* What a phase puts back belongs to a later one.
LEMMA PutBackIsLater ==
  ASSUME NEW p \in Party, NEW m, NotReady(p, m)
  PROVE  At(p) < TakenAt(m.kind)
<1>1. CASE SetupNotReady(p, m)
  BY <1>1, Stages, Taken DEF SetupNotReady, At
<1>2. CASE LaterNotReady(p, m)
  BY <1>2, Stages, Taken DEF LaterNotReady, At, InputPhases, VerifyPhases, ShamirToRssKinds,
     BatchInputKinds, OutputVerificationKinds, BatchOutputKinds, CircuitEvalKinds
<1> QED BY <1>1, <1>2 DEF NotReady

\* Everything was delivered, and no session failed.
AtRest ==
    /\ active = Nobody /\ NoFailure /\ \A p \in Party : inbox[p] = <<>>
    /\ NothingStranded

\* p takes f's message of kind k in the stage it is in.
Awaits(p, f, k) == f \in Party /\ k \in Kind /\ Sends(f, p, k) /\ TakenAt(k) = At(p)

\* If f has sent it, p's state has filed it.
LEMMA SentIsFiled ==
  ASSUME IInv, Exchange, AtRest, NEW p \in Party, NEW f, NEW k, Awaits(p, f, k), SentAt(k) <= At(f)
  PROVE  slot[p][f] # NoMsg /\ slot[p][f].kind = k /\ k \in Collects(phase[p])
<1>1. /\ Nobody \notin Party /\ \A q \in Party : rejected[q] = NoReject /\ Running(q)
  <2>1. \A q \in Party : rejected[q] = NoReject /\ phase[q] # "Aborted"
    BY DEF AtRest, NoFailure
  <2>2. \A q \in Party : q = 2 \/ q \in Garbler
    BY DEF Party, Garbler
  <2> QED BY <2>1, <2>2, GarblerAt, EvaluatorAt DEF Running, Party, Nobody
<1>2. At(p) <= TakenAt(k)
  BY Taken DEF Awaits
<1>3. PICK m \in Around(p) : m.from = f /\ m.kind = k
  BY <1>1, <1>2 DEF Exchange, Orderly, Complete, Awaits
<1>4. m \notin ToSet(inbox[p])
  BY FewElements DEF AtRest
<1>5. m \notin ToSet(pending[p])
  <2>1. SUFFICES ASSUME m \in ToSet(pending[p]) PROVE FALSE
    OBVIOUS
  <2>2. PICK i \in DOMAIN pending[p] : m = pending[p][i]
    BY <2>1 DEF ToSet
  <2>3. ReadyAt(p) = {}
    BY <1>1 DEF AtRest, NothingStranded
  <2>4. NotReady(p, m)
    BY <2>2, <2>3 DEF ReadyAt
  <2>5. At(p) < TakenAt(m.kind) /\ At(p) \in 0..10
    BY <2>4, PutBackIsLater, AtTypes
  <2> QED BY <1>3, <2>5 DEF Awaits
<1>6. PICK q \in Party : m = slot[p][q] /\ slot[p][q] # NoMsg
  BY <1>4, <1>5 DEF Around
<1>7. Collected(p, slot[p][q]) /\ slot[p][q].from = q
  BY <1>1, <1>6, SlotCollected DEF Exchange
<1> QED BY <1>3, <1>6, <1>7 DEF Collected

\* A state that takes a message alone waits for one not sent yet.
LEMMA AloneWaits ==
  ASSUME IInv, Exchange, AtRest, NEW p \in Party, Collects(phase[p]) = {},
         NEW f, NEW k, Awaits(p, f, k)
  PROVE  At(f) < SentAt(k)
<1>1. ~(SentAt(k) <= At(f))
  BY SentIsFiled
<1>2. At(f) \in 0..10 /\ SentAt(k) \in 0..9
  BY AtTypes, Sent DEF Awaits
<1> QED BY <1>1, <1>2

\* A state that takes a pair waits for one of the two.
LEMMA PairWaits ==
  ASSUME IInv, Exchange, AtRest, NEW p \in Party, NEW e, NEW f, NEW i, NEW j,
         Awaits(p, e, i), Awaits(p, f, j), Party \ {p} = {e, f},
         p = 2 => e = 0 /\ f = 1,
         phase[p] = "EvaluatorWaitMsg1" => p = 2 /\ i = "GarblerInputCommit" /\ j = "GarblerInputCommit",
         phase[p] = "EvaluatorWaitMsg2" => p = 2 /\ i = "GarblerI3Commit" /\ j = "GarblerI3Commit"
  PROVE  At(e) < SentAt(i) \/ At(f) < SentAt(j)
<1>1. SUFFICES ASSUME SentAt(i) <= At(e), SentAt(j) <= At(f) PROVE FALSE
  <2>1. At(e) \in 0..10 /\ SentAt(i) \in 0..9 /\ At(f) \in 0..10 /\ SentAt(j) \in 0..9
    BY AtTypes, Sent DEF Awaits
  <2> QED BY <2>1
<1>2. slot[p][e] # NoMsg /\ slot[p][e].kind = i
  BY <1>1, SentIsFiled
<1>3. slot[p][f] # NoMsg /\ slot[p][f].kind = j
  BY <1>1, SentIsFiled
<1>4. HasBoth(p, slot[p])
  BY <1>2, <1>3 DEF HasBoth
<1>5. ~Unmatched(phase[p], slot[p])
  BY <1>2, <1>3 DEF Unmatched, KindsAre
<1>6. rejected[p] = NoReject
  BY DEF AtRest, NoFailure
<1> QED BY <1>4, <1>5, <1>6 DEF Exchange, Orderly, Filed

LEMMA Waiting ==
  ASSUME NEW p \in Party, NEW f, NEW k, Listed(f, p, k), TakenAt(k) = At(p)
  PROVE  Awaits(p, f, k)
<1>1. f \in Party /\ k \in Kind
  BY DEF Listed, Party, Kind, CommonRandomnessKinds, ShamirToRssKinds, BatchInputKinds,
         CircuitEvalKinds, OutputVerificationKinds, BatchOutputKinds
<1> QED BY <1>1, SendsListed DEF Awaits

\* Nobody waits, stage by stage.
LEMMA RestIsDone ==
  ASSUME IInv, Exchange, AtRest
  PROVE  \A p \in Party : phase[p] = "Done"
<1>t. /\ Party = {0, 1, 2} /\ Garbler = {0, 1} /\ 0 \in Party /\ 1 \in Party /\ 2 \in Party
      /\ Party \ {0} = {1, 2} /\ Party \ {1} = {0, 2} /\ Party \ {2} = {0, 1}
  BY DEF Party, Garbler
<1>a. /\ At(0) \in 0..9 \ {1, 5, 6} /\ At(1) \in 0..9 \ {5, 6} /\ At(2) \in 0..9 \ {1}
  <2>1. phase[0] # "Aborted" /\ phase[1] # "Aborted" /\ phase[2] # "Aborted"
    BY <1>t DEF AtRest, NoFailure
  <2>2. At(0) # 1
    BY DEF Exchange, Standing, Setups
  <2>3. At(0) \in 0..10 \ {5, 6} /\ At(0) # 10 /\ At(1) \in 0..10 \ {5, 6} /\ At(1) # 10
    BY <1>t, <2>1, GarblerAt
  <2>4. At(2) \in 0..10 \ {1} /\ At(2) # 10
    BY <2>1, EvaluatorAt
  <2> QED BY <2>2, <2>3, <2>4
<1>1. At(0) # 0 /\ At(1) # 0
  <2>1. ASSUME NEW q \in Garbler, At(q) = 0 PROVE FALSE
    <3>1. Collects(phase[q]) = {} /\ q \in Party
      BY <1>t, <2>1, GarblerAt, CollectsTable
    <3>2. Listed(2, q, "CommCrs")
      BY <1>t DEF Listed
    <3>3. At(2) < SentAt("CommCrs")
      BY <2>1, <3>1, <3>2, Waiting, AloneWaits, Taken
    <3> QED BY <1>a, <3>3, Sent
  <2> QED BY <1>t, <2>1
<1>2. At(1) # 1
  <2>1. SUFFICES ASSUME At(1) = 1 PROVE FALSE
    OBVIOUS
  <2>2. Collects(phase[1]) = {}
    BY <1>t, <2>1, GarblerAt, CollectsTable
  <2>3. Listed(0, 1, "PrfSeed")
    BY DEF Listed
  <2>4. At(0) < SentAt("PrfSeed")
    BY <1>t, <2>1, <2>2, <2>3, Waiting, AloneWaits, Taken
  <2> QED BY <1>a, <1>1, <2>4, Sent
<1>3. At(2) # 0
  <2>1. SUFFICES ASSUME At(2) = 0 PROVE FALSE
    OBVIOUS
  <2>2. Collects(phase[2]) = {}
    BY <2>1, EvaluatorAt, CollectsTable
  <2>3. Listed(0, 2, "GarbleKey")
    BY DEF Listed
  <2>4. At(0) < SentAt("GarbleKey")
    BY <1>t, <2>1, <2>2, <2>3, Waiting, AloneWaits, Taken
  <2> QED BY <1>a, <1>1, <2>4, Sent
<1>4. \A q \in Party : 2 <= At(q)
  BY <1>t, <1>a, <1>1, <1>2, <1>3
<1>5. \A q \in Party : At(q) # 2
  <2>1. ASSUME NEW q \in Party, NEW f \in Party, Listed(f, q, "KeyNext"), At(q) = 2 PROVE FALSE
    <3>1. Collects(phase[q]) = {}
      BY <1>t, <2>1, GarblerAt, EvaluatorAt, CollectsTable
    <3>2. At(f) < SentAt("KeyNext")
      BY <2>1, <3>1, Waiting, AloneWaits, Taken
    <3>3. At(f) \in 0..10 /\ 2 <= At(f)
      BY <1>4, AtTypes
    <3> QED BY <3>2, <3>3, Sent
  <2>2. Listed(2, 0, "KeyNext") /\ Listed(0, 1, "KeyNext") /\ Listed(1, 2, "KeyNext")
    BY DEF Listed
  <2> QED BY <1>t, <2>1, <2>2
<1>6. \A q \in Party : 3 <= At(q)
  BY <1>t, <1>a, <1>4, <1>5
<1>7. \A q \in Party : At(q) # 3
  <2>1. ASSUME NEW q \in Party, At(q) = 3 PROVE FALSE
    <3>1. PICK e, f \in Party : Party \ {q} = {e, f} /\ (q = 2 => e = 0 /\ f = 1)
      BY <1>t
    <3>2. Listed(e, q, "ShamirToRss") /\ Listed(f, q, "ShamirToRss")
      BY <1>t, <3>1 DEF Listed
    <3>3. Awaits(q, e, "ShamirToRss") /\ Awaits(q, f, "ShamirToRss")
      BY <2>1, <3>2, Waiting, Taken
    <3>4. phase[q] = "ShamirToRss"
      BY <1>t, <2>1, GarblerAt, EvaluatorAt
    <3>5. At(e) < SentAt("ShamirToRss") \/ At(f) < SentAt("ShamirToRss")
      BY <3>1, <3>3, <3>4, PairWaits
    <3>6. At(e) \in 0..10 /\ At(f) \in 0..10 /\ 3 <= At(e) /\ 3 <= At(f)
      BY <1>6, AtTypes
    <3> QED BY <3>5, <3>6, Sent
  <2> QED BY <2>1
<1>8. \A q \in Party : 4 <= At(q)
  BY <1>t, <1>a, <1>6, <1>7
\* A garbler waits for the evaluator, who has come to stage n.
<1>g. ASSUME NEW q \in Garbler, NEW k, Listed(2, q, k), TakenAt(k) = At(q), At(q) \in {4, 7, 8},
             SentAt(k) <= At(2)
      PROVE  FALSE
  <2>1. Collects(phase[q]) = {} /\ q \in Party
    BY <1>t, <1>g, GarblerAt, CollectsTable
  <2>2. At(2) < SentAt(k)
    BY <1>g, <2>1, Waiting, AloneWaits
  <2> QED BY <1>a, <1>g, <2>2, Sent
\* The evaluator waits for the garblers.
<1>e. ASSUME NEW i, NEW j, Listed(0, 2, i), Listed(1, 2, j), TakenAt(i) = At(2), TakenAt(j) = At(2),
             At(2) = 4 => i = "GarblerInputCommit" /\ j = "GarblerInputCommit",
             At(2) = 5 => i = "GarblerI3Commit" /\ j = "GarblerI3Commit",
             SentAt(i) <= At(0), SentAt(j) <= At(1)
      PROVE  FALSE
  <2>1. Awaits(2, 0, i) /\ Awaits(2, 1, j)
    BY <1>t, <1>e, Waiting
  <2>2. At(0) < SentAt(i) \/ At(1) < SentAt(j)
    BY <1>t, <1>e, <2>1, EvaluatorAt, PairWaits
  <2> QED BY <1>a, <1>e, <2>2, Sent
<1>9. 7 <= At(0) /\ 7 <= At(1)
  <2>1. ASSUME NEW q \in Garbler, At(q) = 4 PROVE FALSE
    <3>1. Listed(2, q, "EvaluatorBits")
      BY <1>t DEF Listed
    <3> QED BY <1>t, <1>8, <1>g, <2>1, <3>1, Sent, Taken
  <2> QED BY <1>t, <1>a, <1>8, <2>1
<1>10. At(2) # 4
  <2>1. Listed(0, 2, "GarblerInputCommit") /\ Listed(1, 2, "GarblerInputCommit")
    BY DEF Listed
  <2>2. SentAt("GarblerInputCommit") <= At(0) /\ SentAt("GarblerInputCommit") <= At(1)
    BY <1>a, <1>9, Sent
  <2> QED BY <1>e, <2>1, <2>2, Taken
<1>11. At(2) # 5
  <2>1. Listed(0, 2, "GarblerI3Commit") /\ Listed(1, 2, "GarblerI3Commit")
    BY DEF Listed
  <2>2. SentAt("GarblerI3Commit") <= At(0) /\ SentAt("GarblerI3Commit") <= At(1)
    BY <1>a, <1>9, Sent
  <2> QED BY <1>e, <2>1, <2>2, Taken
<1>12. At(2) # 6
  <2>1. Listed(0, 2, "Hash") /\ Listed(1, 2, "GarbledTables")
    BY DEF Listed
  <2>2. SentAt("Hash") <= At(0) /\ SentAt("GarbledTables") <= At(1)
    BY <1>a, <1>9, Sent
  <2> QED BY <1>e, <2>1, <2>2, Taken
<1>13. 7 <= At(2)
  BY <1>t, <1>a, <1>8, <1>10, <1>11, <1>12
<1>14. At(0) # 7 /\ At(1) # 7
  <2>1. ASSUME NEW q \in Garbler, At(q) = 7 PROVE FALSE
    <3>1. Listed(2, q, "Label")
      BY <1>t DEF Listed
    <3> QED BY <1>13, <1>g, <2>1, <3>1, Sent, Taken
  <2> QED BY <1>t, <2>1
<1>15. At(2) # 7
  <2>1. Listed(0, 2, "Bit") /\ Listed(1, 2, "Bit")
    BY DEF Listed
  <2>2. SentAt("Bit") <= At(0) /\ SentAt("Bit") <= At(1)
    BY <1>a, <1>9, <1>14, Sent
  <2> QED BY <1>e, <2>1, <2>2, Taken
<1>16. At(0) # 8 /\ At(1) # 8
  <2>1. ASSUME NEW q \in Garbler, At(q) = 8 PROVE FALSE
    <3>1. Listed(2, q, "Labels") /\ SentAt("Labels") <= At(2)
      BY <1>t, <1>a, <1>13, <1>15, Sent DEF Listed
    <3> QED BY <1>g, <2>1, <3>1, Taken
  <2> QED BY <1>t, <2>1
<1>17. At(2) # 8
  <2>1. Listed(0, 2, "Bits") /\ Listed(1, 2, "Bits")
    BY DEF Listed
  <2>2. SentAt("Bits") <= At(0) /\ SentAt("Bits") <= At(1)
    BY <1>a, <1>9, <1>14, <1>16, Sent
  <2> QED BY <1>e, <2>1, <2>2, Taken
<1>18. At(0) = 9 /\ At(1) = 9 /\ At(2) = 9
  BY <1>a, <1>9, <1>13, <1>14, <1>15, <1>16, <1>17
<1> QED BY <1>t, <1>18, GarblerAt, EvaluatorAt

-----------------------------------------------------------------------------
(* The theorems.                                                           *)

\* Whatever the relative speed of the three hosts, in whatever order the
\* transport delivers and however the hosts batch, poll, cancel and go on
\* after errors: when every message of this run is delivered once and none of
\* another run, a session (Session::handle_messages) refuses a message only
\* in the seven ways of KnownRaces.
THEOREM RefusalsAreRaces ==
  ASSUME MaxFaults = 0, MaxStale = 0, Misfit = Nobody
  PROVE  Spec => []OnlyKnownRaces
<1>1. IInv /\ Exchange => OnlyKnownRaces
  BY DEF Exchange, RacesOnly, OnlyKnownRaces
<1> QED BY <1>1, ExchangeInvariant, PTL

\* No message is lost and nobody waits for one that was not sent: once
\* everything is delivered and no session failed, all three are Done (the
\* assertion that ends run_session_derivation), in whatever order the
\* transport delivers.
THEOREM DeliveredIsDone ==
  ASSUME MaxFaults = 0, MaxStale = 0, Misfit = Nobody
  PROVE  Spec => []QuiescentIsDone
<1>1. IInv /\ Exchange /\ NothingStranded => QuiescentIsDone
  BY RestIsDone DEF QuiescentIsDone, AtRest
<1> QED BY <1>1, ExchangeInvariant, NothingLeftBehind, PTL

=============================================================================
