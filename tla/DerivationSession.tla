------------------------- MODULE DerivationSession -------------------------
(***************************************************************************)
(* The message-driven derivation session of crates/zcash: three `Session`  *)
(* values (garblers 0 and 1, evaluator 2), the calls of handle_messages    *)
(* their hosts make, and the transport between the hosts.                  *)
(*                                                                         *)
(* A call of handle_messages is the steps between HandleMessages (or Poll) *)
(* and the step that clears `active`; while a call runs, no other call     *)
(* does.  Each step in between is one iteration of the loop over           *)
(* `pending`, so a call is as indivisible here as the `&mut self` makes it *)
(* in the code.                                                            *)
(*                                                                         *)
(* Data.  A value (CRS, PRF seed, pad, label, key bits) is represented by  *)
(* the set of protocol runs whose secrets it was computed from.  Two       *)
(* values of one kind are equal when their sets are; values from different *)
(* runs never collide.  A label computed from two runs is garbage.         *)
(***************************************************************************)
EXTENDS Naturals, Sequences, SequencesExt

CONSTANTS
    Runs,       \* protocol runs (attempts) of the same three hosts
    This,       \* the run whose sessions are modelled
    Order,      \* what the transport keeps in order: "inbox", "pair", "any"
    MaxBatch,   \* most messages a host passes to one call (1 or 2)
    MaxFaults,  \* most re-deliveries and misdirected batches
    MaxStale,   \* most messages of an earlier run still in transit (0 or 1)
    KeepGoing,  \* a host goes on using a session that returned an error
    Cancel,     \* a host may broadcast Abort although nothing failed
    Misfit      \* the party that may enter a replicated share which does not
                \*   fit the others', or Nobody

ASSUME RunsAssumption == This \in Runs
ASSUME BoundsAssumption == /\ MaxBatch \in {1, 2}
                           /\ MaxFaults \in Nat
                           /\ MaxStale \in {0, 1}
ASSUME OrderAssumption == Order \in {"inbox", "pair", "any"}
ASSUME HostAssumption == KeepGoing \in BOOLEAN /\ Cancel \in BOOLEAN

Party == 0..2
Garbler == {0, 1}
Nobody == 3

\* A share that does not fit is one of another run.
Foreign == Runs \ {This}

ASSUME MisfitAssumption == /\ Misfit \in Party \cup {Nobody}
                           /\ Misfit # Nobody => Foreign # {}

next_party(p) == (p + 1) % 3
prev_party(p) == (p + 2) % 3

-----------------------------------------------------------------------------
(* Messages.                                                               *)

CommonRandomnessKinds   == {"KeyNext"}
ShamirToRssKinds        == {"ShamirToRss"}
BatchInputKinds         == {"EvaluatorBits", "GarblerInputCommit", "GarblerI3Commit"}
CircuitEvalKinds        == {"Hash", "GarbledTables"}
OutputVerificationKinds == {"Label", "Bit"}
BatchOutputKinds        == {"Labels", "Bits"}

Kind == {"CommCrs", "PrfSeed", "GarbleKey", "Abort"}
          \cup CommonRandomnessKinds \cup ShamirToRssKinds \cup BatchInputKinds
          \cup CircuitEvalKinds \cup OutputVerificationKinds \cup BatchOutputKinds

\* What a payload was computed from: the CRS, the garblers' PRF seed with the
\* position of its label stream, the sender's own secret, a verification bit.
\* The fields a kind does not carry keep their values in Blank.
Payload == [crs  : SUBSET Runs, seed : SUBSET Runs, own : SUBSET Runs,
            prf  : Nat,         bit  : BOOLEAN]

Blank == [crs |-> {}, seed |-> {}, own |-> {}, prf |-> 0, bit |-> FALSE]

\* `run` is the run that sent the message.  The code's Message has no such
\* field and no handler reads it: it orders the transport and serves the
\* properties.
Message == [from : Party, to : Party, kind : Kind, val : Payload, run : Runs]

Msg(p, q, k, v) == [from |-> p, to |-> q, kind |-> k, val |-> v, run |-> This]

\* An empty Option<...> of a state that collects one message per peer.
NoMsg == [from |-> Nobody, to |-> Nobody, kind |-> "None", val |-> Blank, run |-> This]

NoSlots == [q \in Party |-> NoMsg]

-----------------------------------------------------------------------------
(* Phases: the variants of Phase and of the states they hold.              *)

SetupPhases == {"WaitCrs", "WaitPrf", "WaitGarbleKey"}
InputPhases == {"GarblerWaitEvalBits", "EvaluatorWaitMsg1", "EvaluatorWaitMsg2"}
VerifyPhases == {"GarblerWaitLabel", "EvaluatorWaitBit"}
OutputPhases == {"GarblerWaitLabels", "EvaluatorWaitBits"}
Terminal == {"Done", "Aborted"}

PhaseName == SetupPhases \cup {"CommonRandomness", "ShamirToRss"} \cup InputPhases
               \cup {"CircuitEval"} \cup VerifyPhases \cup OutputPhases \cup Terminal

EvaluatorPhases == {"WaitGarbleKey", "CommonRandomness", "ShamirToRss", "EvaluatorWaitMsg1",
                    "EvaluatorWaitMsg2", "CircuitEval", "EvaluatorWaitBit",
                    "EvaluatorWaitBits"} \cup Terminal

GarblerPhases == {"WaitCrs", "WaitPrf", "CommonRandomness", "ShamirToRss", "GarblerWaitEvalBits",
                  "GarblerWaitLabel", "GarblerWaitLabels"} \cup Terminal

VARIABLES
    phase,     \* phase[p]: the phase p's session is in
    ctx,       \* ctx[p]: Context.yao_setup and the CRS a setup state holds
               \*   before it; the evaluator's seed stands for its garble key
    keyPrev,   \* keyPrev[p]: the key received from the previous party
    slot,      \* slot[p][q]: the message of q that p's current state holds
    wires,     \* what the evaluator's labels and the inputs under them came from
    keys,      \* keys[p]: what the derived keys came from, {} before Done
    pending,   \* pending[p]: the session's buffer of messages
    active,    \* the party whose handle_messages call is running, or Nobody
    inbox,     \* inbox[p]: messages in transit to p, in the order of sending
    rejected,  \* rejected[p]: the last message p's session returned Err for
    stopped,   \* stopped[p]: p's host dropped the session and sent Abort
    faults,    \* re-deliveries and misdirected batches so far
    said       \* history: the parties whose part of opening the output is
               \*   sent: a garbler its TRUE bit, the evaluator the labels

session == <<phase, ctx, keyPrev, slot, wires, keys, said>>
host    == <<rejected, stopped, faults>>
vars    == <<phase, ctx, keyPrev, slot, wires, keys, pending, active, inbox,
             rejected, stopped, faults, said>>

Context == [crs : SUBSET Runs, seed : SUBSET Runs, prf : Nat]
Wires   == [seed : SUBSET Runs, own : SUBSET Runs]
NoWires == [seed |-> {}, own |-> {}]
NoReject == [kind |-> "None", from |-> Nobody, phase |-> "None", run |-> This]
Rejection == [kind : Kind, from : Party, phase : PhaseName, run : Runs]

Mine == {This}

-----------------------------------------------------------------------------
(* The transport.                                                          *)

\* Every message of a run in which nothing fails, as <<from, to, kind>>.
Protocol ==
    {<<2, q, k>> : q \in Garbler, k \in {"CommCrs", "EvaluatorBits", "Label", "Labels"}}
      \cup {<<q, 2, k>> : q \in Garbler, k \in {"GarblerInputCommit", "GarblerI3Commit", "Bit", "Bits"}}
      \cup {<<0, 1, "PrfSeed">>, <<0, 2, "GarbleKey">>, <<0, 2, "Hash">>, <<1, 2, "GarbledTables">>}
      \cup {<<p, next_party(p), "KeyNext">> : p \in Party}
      \cup UNION {{<<p, q, "ShamirToRss">> : q \in Party \ {p}} : p \in Party}

\* What run r put in a message of kind k when nothing failed.
HonestPayload(r, k) ==
    [crs  |-> IF k \in {"CommCrs", "PrfSeed", "GarblerInputCommit", "GarblerI3Commit"}
              THEN {r} ELSE {},
     seed |-> IF k \in {"PrfSeed", "GarbleKey", "GarblerInputCommit", "GarblerI3Commit",
                        "Hash", "GarbledTables", "Label", "Labels"}
              THEN {r} ELSE {},
     own  |-> IF k \in {"KeyNext", "ShamirToRss", "EvaluatorBits", "GarblerInputCommit",
                        "GarblerI3Commit", "Label", "Labels", "Bits"}
              THEN {r} ELSE {},
     prf  |-> CASE k = "GarblerI3Commit" -> 1
                [] k \in {"Hash", "GarbledTables"} -> 2
                [] OTHER -> 0,
     bit  |-> k = "Bit"]

\* Messages of earlier runs that the transport may still deliver.  A session
\* cannot tell them from its own: Message carries no session identifier.
StaleMessages ==
    {[from |-> t[1], to |-> t[2], kind |-> t[3], val |-> HonestPayload(r, t[3]), run |-> r] :
        t \in Protocol, r \in Runs \ {This}}

\* b, sent after a, may not overtake it.
KeepsBehind(a, b) ==
    /\ a.run = b.run
    /\ \/ Order = "inbox"
       \/ Order = "pair" /\ a.from = b.from

Deliverable(s) == {i \in DOMAIN s : \A j \in 1..(i - 1) : ~KeepsBehind(s[j], s[i])}

\* The batches a host can take from the messages in transit to it, with what
\* each leaves there.
Singles(s) == {[msgs |-> <<s[i]>>, rest |-> RemoveAt(s, i)] : i \in Deliverable(s)}

Doubles(s) ==
    UNION {{[msgs |-> Append(t.msgs, t.rest[j]), rest |-> RemoveAt(t.rest, j)] :
                j \in Deliverable(t.rest)} : t \in Singles(s)}

Batches(s) == IF MaxBatch = 1 THEN Singles(s) ELSE Singles(s) \cup Doubles(s)

\* Hand out[q] to the transport, for every q.
Post(out) == inbox' = [q \in Party |-> inbox[q] \o out[q]]

To(q, m) == [r \in Party |-> IF r = q THEN <<m>> ELSE <<>>]

\* One message of kind k and payload v from p to each member of S.
ToEach(S, p, k, v) == [q \in Party |-> IF q \in S THEN <<Msg(p, q, k, v)>> ELSE <<>>]

-----------------------------------------------------------------------------
(* Session::new_with_seed: the evaluator starts by sending its CRS.        *)

Init ==
    /\ phase = [p \in Party |-> IF p = 2 THEN "WaitGarbleKey" ELSE "WaitCrs"]
    /\ ctx = [p \in Party |-> [crs |-> IF p = 2 THEN Mine ELSE {}, seed |-> {}, prf |-> 0]]
    /\ keyPrev = [p \in Party |-> {}]
    /\ slot = [p \in Party |-> NoSlots]
    /\ wires = NoWires
    /\ keys = [p \in Party |-> {}]
    /\ pending = [p \in Party |-> <<>>]
    /\ active = Nobody
    /\ \E late \in {<<>>} \cup (IF MaxStale = 0 THEN {} ELSE {<<m>> : m \in StaleMessages}) :
         inbox = [p \in Party |->
                    (IF p = 2 THEN <<>>
                     ELSE <<Msg(2, p, "CommCrs", [Blank EXCEPT !.crs = Mine])>>)
                      \o (IF late # <<>> /\ late[1].to = p THEN late ELSE <<>>)]
    /\ rejected = [p \in Party |-> NoReject]
    /\ stopped = [p \in Party |-> FALSE]
    /\ faults = 0
    /\ said = {}

-----------------------------------------------------------------------------
(* Beginning a call.                                                       *)

\* p's host may call handle_messages.
Callable(p) ==
    /\ active = Nobody
    /\ ~stopped[p]
    /\ KeepGoing \/ rejected[p] = NoReject

HasAbort(ms) == \E i \in DOMAIN ms : ms[i].kind = "Abort"

\* The messages of the batch are appended to pending and the loop starts.
HandleMessages(p) ==
    /\ Callable(p)
    /\ phase[p] \notin Terminal
    /\ \E b \in Batches(inbox[p]) :
         /\ ~HasAbort(b.msgs)
         /\ pending' = [pending EXCEPT ![p] = @ \o b.msgs]
         /\ inbox' = [inbox EXCEPT ![p] = b.rest]
    /\ active' = p
    /\ UNCHANGED <<session, host>>

\* The transport delivers a message and keeps a copy, to deliver it again.
Redeliver(p) ==
    /\ Callable(p)
    /\ phase[p] \notin Terminal
    /\ faults < MaxFaults
    /\ \E b \in Singles(inbox[p]) :
         /\ ~HasAbort(b.msgs)
         /\ pending' = [pending EXCEPT ![p] = @ \o b.msgs]
    /\ faults' = faults + 1
    /\ active' = p
    /\ UNCHANGED <<session, inbox, rejected, stopped>>

\* Faulty: the Abort is looked for before the check that the session has ended.
HandleAbortAfterEnd(p) ==
    /\ Callable(p)
    /\ \E b \in Batches(inbox[p]) :
         HasAbort(b.msgs) /\ inbox' = [inbox EXCEPT ![p] = b.rest]
    /\ phase' = [phase EXCEPT ![p] = "Aborted"]
    /\ slot' = [slot EXCEPT ![p] = NoSlots]
    /\ pending' = [pending EXCEPT ![p] = <<>>]
    /\ wires' = IF p = 2 THEN NoWires ELSE wires
    /\ UNCHANGED <<ctx, keyPrev, keys, said, active, host>>

\* Faulty: an Abort counts only for the party in its `to`.
HandleAbortIfAddressed(p) ==
    /\ Callable(p)
    /\ phase[p] \notin Terminal
    /\ \E b \in Batches(inbox[p]) :
         /\ \E i \in DOMAIN b.msgs : b.msgs[i].kind = "Abort" /\ b.msgs[i].to = p
         /\ inbox' = [inbox EXCEPT ![p] = b.rest]
    /\ phase' = [phase EXCEPT ![p] = "Aborted"]
    /\ slot' = [slot EXCEPT ![p] = NoSlots]
    /\ pending' = [pending EXCEPT ![p] = <<>>]
    /\ wires' = IF p = 2 THEN NoWires ELSE wires
    /\ UNCHANGED <<ctx, keyPrev, keys, said, active, host>>

\* An Abort anywhere in the batch ends the session before any of the batch is
\* handled; the buffer goes with it.
HandleAbort(p) ==
    /\ Callable(p)
    /\ phase[p] \notin Terminal
    /\ \E b \in Batches(inbox[p]) :
         /\ HasAbort(b.msgs)
         /\ inbox' = [inbox EXCEPT ![p] = b.rest]
    /\ phase' = [phase EXCEPT ![p] = "Aborted"]
    /\ slot' = [slot EXCEPT ![p] = NoSlots]
    /\ pending' = [pending EXCEPT ![p] = <<>>]
    /\ wires' = IF p = 2 THEN NoWires ELSE wires
    /\ UNCHANGED <<ctx, keyPrev, keys, said, active, host>>

\* A finished session returns at once and drops the batch.
HandleAfterEnd(p) ==
    /\ Callable(p)
    /\ phase[p] \in Terminal
    /\ \E b \in Batches(inbox[p]) : inbox' = [inbox EXCEPT ![p] = b.rest]
    /\ UNCHANGED <<session, host, pending, active>>

\* Faulty: messages are buffered one by one before the check of their `to`.
HandleMisdirectedBuffers(p) ==
    /\ Callable(p)
    /\ phase[p] \notin Terminal
    /\ faults < MaxFaults
    /\ \E q \in Party \ {p} : \E b \in Singles(inbox[q]) : LET m == b.msgs[1] IN
         /\ ~HasAbort(b.msgs)
         /\ pending' = [pending EXCEPT ![p] = Append(@, m)]
         /\ rejected' = [rejected EXCEPT ![p] =
              [kind |-> m.kind, from |-> m.from, phase |-> phase[p], run |-> m.run]]
    /\ faults' = faults + 1
    /\ UNCHANGED <<session, inbox, stopped, active>>

\* A batch with a message for another party fails before anything of it is
\* buffered: a good message in front of the wrong one is lost with it.
HandleMisdirected(p) ==
    /\ Callable(p)
    /\ phase[p] \notin Terminal
    /\ faults < MaxFaults
    /\ \E q \in Party \ {p} : \E b \in Singles(inbox[q]) :
         /\ ~HasAbort(b.msgs)
         /\ rejected' = [rejected EXCEPT ![p] =
              [kind |-> b.msgs[1].kind, from |-> b.msgs[1].from, phase |-> phase[p],
               run |-> b.msgs[1].run]]
    /\ \/ UNCHANGED inbox
       \/ \E b \in Singles(inbox[p]) :
            /\ ~HasAbort(b.msgs)
            /\ inbox' = [inbox EXCEPT ![p] = b.rest]
    /\ faults' = faults + 1
    /\ UNCHANGED <<session, stopped, pending, active>>

\* p's host drops the session and broadcasts Message::abort.
HostAbort(p) ==
    /\ active = Nobody
    /\ ~stopped[p]
    /\ phase[p] \notin Terminal
    /\ Cancel \/ rejected[p] # NoReject
    /\ stopped' = [stopped EXCEPT ![p] = TRUE]
    /\ Post([q \in Party |-> IF q = p THEN <<>> ELSE <<Msg(p, 0, "Abort", Blank)>>])
    /\ UNCHANGED <<session, rejected, faults, pending, active>>

-----------------------------------------------------------------------------
(* The loop over pending: the first message its phase does not put back is *)
(* removed and handled.                                                    *)

\* Faulty: party 1 has no arm for an early PrfSeed.
SetupNotReadyNoSeed(p, m) ==
    /\ m.kind = "KeyNext"
    /\ \/ p = 1 /\ phase[p] \in {"WaitCrs", "WaitPrf"} /\ m.from = 0
       \/ p = 2 /\ phase[p] = "WaitGarbleKey" /\ m.from = 1

\* A setup state puts back what a faster peer sends next to it.
SetupNotReady(p, m) ==
    \/ p = 1 /\ m.from = 0 /\ phase[p] = "WaitCrs" /\ m.kind \in {"KeyNext", "PrfSeed"}
    \/ p = 1 /\ m.from = 0 /\ phase[p] = "WaitPrf" /\ m.kind = "KeyNext"
    \/ p = 2 /\ m.from = 1 /\ phase[p] = "WaitGarbleKey" /\ m.kind = "KeyNext"

\* The other phases put back what belongs to a later phase, mostly the next.
LaterNotReady(p, m) ==
    /\ m.from # p
    /\ \/ phase[p] = "CommonRandomness" /\ m.kind \in ShamirToRssKinds
       \/ phase[p] = "ShamirToRss" /\ m.kind \in BatchInputKinds
       \/ phase[p] \in InputPhases /\ m.kind \in OutputVerificationKinds \cup BatchOutputKinds
       \/ phase[p] \in InputPhases /\ p = 2 /\ m.kind \in CircuitEvalKinds
       \/ phase[p] = "CircuitEval" /\ m.kind \in OutputVerificationKinds
       \/ phase[p] \in VerifyPhases /\ m.kind \in BatchOutputKinds

\* PhaseHandleResult::NotReady.
NotReady(p, m) == SetupNotReady(p, m) \/ LaterNotReady(p, m)

ReadyAt(p) == {i \in DOMAIN pending[p] : ~NotReady(p, pending[p][i])}

IsCursor(p, i) == i \in ReadyAt(p) /\ \A j \in ReadyAt(p) : i <= j

\* A call with no new message, which replays what an earlier call left behind
\* (if it left nothing the phase can take, the call changes nothing).
Poll(p) ==
    /\ Callable(p)
    /\ phase[p] \notin Terminal
    /\ ReadyAt(p) # {}
    /\ active' = p
    /\ UNCHANGED <<session, host, pending, inbox>>

\* Faulty: draining up to the handled message drops those put back before it.
ConsumeDropsSkipped(p, i) == pending' = [pending EXCEPT ![p] = SubSeq(@, i + 1, Len(@))]

Consume(p, i) == pending' = [pending EXCEPT ![p] = RemoveAt(@, i)]

Goto(p, next) == /\ phase' = [phase EXCEPT ![p] = next]
                 /\ slot' = [slot EXCEPT ![p] = NoSlots]

-----------------------------------------------------------------------------
(* Setup (phases/setup_yao.rs).                                            *)

AcceptsCrs(p, m) ==
    /\ phase[p] = "WaitCrs"
    /\ m.from = 2 /\ m.kind = "CommCrs"

\* Party 0 draws the garblers' seed, shares it with party 1, gives the
\* evaluator the garble key and goes straight on to the common randomness.
SetupCrs0(m) ==
    /\ AcceptsCrs(0, m)
    /\ ctx' = [ctx EXCEPT ![0] = [crs |-> m.val.crs, seed |-> Mine, prf |-> 0]]
    /\ Goto(0, "CommonRandomness")
    /\ Post([q \in Party |->
          CASE q = 1 -> <<Msg(0, 1, "PrfSeed", [Blank EXCEPT !.crs = m.val.crs, !.seed = Mine]),
                          Msg(0, 1, "KeyNext", [Blank EXCEPT !.own = Mine])>>
            [] q = 2 -> <<Msg(0, 2, "GarbleKey", [Blank EXCEPT !.seed = Mine])>>
            [] OTHER -> <<>>])
    /\ UNCHANGED <<keyPrev, wires, keys, said>>

SetupCrs1(m) ==
    /\ AcceptsCrs(1, m)
    /\ ctx' = [ctx EXCEPT ![1].crs = m.val.crs]
    /\ Goto(1, "WaitPrf")
    /\ UNCHANGED <<keyPrev, wires, keys, inbox, said>>

\* Faulty: the seed is taken without comparing the CRS that comes with it.
AcceptsPrfAnyCrs(p, m) == phase[p] = "WaitPrf" /\ m.from = 0 /\ m.kind = "PrfSeed"

AcceptsPrf(p, m) ==
    /\ phase[p] = "WaitPrf"
    /\ m.from = 0 /\ m.kind = "PrfSeed"
    /\ m.val.crs = ctx[p].crs

SetupPrf(m) ==
    /\ AcceptsPrf(1, m)
    /\ ctx' = [ctx EXCEPT ![1].seed = m.val.seed, ![1].prf = 0]
    /\ Goto(1, "CommonRandomness")
    /\ Post(To(2, Msg(1, 2, "KeyNext", [Blank EXCEPT !.own = Mine])))
    /\ UNCHANGED <<keyPrev, wires, keys, said>>

AcceptsGarbleKey(p, m) ==
    /\ phase[p] = "WaitGarbleKey"
    /\ m.from = 0 /\ m.kind = "GarbleKey"

SetupGarbleKey(m) ==
    /\ AcceptsGarbleKey(2, m)
    /\ ctx' = [ctx EXCEPT ![2].seed = m.val.seed]
    /\ Goto(2, "CommonRandomness")
    /\ Post(To(0, Msg(2, 0, "KeyNext", [Blank EXCEPT !.own = Mine])))
    /\ UNCHANGED <<keyPrev, wires, keys, said>>

-----------------------------------------------------------------------------
(* Common randomness (phases/common_randomness.rs).  The code also refuses *)
(* a key equal to its own: keys of different parties are derived under the *)
(* party's number and never equal.                                         *)

AcceptsKey(p, m) ==
    /\ phase[p] = "CommonRandomness"
    /\ m.from = prev_party(p) /\ m.kind = "KeyNext"

\* The Shamir share, padded under both keys, goes to both other parties.
CommonRandomness(p, m) ==
    /\ AcceptsKey(p, m)
    /\ keyPrev' = [keyPrev EXCEPT ![p] = m.val.own]
    /\ Goto(p, "ShamirToRss")
    /\ Post(ToEach(Party \ {p}, p, "ShamirToRss", [Blank EXCEPT !.own = m.val.own \cup Mine]))
    /\ UNCHANGED <<ctx, wires, keys, said>>

-----------------------------------------------------------------------------
(* The states that collect one message from each of the other parties, and *)
(* act when they hold both: route_padded_message, route_batch,             *)
(* route_circuit, route_output_verification and route_batch_output.        *)

BatchInputCollects == {"EvaluatorWaitMsg1", "EvaluatorWaitMsg2"}

\* The kinds a collecting state files away, whichever of them it waits for.
Collects(ph) ==
    CASE ph = "ShamirToRss" -> ShamirToRssKinds
      [] ph \in BatchInputCollects -> BatchInputKinds
      [] ph = "CircuitEval" -> CircuitEvalKinds
      [] ph = "EvaluatorWaitBit" -> OutputVerificationKinds
      [] ph = "EvaluatorWaitBits" -> BatchOutputKinds
      [] OTHER -> {}

Routed(p, m) == m.kind \in Collects(phase[p]) /\ m.from # p
Held(p, m)   == slot[p][m.from] # NoMsg
Filled(p, m) == [slot[p] EXCEPT ![m.from] = m]
Fills(p, m)  == Routed(p, m) /\ ~Held(p, m)
HasBoth(p, s) == \A q \in Party \ {p} : s[q] # NoMsg

KindsAre(s, k0, k1) == s[0].kind = k0 /\ s[1].kind = k1

\* In the input phases two messages of which one is of the wrong variant are
\* kept without an error.
Unmatched(ph, s) ==
    \/ ph = "EvaluatorWaitMsg1" /\ ~KindsAre(s, "GarblerInputCommit", "GarblerInputCommit")
    \/ ph = "EvaluatorWaitMsg2" /\ ~KindsAre(s, "GarblerI3Commit", "GarblerI3Commit")

AcceptsFirst(p, m) ==
    /\ Fills(p, m)
    /\ HasBoth(p, Filled(p, m)) => Unmatched(phase[p], Filled(p, m))

StoreFirst(p, m) ==
    /\ AcceptsFirst(p, m)
    /\ slot' = [slot EXCEPT ![p] = Filled(p, m)]
    /\ UNCHANGED <<phase, ctx, keyPrev, wires, keys, inbox, said>>

\* The message that completes a pair, and the pair it completes.
Completes(p, m) == /\ Fills(p, m)
                   /\ HasBoth(p, Filled(p, m))
                   /\ ~Unmatched(phase[p], Filled(p, m))

-----------------------------------------------------------------------------
(* Shamir to RSS (phases/shamir_to_rss.rs) and the start of the input      *)
(* phase (phases/batch_input_yao.rs).                                      *)

\* The keys and shares that p's two additive shares are computed from.
Shares(p, s) == Mine \cup keyPrev[p] \cup UNION {s[q].val.own : q \in Party \ {p}}

\* reconstruct_shamir_share finds the three padded shares on one line: no
\* two parties padded with different keys.
OnOneLine(p, s) == Shares(p, s) = Mine

AcceptsShares(p, m) ==
    /\ phase[p] = "ShamirToRss"
    /\ Completes(p, m)
    /\ OnOneLine(p, Filled(p, m))

\* What p may enter into the circuit as its replicated share: the one it
\* computed or, for the party Misfit, one that does not fit the others'.
Entered(p, share) == {share} \cup (IF p = Misfit THEN {share \cup Foreign} ELSE {})

\* The three draws from the label stream: the commitments to the garblers'
\* inputs, the opened labels of the evaluator's, the circuit.  Each reads the
\* position the context keeps and writes the new one back.
CommitInputs(c) == [c EXCEPT !.prf = @ + 1]

\* Faulty: the position after the opened labels is not written back.
OpenInputsForgets(c) == c

OpenInputs(c) == [c EXCEPT !.prf = @ + 1]

GarbleTables(c) == [c EXCEPT !.prf = @ + 1]

\* A garbler commits to labels for the inputs of both garblers, drawn from
\* the shared label stream.
ShamirToRssGarbler(p, m) ==
    /\ p \in Garbler
    /\ AcceptsShares(p, m)
    /\ Goto(p, "GarblerWaitEvalBits")
    /\ \E own \in Entered(p, Shares(p, Filled(p, m))) :
         Post(To(2, Msg(p, 2, "GarblerInputCommit",
                        [Blank EXCEPT !.crs = ctx[p].crs, !.seed = ctx[p].seed,
                                      !.prf = ctx[p].prf, !.own = own])))
    /\ ctx' = [ctx EXCEPT ![p] = CommitInputs(@)]
    /\ UNCHANGED <<keyPrev, wires, keys, said>>

\* The evaluator splits its input bits between the garblers under a new pad.
ShamirToRssEvaluator(m) ==
    /\ AcceptsShares(2, m)
    /\ Goto(2, "EvaluatorWaitMsg1")
    /\ Post(ToEach(Garbler, 2, "EvaluatorBits", [Blank EXCEPT !.own = Mine]))
    /\ \E own \in Entered(2, Shares(2, Filled(2, m))) : wires' = [wires EXCEPT !.own = own]
    /\ UNCHANGED <<ctx, keyPrev, keys, said>>

-----------------------------------------------------------------------------
(* Batch input and circuit evaluation (phases/batch_input_yao.rs,          *)
(* phases/circuit_eval.rs).                                                *)

AcceptsEvalBits(p, m) ==
    /\ phase[p] = "GarblerWaitEvalBits"
    /\ m.from = 2 /\ m.kind = "EvaluatorBits"

\* A garbler opens its labels for the evaluator's split bits, garbles the
\* circuit with the label stream as that left it and sends its hash (party 0)
\* or the tables (party 1).
GarblerEvalBits(p, m) ==
    /\ AcceptsEvalBits(p, m)
    /\ LET opened == OpenInputs(ctx[p]) IN
         /\ ctx' = [ctx EXCEPT ![p] = GarbleTables(opened)]
         /\ Post([q \in Party |-> IF q # 2 THEN <<>> ELSE
               <<Msg(p, 2, "GarblerI3Commit",
                     [Blank EXCEPT !.crs = ctx[p].crs, !.seed = ctx[p].seed,
                                   !.prf = ctx[p].prf, !.own = m.val.own]),
                 Msg(p, 2, IF p = 0 THEN "Hash" ELSE "GarbledTables",
                     [Blank EXCEPT !.seed = opened.seed, !.prf = opened.prf])>>])
    /\ Goto(p, "GarblerWaitLabel")
    /\ UNCHANGED <<keyPrev, wires, keys, said>>

SameStream(a, b) == a.val.seed = b.val.seed /\ a.val.prf = b.val.prf

\* Both garblers sent the same commitments, and they open under the
\* evaluator's CRS.
CommitmentsAgree(s) ==
    /\ SameStream(s[0], s[1])
    /\ s[0].val.crs = s[1].val.crs
    /\ s[0].val.crs = ctx[2].crs

AcceptsMsg1(p, m) ==
    /\ phase[p] = "EvaluatorWaitMsg1"
    /\ Completes(p, m)
    /\ CommitmentsAgree(Filled(p, m))

EvaluatorMsg1(m) ==
    /\ AcceptsMsg1(2, m)
    /\ LET s == Filled(2, m) IN
         wires' = [seed |-> s[0].val.seed, own |-> wires.own \cup s[0].val.own \cup s[1].val.own]
    /\ Goto(2, "EvaluatorWaitMsg2")
    /\ UNCHANGED <<ctx, keyPrev, keys, inbox, said>>

\* Each garbler opened the label of the split bits this evaluator sent it.
OpenedAsAsked(s) == s[0].val.own = Mine /\ s[1].val.own = Mine

AcceptsMsg2(p, m) ==
    /\ phase[p] = "EvaluatorWaitMsg2"
    /\ Completes(p, m)
    /\ CommitmentsAgree(Filled(p, m))
    /\ OpenedAsAsked(Filled(p, m))

EvaluatorMsg2(m) ==
    /\ AcceptsMsg2(2, m)
    /\ wires' = [wires EXCEPT !.seed = @ \cup Filled(2, m)[0].val.seed]
    /\ Goto(2, "CircuitEval")
    /\ UNCHANGED <<ctx, keyPrev, keys, inbox, said>>

AcceptsTables(p, m) ==
    /\ phase[p] = "CircuitEval"
    /\ Completes(p, m)
    /\ SameStream(Filled(p, m)[0], Filled(p, m)[1])

\* The tables have the hash party 0 sent; they are evaluated under the garble
\* key of the setup and the verification wire's label goes to both garblers.
EvaluateCircuit(m) ==
    /\ AcceptsTables(2, m)
    /\ wires' = [wires EXCEPT !.seed = @ \cup Filled(2, m)[1].val.seed \cup ctx[2].seed]
    /\ Goto(2, "EvaluatorWaitBit")
    /\ Post(ToEach(Garbler, 2, "Label", [Blank EXCEPT !.seed = wires'.seed, !.own = wires'.own]))
    /\ UNCHANGED <<ctx, keyPrev, keys, said>>

-----------------------------------------------------------------------------
(* Output (phases/output_yao.rs).                                          *)

\* Faulty: the label is not compared with the garbler's wire.
LabelMatchesAny(p, m) == TRUE

\* label_matches_wire: the label is one of the two of the garbler's wire.
LabelMatches(p, m) == m.val.seed = ctx[p].seed

\* The circuit's first output: what the parties entered as their replicated
\* shares agrees, which it does when all of it comes from one run.
Verified(m) == \E r \in Runs : m.val.own = {r}

ReadsLabel(p, m) ==
    /\ phase[p] = "GarblerWaitLabel"
    /\ m.from = 2 /\ m.kind = "Label"
    /\ LabelMatches(p, m)

AcceptsLabel(p, m) == ReadsLabel(p, m) /\ Verified(m)

GarblerVerify(p, m) ==
    /\ AcceptsLabel(p, m)
    /\ Goto(p, "GarblerWaitLabels")
    /\ Post(To(2, Msg(p, 2, "Bit", [Blank EXCEPT !.bit = TRUE])))
    /\ said' = said \cup {p}
    /\ UNCHANGED <<ctx, keyPrev, wires, keys>>

\* Faulty: the first garbler's TRUE is enough.
AcceptsOneBit(p, m) ==
    /\ phase[p] = "EvaluatorWaitBit"
    /\ Fills(p, m)
    /\ m.kind = "Bit" /\ m.val.bit

\* Faulty: the two bits are compared with each other only.
AcceptsEqualBits(p, m) ==
    /\ phase[p] = "EvaluatorWaitBit"
    /\ Completes(p, m)
    /\ KindsAre(Filled(p, m), "Bit", "Bit")
    /\ Filled(p, m)[0].val.bit = Filled(p, m)[1].val.bit

AcceptsBit(p, m) ==
    /\ phase[p] = "EvaluatorWaitBit"
    /\ Completes(p, m)
    /\ KindsAre(Filled(p, m), "Bit", "Bit")
    /\ \A q \in Garbler : Filled(p, m)[q].val.bit

\* Both garblers confirmed the shares: the output labels are released.
EvaluatorVerified(m) ==
    /\ AcceptsBit(2, m)
    /\ Goto(2, "EvaluatorWaitBits")
    /\ Post(ToEach(Garbler, 2, "Labels", [Blank EXCEPT !.seed = wires.seed, !.own = wires.own]))
    /\ said' = said \cup {2}
    /\ UNCHANGED <<ctx, keyPrev, wires, keys>>

AcceptsLabels(p, m) ==
    /\ phase[p] = "GarblerWaitLabels"
    /\ m.from = 2 /\ m.kind = "Labels"
    /\ LabelMatches(p, m)

\* A garbler decodes the labels, sends the bits and is done.
GarblerDecode(p, m) ==
    /\ AcceptsLabels(p, m)
    /\ keys' = [keys EXCEPT ![p] = m.val.own]
    /\ Goto(p, "Done")
    /\ Post(To(2, Msg(p, 2, "Bits", [Blank EXCEPT !.own = m.val.own])))
    /\ UNCHANGED <<ctx, keyPrev, wires, said>>

\* Faulty: the evaluator decodes with the first garbler's bits.
AcceptsFirstBits(p, m) ==
    /\ phase[p] = "EvaluatorWaitBits"
    /\ Fills(p, m)
    /\ m.kind = "Bits"

AcceptsBits(p, m) ==
    /\ phase[p] = "EvaluatorWaitBits"
    /\ Completes(p, m)
    /\ KindsAre(Filled(p, m), "Bits", "Bits")
    /\ Filled(p, m)[0].val.own = Filled(p, m)[1].val.own

EvaluatorDecode(m) ==
    /\ AcceptsBits(2, m)
    /\ keys' = [keys EXCEPT ![2] = m.val.own]
    /\ Goto(2, "Done")
    /\ UNCHANGED <<ctx, keyPrev, wires, inbox, said>>

-----------------------------------------------------------------------------
(* The loop.                                                               *)

Accepts(p, m) ==
    \/ AcceptsCrs(p, m)   \/ AcceptsPrf(p, m)      \/ AcceptsGarbleKey(p, m)
    \/ AcceptsKey(p, m)   \/ AcceptsFirst(p, m)    \/ AcceptsShares(p, m)
    \/ AcceptsMsg1(p, m)  \/ AcceptsMsg2(p, m)     \/ AcceptsEvalBits(p, m)
    \/ AcceptsTables(p, m) \/ AcceptsLabel(p, m)   \/ AcceptsBit(p, m)
    \/ AcceptsLabels(p, m) \/ AcceptsBits(p, m)

\* PhaseHandleResult::Consumed with a next phase or without.
Handle(p, m) ==
    \/ p = 0 /\ SetupCrs0(m)
    \/ p = 1 /\ SetupCrs1(m)
    \/ p = 1 /\ SetupPrf(m)
    \/ p = 2 /\ SetupGarbleKey(m)
    \/ CommonRandomness(p, m)
    \/ StoreFirst(p, m)
    \/ ShamirToRssGarbler(p, m)
    \/ p = 2 /\ ShamirToRssEvaluator(m)
    \/ GarblerEvalBits(p, m)
    \/ p = 2 /\ EvaluatorMsg1(m)
    \/ p = 2 /\ EvaluatorMsg2(m)
    \/ p = 2 /\ EvaluateCircuit(m)
    \/ GarblerVerify(p, m)
    \/ p = 2 /\ EvaluatorVerified(m)
    \/ GarblerDecode(p, m)
    \/ p = 2 /\ EvaluatorDecode(m)

\* One message handled; the loop starts over, or the session is Done and its
\* buffer is cleared.
LoopHandle(p) ==
    /\ active = p
    /\ \E i \in DOMAIN pending[p] :
         /\ IsCursor(p, i)
         /\ Handle(p, pending[p][i])
         /\ IF phase'[p] = "Done" THEN pending' = [pending EXCEPT ![p] = <<>>] ELSE Consume(p, i)
    /\ active' = IF phase'[p] = "Done" THEN Nobody ELSE p
    /\ UNCHANGED host

\* What an Err leaves in the collecting states: some routes store a second
\* message before refusing it, some checks take both messages out first.
SlotAfterError(p, m) ==
    CASE Fills(p, m) ->
           IF phase[p] \in {"ShamirToRss"} \cup BatchInputCollects THEN Filled(p, m) ELSE NoSlots
      [] Routed(p, m) /\ Held(p, m) /\ phase[p] \notin BatchInputCollects -> Filled(p, m)
      [] OTHER -> slot[p]

\* The message is gone, the rest of pending waits for another call.  A garbler
\* that reads a negative verification bit tells the evaluator first.
LoopReject(p) ==
    /\ active = p
    /\ \E i \in DOMAIN pending[p] : LET m == pending[p][i] IN
         /\ IsCursor(p, i)
         /\ ~Accepts(p, m)
         /\ Consume(p, i)
         /\ slot' = [slot EXCEPT ![p] = SlotAfterError(p, m)]
         /\ rejected' = [rejected EXCEPT ![p] =
              [kind |-> m.kind, from |-> m.from, phase |-> phase[p], run |-> m.run]]
         /\ IF ReadsLabel(p, m) THEN Post(To(2, Msg(p, 2, "Bit", Blank))) ELSE UNCHANGED inbox
    /\ active' = Nobody
    /\ UNCHANGED <<phase, ctx, keyPrev, wires, keys, stopped, faults, said>>

\* Nothing in pending is for this phase: the call returns Waiting.
LoopReturn(p) ==
    /\ active = p
    /\ ReadyAt(p) = {}
    /\ active' = Nobody
    /\ UNCHANGED <<session, host, pending, inbox>>

-----------------------------------------------------------------------------

Call(p) == HandleMessages(p) \/ HandleAbort(p)
Loop(p) == LoopHandle(p) \/ LoopReject(p) \/ LoopReturn(p)

Next == \E p \in Party :
    \/ Call(p) \/ Redeliver(p) \/ Poll(p) \/ HandleAfterEnd(p) \/ HandleMisdirected(p)
    \/ HostAbort(p) \/ Loop(p)

\* Every host makes progress: it delivers what has arrived, the loop of a
\* call runs, and after an error it polls what is left or gives up.
Fairness == \A p \in Party :
    /\ WF_vars(Call(p)) /\ WF_vars(Loop(p))
    /\ WF_vars(rejected[p] # NoReject /\ HostAbort(p))

Spec == Init /\ [][Next]_vars

FairSpec == Spec /\ Fairness

-----------------------------------------------------------------------------
(* Properties.                                                             *)

Addressed(p, m) == m.to = p \/ m.kind = "Abort"

\* Every variable keeps its type.  A session is only ever in a phase of its
\* role, and buffers only messages addressed to it, an Abort never among them.
TypeOK ==
    /\ phase \in [Party -> PhaseName]
    /\ phase[2] \in EvaluatorPhases /\ \A q \in Garbler : phase[q] \in GarblerPhases
    /\ ctx \in [Party -> Context]
    /\ keyPrev \in [Party -> SUBSET Runs]
    /\ slot \in [Party -> [Party -> Message \cup {NoMsg}]]
    /\ wires \in Wires
    /\ keys \in [Party -> SUBSET Runs]
    /\ pending \in [Party -> Seq(Message)]
    /\ \A p \in Party : pending[p] \in Seq({m \in Message : m.to = p /\ m.kind # "Abort"})
    /\ active \in Party \cup {Nobody}
    /\ inbox \in [Party -> Seq(Message)]
    /\ \A p \in Party : inbox[p] \in Seq({m \in Message : Addressed(p, m)})
    /\ rejected \in [Party -> Rejection \cup {NoReject}]
    /\ stopped \in [Party -> BOOLEAN]
    /\ faults \in Nat
    /\ said \subseteq Party

NoFailure == \A p \in Party : rejected[p] = NoReject /\ ~stopped[p] /\ phase[p] # "Aborted"

\* A message of a later phase is kept for it and none is dropped silently:
\* once everything sent has been delivered and no session has returned an
\* error, all three have derived the keys.  This is the assertion that ends
\* run_session_derivation, for every order of delivery.
QuiescentIsDone ==
    (active = Nobody /\ NoFailure /\ \A p \in Party : inbox[p] = <<>>)
      => \A p \in Party : phase[p] = "Done"

\* Whatever was re-delivered, reordered or left over from an earlier run: a
\* session that ends with keys has the keys of this run's three shares, so
\* any two sessions that end agree.
KeysAreOurs == \A p \in Party : phase[p] = "Done" => keys[p] = Mine

\* Party 1 leaves the setup only with the CRS and the label seed that party 0
\* uses, although both reach it through a transport that may deliver those of
\* an earlier run.
GarblersAgree ==
    phase[1] \notin {"WaitCrs", "WaitPrf", "Aborted"}
      => ctx[1].crs = ctx[0].crs /\ ctx[1].seed = ctx[0].seed

\* The garblers' messages that use up the label stream.
LabelKinds == {"GarblerInputCommit", "GarblerI3Commit", "Hash", "GarbledTables"}

OnTheWay(p) == {m \in ToSet(inbox[p]) \cup ToSet(pending[p]) \cup {slot[p][q] : q \in Party} :
                  m.kind \in LabelKinds /\ m.run = This}

\* The label stream is never rewound across the three steps that draw from it,
\* each in a handler of its own that reloads the stream from the context: no
\* two different messages of a garbler use the same labels, and the context's
\* position is past everything already sent.
FreshLabels ==
    \A m \in OnTheWay(2) :
      /\ m.val.prf < ctx[m.from].prf
      /\ \A n \in OnTheWay(2) : m.from = n.from /\ m.kind # n.kind => m.val.prf # n.val.prf

\* The errors that messages of this run alone, each delivered once, can cause:
\* messages of a faster peer for a phase not reached yet.  The first four also
\* when the transport keeps the order of every pair of parties, the others only
\* when a peer's later message overtakes its earlier one.
KnownRaces ==
    {<<2, "EvaluatorWaitMsg1", "GarblerI3Commit", 0>>,
     <<2, "EvaluatorWaitMsg1", "GarblerI3Commit", 1>>,
     <<1, "WaitCrs", "ShamirToRss", 0>>,
     <<2, "WaitGarbleKey", "ShamirToRss", 1>>,
     <<1, "WaitPrf", "ShamirToRss", 0>>,
     <<2, "EvaluatorWaitMsg1", "GarblerInputCommit", 0>>,
     <<2, "EvaluatorWaitMsg1", "GarblerInputCommit", 1>>}

\* The refusals of replicated shares that do not fit: by the garbler that
\* reads the check bit, and by the evaluator that is told of it.
MisfitRefusals ==
    {<<q, "GarblerWaitLabel", "Label", 2>> : q \in Garbler}
      \cup {<<2, "EvaluatorWaitBit", "Bit", q>> : q \in Garbler}

\* Apart from those a session never refuses a message of its peers, at
\* whatever relative speed the three hosts run; and shares are refused only
\* when they do not fit.
OnlyKnownRaces ==
    \A p \in Party : rejected[p] # NoReject =>
        LET why == <<p, rejected[p].phase, rejected[p].kind, rejected[p].from>> IN
          \/ why \in KnownRaces
          \/ /\ Misfit # Nobody /\ why \in MisfitRefusals
             /\ phase[2] # "Aborted" => wires.own # Mine

\* The evaluator opens the output only when both garblers have confirmed the
\* circuit's check bit, a garbler has keys only after that, and the evaluator
\* has keys only when both garblers do.
OutputInOrder ==
    /\ 2 \in said => Garbler \subseteq said
    /\ \A q \in Garbler : phase[q] = "Done" => {q, 2} \subseteq said
    /\ phase[2] = "Done" => \A q \in Garbler : phase[q] = "Done"

\* A garbler confirms the check bit, and the evaluator releases the output
\* labels, only over wires that hold the shares of this run and no other:
\* whichever garbler reads the negative bit first, and although its TRUE may
\* be left over from an earlier run whose shares did fit.
OpensWhatFits == said # {} /\ phase[2] # "Aborted" => wires.own = Mine

\* The session implements the abstract specification of the output's opening.
Release == INSTANCE KeyRelease WITH
    Garblers <- Garbler, Evaluator <- 2, done <- {p \in Party : phase[p] = "Done"}

ImplementsRelease == Release!Spec

\* A session that is Done keeps its keys and one that is Aborted stays so,
\* whatever arrives later; neither sends anything more.
EndIsFinal ==
    [][\A p \in Party : phase[p] \in Terminal =>
          /\ phase'[p] = phase[p] /\ keys'[p] = keys[p]
          /\ pending'[p] = <<>> /\ active' # p]_vars

\* Three sessions whose hosts give up on an error never wait for one another
\* for ever: each ends, is aborted by a peer or is given up.
Settles == <>(\A p \in Party : phase[p] \in Terminal \/ stopped[p])

\* A message that reaches a session before its phase is buffered, in the setup
\* phases too ("this should be buffered in SetupYao::WaitCrs rather than
\* rejected", buffers_early_common_randomness_message).
SetupBuffersEarly ==
    \A p \in Party : rejected[p].phase \notin SetupPhases

\* Sessions fed every message once, in the order their peers sent them, all
\* take it (the unwrap of handle_messages in run_session_derivation).
InputBuffersEarly ==
    \A p \in Party : rejected[p].phase \notin InputPhases

\* A re-delivered message is refused (duplicate_stale_message_is_rejected): a
\* session waiting for the second input message does not take the first again.
DuplicateRefused ==
    phase[2] = "EvaluatorWaitMsg2"
      => \A q \in Garbler : slot[2][q].kind # "GarblerInputCommit"

=============================================================================
