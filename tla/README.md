# A TLA+ model of `garbling`

The repository implements three-party garbled circuits: two garblers (parties
0 and 1) and one evaluator (party 2). On top of the core library it has a
Shamir/replicated-sharing crate, conversions between sharings, a BIP-32
migration crate, and a zcash crate with key generation and key derivation:
the derivation exists once as `async` code over a message relay and once as a
*message-driven* session that a host drives by handing it batches of messages.

This directory models the session, the relay protocols and everything built on
them, key generation, and the circuits, garbling, label stream and sharings
underneath; checks them with TLC; and proves the safety properties of the
session, of key generation, of the relay, of circuit construction, garbling and
arithmetic, that share conversions over the relay keep the secret, and the
correctness of the local steps of the others, with TLAPS.

## 1. Inventory

### 1.1 Components

| Component | Source | State it keeps | Operations | What makes it correct |
|---|---|---|---|---|
| **Derivation session** | `src/crates/zcash/src/derivation_session.rs`, `derivation_session/` | phase, context (CRS, label seed and stream position), key of the previous party, one message per peer in a collecting phase, the buffer `pending` | `new_with_seed`, `handle_messages` (one handler per phase and message), `Message::abort` by the host | a host may deliver in (nearly) any order; output opened only after both confirmations; ends are final; garblers share one seed; label stream never rewound; nobody waits for ever |
| Session snapshots | `derivation_session/serde_types.rs` | serialised session, PRF position | serialise, restore | a restored session continues where the saved one stopped |
| **Shamir and replicated sharing** | `src/crates/sl-secret-sharing/src/shamir.rs`, `zcash/src/shamir_to_rss.rs`, `zcash/src/reconstruct_shamir.rs`, the same in `hd-migration` | none | interpolate, convert, check consistency | conversion keeps the secret; inconsistent shares are refused |
| **Relay helpers** | `src/src/functionality/utils.rs` | tag counter, messages asked for, buffer of 10 messages | `next_tag`, `send_to_party`, `receive_*`, abort round, common randomness | messages reach the round that asks for them; one abort ends all |
| **Relay Yao protocols** | `src/src/functionality/{setup,input,output,circuit_eval}.rs` | CRS, labels, commitments | setup, input sharing, evaluation, output | three async parties in lockstep get the plaintext result |
| **Share conversions** | `src/src/functionality/{b_to_y,y_to_b}.rs` | none across calls | Boolean to Yao, Yao to Boolean | conversion keeps the value |
| **Garbling** | `src/src/functionality/{garble,evaluate}.rs`, `utilities/garble_hash.rs` | wire labels, tables | `garble`, `evaluate` | evaluation yields the label of the plaintext value of every output wire |
| **Circuits** | `src/src/circuit.rs` | gates, input groups, cached constants, counts | one method per gate, `constant`, `add_circuit`, `finish`, plain evaluation, parser | gates in topological order; a constant once; a copy computes what the original does |
| **Arithmetic builders** | `src/src/{arithmetic,comparison}.rs`, `circuit/prebuilt.rs` | none | adders, multipliers, comparisons, constants | each builder computes the arithmetic it is named for |
| **Label stream** | `src/src/utilities/label_prf.rs` | seed, stream, 68-bit word position | draw blocks, advance, save, restore | no position is used twice |
| Primitives | `src/src/utilities/{commitments,hash_function,shahash,utils,types}.rs` | none | commit, open, hash, block arithmetic | idealised |
| **Derivation over the relay** | `src/crates/zcash/src/{derivation,zcash,prf,blake2b}.rs` | as the session | the session's protocol as `async` code | same output as the session |
| **Key generation** | `src/crates/zcash/src/dkg.rs` | phase, `pending`, a derivation | `create_first_message`, `recv_message`, abort | every session ends with its share, or failed for a reason its host can name |
| **hd-migration** | `src/crates/hd-migration/src/` | none across calls | replicated shares to Yao and back, arithmetic gadget, key pairs, child key derivation, hash circuits | conversions keep the key; hashes are the standards' |
| Build script, benchmarks | `src/build.rs`, `src/benches/` | none | | |

Components in bold are modelled in full or for the most part; section 5 says
what is left out. `PROJECT.json` lists the same components with their status.

### 1.2 Interactions

A *host* owns a `Session` and a transport. It calls
`handle_messages(batch, &mut outgoing)`, sends what the call appends to
`outgoing`, and looks at the status (`Waiting`, `Done`, `Aborted`) or the error.
The sessions of the three parties interact only through these messages; a
session never blocks. Inside a call the batch is checked (addressees, an
`Abort` anywhere in it), appended to `pending`, and a loop then takes the first
message that the current phase does not put back, handles it, and starts over
with the next phase until nothing more can be taken.

The relay protocols are three `async` functions that send and await tagged
messages through a `FilteredMsgRelay`. A tag is a name and a counter that every
party keeps for itself; nothing else says which call a message belongs to. The
two garblers draw all labels from one stream, each from its own copy, and never
tell each other how far they are. Derivations are sequences of such calls:
common randomness, Shamir to replicated shares, joint input, a circuit, the
opened verification bit, and then either opened outputs or a key pair. They
share the pure garbling, label and circuit code with the session.

A key generation session counts the messages it gets (three make a round) and,
after two rounds, hands everything to a derivation session.

A circuit is built once by a `CircuitBuilder` and is immutable afterwards. Both
garblers run `garble_functionality` on it with the same setup; one sends the
tables, the other their hash; the evaluator runs `evaluate_functionality` on
the part of the tables that `2 * num_nonfree_gates + num_constant_gates` cuts
out. Nothing but the position of an entry says which gate it belongs to.

### 1.3 Hard behaviours

* *Order.* Peers run at different speeds; every message can be early. Each
  phase lists by hand the kinds it puts back; anything else is refused and
  gone.
* *Re-delivery and stale messages.* A `Message` has sender, receiver and body,
  no session identifier and no sequence number. A re-delivered message may look
  like the next expected one; a message of an earlier run cannot be told apart.
* *Partial failure.* Some handlers change the state before they return `Err`;
  the buffer is kept, and the host may go on using the session. A garbler that
  reads a negative verification bit sends it before it fails.
* *Completion is not atomic.* A garbler is `Done` when the evaluator may still
  fail.
* *Termination.* Abort is best-effort: it is the host that broadcasts it.
* *Label stream.* Three handlers copy the stream out of the context, draw from
  it and write it back.
* *Parties in step without a message.* Tag counters and label streams of
  different parties have to advance alike in every call, also where a party has
  nothing to do, and after an error that only one of them saw.
* *Rounds that are counted.* Key generation tells neither rounds nor senders
  apart; a fast peer's next message fills the place of a slow one's.
* *Position only.* Several circuits share one vector of tables and are cut out
  of it by their counts; output wires of a batch lie one after the other.
* *Boundaries.* A modulus subtracted once, the padding next to a block's end, a
  cipher counter narrower than the generator's.
* *Counts that must agree.* The builder counts And gates and cached constants,
  garbling pushes entries, evaluation takes them by position: three places that
  know the number of entries of a circuit, each by its own rule.
* *Bits that must agree.* Half gates choose hash and offset by the lowest bits
  of FALSE-labels on one side and of active labels on the other.

Section "hazards" of `PROJECT.json` lists each at its line, with the properties
that would catch it going wrong.

## 2. Modules

| Module | Contents |
|---|---|
| `DerivationSession` | the three message-driven sessions, their hosts and the transport |
| `KeyRelease` | abstract specification: in which order the output may be opened |
| `MCSession` | the model values of the session's instances |
| `DerivationSessionProofs` | types, the order of the opening, ends; where the values of a session come from; the order of messages, what is refused and what is left: three inductive invariants, lemmas and theorems |
| `NumberLemmas` | induction and recursion on numbers, quotients, remainders and congruence, for the proofs |
| `Blocks` | blocks, the lowest bit, xor |
| `CircuitBuilder` | wires, gates, constants and the copying of circuits |
| `GarbledCircuit` | extends `CircuitBuilder`: garbling, evaluation and decoding, gate by gate |
| `MCGarbled` | a concrete hash on two-bit blocks |
| `GarbledCircuitProofs` | block algebra, inductive invariants and theorems about the builder and about garbling |
| `PartyRelay` | tags, rounds, sending and receiving, ABORT messages |
| `YaoCircuit` | a whole circuit garbled or evaluated in one step, from the gates of `GarbledCircuit`; tables of several circuits |
| `YaoShares` | what the relay protocols compute between two awaits |
| `YaoRelay` | setup, inputs, evaluation, outputs and conversions as three tasks: `PartyRelay`, `YaoCircuit` and `YaoShares` composed |
| `IdealYao` | abstract specification: the plain computation, one call after the other |
| `MCRelay` | plans of calls, circuits and pseudo-random material |
| `YaoRelayProofs` | theorems about `YaoRelay`, and about what `YaoShares` computes |
| `SecretSharing` | Shamir and replicated sharing over a prime field, the arithmetic gadget |
| `DerivationRelay` | extends `YaoRelay`: common randomness, Shamir to replicated shares, key pairs, the derivations as sequences of calls |
| `MCDerivation` | derivations over the field of five elements |
| `SecretSharingProofs` | arithmetic modulo the order, lines through shares, what the gadget computes |
| `DerivationRelayProofs` | the share conversion of a derivation as a theorem about whole scripts; key pairs |
| `KeyGeneration` | key generation sessions, their hosts and transport |
| `MCKeygen` | what the derivation sends, and the settings |
| `KeyGenerationProofs` | inductive invariant and theorems about the sessions |
| `Arithmetic` | the arithmetic and comparison circuits as functions on bits |
| `KeySums` | a key that parts are added to |
| `HashCircuits` | padding and chaining of SHA-512, HMAC and BLAKE2b, with the standards |
| `LabelStream` | the label generator and its snapshots |
| `Parts`, `MCParts` | `KeySums`, `HashCircuits` and `LabelStream` next to each other in one state machine |
| `PartsProofs` | theorems about sums and comparisons, the label stream and the hash circuits |

### 2.1 How the model corresponds to the code

#### The derivation session

*State.* `phase[p]` is the variant of `Phase` together with the state enum
inside it (`WaitCrs` is `Phase::SetupYao(SetupYaoState::WaitCrs)`).
`ctx`, `keyPrev` and `pending` are the fields of `Context` and `Session`;
`slot[p][q]` is the `Option<...>` a collecting state keeps for peer `q`, empty
(`NoMsg`) in the other states; `wires` stands for the evaluator's input and
output labels. `inbox[p]` is what the transport has for `p`. `rejected`,
`stopped` and `faults` belong to the host and the environment; `said` is a
history variable.

*Calls.* A call is not one action but the sequence `HandleMessages` (or
`Poll`), then `LoopHandle` steps, then one of `LoopReturn`, `LoopReject` or the
`LoopHandle` that ends in `Done`. While it runs `active` names the party, and
no other party can move: the grain is the loop iteration, the atomicity is that
of `&mut self`. `HandleAbort`, `HandleAfterEnd` and `HandleMisdirected` are
the early returns in front of the loop and take one step.

*Handlers.* Each arm of a `handle_message` is an operator with the code's name
or role (`SetupCrs0`, `SetupPrf`, `CommonRandomnessKey`, `ShamirToRssGarbler`,
`EvaluatorMsg1`, `EvaluateCircuit`, `GarblerVerify`, `GarblerDecode`, ...). Its
guard `Accepts...` is the conjunction of the code's checks. A message that no
guard accepts and `NotReady` does not put back is an `Err`: `LoopReject`
removes it, records it in `rejected`, and leaves the state the code leaves
(`SlotAfterError`: some routes store the message before refusing it, some
checks take both messages out first).

*Data.* A value is represented by the set of protocol runs whose secrets it was
computed from. `{This}` is a value of this run, `{This, earlier}` is garbage
mixed from two. Equality tests in the code (the CRS that comes with the seed,
the labels of the verification wire, the two garblers' commitments) become
equality of these sets, which holds exactly when the real comparison does,
up to collisions of a 128-bit value. Contents of circuits are not modelled:
`Verified` says when the circuit's check bit comes out TRUE, `OnOneLine` when
the Shamir consistency check passes. `Misfit` names a party that may enter into the
circuit a replicated share other than the one the conversion gave it (`Entered`),
or nobody: one deviating party is what the repository's three-party setting is
for, and the circuit's check bit is what it does about it. In every other
respect that party follows the protocol. Final decoding of key bytes is total: its
error paths need a zero scalar or an invalid key.

*Label stream.* `ctx[p].prf` is the position of the garbler's stream. The code
copies the stream out of the context, draws and writes it back at three places:
`CommitInputs` (`start_garbler`), `OpenInputs` (the arm of `GarblerWaitEvalBits`)
and `GarbleTables` (`garble_or_hash`, called by that arm); each is an operator
on the context, and every message carries the position it was drawn at.

*Transport and host.* `Order` chooses what the transport keeps: the order of
everything sent to a party (`"inbox"`), the order of every pair (`"pair"`), or
nothing (`"any"`). `MaxFaults` bounds re-deliveries and misdirected batches;
`MaxStale` puts one message of an earlier run, of any kind, in transit from the
start. `KeepGoing` says whether a host goes on using a session that returned an
error; `Cancel` whether it may give up although nothing failed.

#### Circuits and garbling

*Circuits.* `gates` is the vector of the same name. Every push of a gate takes
the next wire number, so the gate at position `i` drives wire `i` and the `wire`
and `out` fields are positions. `constWire` is the pair `false_wire`,
`true_wire`; `groups` keeps the widths of the input groups, `nonfree` the count
of And gates. `other` holds a finished circuit; `add_circuit` is
`BeginAddCircuit` (its assertions), one `EmbedGate` per iteration of its loop
with `map` for `old_to_new_map`, and `EndAddCircuit`. Which wires are outputs,
and the `id` of an And gate, are never read by what is modelled.

*Garbling.* A block is the set of its positions that hold a 1: `xor_blocks` is
symmetric difference, `lsb` membership of one position. `Hash` is an arbitrary
constant of key, block and tweak (`2 * i`, `2 * i + 1` for the And gate at loop
index `i`), so nothing rests on what `tccr_hash` computes. `Setup` fixes an
offset, a key and inputs; each `Garble...` and `Evaluate...` action is one arm
of the loop body of `garble_functionality` and `evaluate_functionality`. The
input phase is abstracted to its result: a FALSE-label drawn freely and the
evaluator's label for the value. Labels from the stream are any block.
`Receive` is the slice the evaluator takes for one circuit of
several; a missing entry (`InvalidLength`) leads to stage `"error"`. The two
garblers are one: they run the same function on a setup that `GarblersAgree`
says is the same.

#### The relay and the protocols over it

*Tasks.* A host's calls are the `Script` of its plan. `at[i]` is the call party
`i` runs, `step[i]` the number of awaits of that call it has passed, `loc[i]`
the local values that live across an await, `result[i]` what its calls
returned. A step runs from one await to the next, all of it: what is received
is checked, labels are drawn, messages are sent, the tag counter advances. The
relay keeps a message under sender, receiver and tag (`mail`); `asked[i]` are
those the running round waits for. A round ends when all of them are there, in
whatever order they came. `Finish` returns an error before it returns a value;
a `panic` of the task is an error like others to its peers.

*Tags.* `counter` is the `u32` of the relay wrapper, `TakeTags` the number a
call takes even where the party sends nothing. `run_common_randomness` alone has
a tag outside the counter.

*Labels.* `yao[i]` is the `YaoSetup` with the position `pos` of its label stream;
`Draws(i, n)` are the next `n` draws of the function that runs. Every function
that draws lists its draws in the order of the code. What it computes from
them is an operator of `YaoShares` or `YaoCircuit` with the code's name:
messages, the checks (operators `...Error` that name the error returned first)
and the resulting share. `YaoBit` and `BinaryBit` say what bit three shares
hold.

*Batches.* The batch form of a function is an operation of its own where its
tags, order or checks differ.

*Faults.* A plan names how often a round may be lost and the rest started over
(`Lost`, `Retry`: hosts go on with their setups, from the first call not all
have finished), and whose hosts may give up and broadcast ABORT. `AskAbort` are
the parties whose relay called `init_abort`.

*Derivations* are scripts: `ZcashDerivation`, `FirstChild`, `DeriveChildKey`,
`BatchDeriveChildKey`, `ExtendedKeyDerivation` and `RssToYao` list the calls and
the wires handed from one to the next as the functions do. Between them stand
`shamir_to_rss`, `common_randomness`, `yao_to_rss` and `require`, which is the
caller's `if` on the opened verification bit. Circuits of a scalar are built in
`MCDerivation` over three bits: same inputs, same first output, a modulus of 5.

#### Key generation

A session's `phase` and `pending` are those of `Session`. `recv_message` ignores,
collects or processes, `handle_messages` is the match on the phase with the
library's round behind it (`Accepts`: three messages of this round, of three
senders). The derivation is a dataflow `steps`: what it sends, after what.
`refused` and `told` are history and host. `Settings` say what the transport
keeps in order, whether it echoes a broadcast to its sender, delivers twice or
before a session exists, and whether the derivation may fail.

#### Arithmetic, hashes, the label stream

The builders of `arithmetic.rs` and `comparison.rs` are functions from bits to
bits; that `add_circuit` puts circuits together soundly is `CopySound`.
`HashCircuits` treats a compression as a tuple of what went in, so two digests
are equal exactly when the same blocks with the same counters were compressed.
`Taken` is `new_inputs(len as u16)`: a circuit has the length's remainder by
`InputLimit` (65536) of inputs, while the padding is that of the whole length.
`LabelStream` gives every byte its origin: counter, nonce and place in the
block.

### 2.2 The abstract specifications

`KeyRelease` knows only who has spoken and who has keys: a garbler confirms,
the evaluator opens when both have confirmed, a garbler decodes after that, the
evaluator completes when both garblers have decoded. `DerivationSession`
implements it with `done <- {p \in Party : phase[p] = "Done"}` and `said` as it
is.

`IdealYao` knows the plain bits: one call after the other yields the bits it
promises. `YaoRelay` implements it with `plain` as what the shares of the three
parties hold for every call that all of them have finished. Parties may be
calls apart; the step that finishes a call for the last of them is the abstract
step, all others stutter. A wrong label, a draw out of step, a swapped message
or a check that lets garbage through turns into a bit that is -1 or not the
promised one.

## 3. Runs

| Run | Instance | Question | Answer |
|---|---|---|---|
| `SessionAnyOrder` | any order of delivery, batches of 1-2, cancellation, fair hosts; party 1's share fits or does not | Does the buffer make the session independent of the order? What is refused, is anything opened when shares do not fit, and does anybody wait for ever, also after a negative bit that only the evaluator is sent? | What is not refused is kept and used (`QuiescentIsDone`); only the seven kinds of `KnownRaces` are refused and, when shares do not fit, labels and negative bits (`OnlyKnownRaces`); nothing is confirmed or released then (`OpensWhatFits`); `FreshLabels`; `Settles` |
| `SessionFaults` | pairs in order, one re-delivery or misdirected batch, hosts go on after errors | Can a fault open the output early, or wake a finished session? | no: `TypeOK`, `OutputInOrder`, `ImplementsRelease`, `EndIsFinal` |
| `SessionStale` | one stale message of any kind at any time | Can a session end with foreign keys, or the garblers diverge? | no: `KeysAreOurs`, `GarblersAgree` |
| `EarlySetup` | pairs in order, no faults | Are early messages buffered during the setup? | **violated**, see 3.1 |
| `EarlyInput` | one global order per inbox | Is a message fed once and in order always taken? | **violated** |
| `DuplicateInput` | one fault | Is a re-delivered message refused? | **violated** |
| `GarbledCircuits` | circuits of 3 gates, a circuit of up to 2 gates copied in, two-bit blocks, all labels and offsets | Is the copy correct, does evaluation give the plaintext result, with exactly the tables garbling made? | yes: `CircuitOK`, `CopySound`, `LabelsMatch`, `DecodesRight`, `TablesFit` |
| `Relay` | seven plans, below | Do the relay protocols compute the plain result in every interleaving? Do parties stay in step, is every message read, does a wait end? | yes: `Implements`, `InStep`, `NothingUnread`, `WaitsEnd`, `TypeOK`; the one failure of an undisturbed run is `OnlyFreePanics` |
| `Derivation` | four plans over the field of five | Do conversions and derivations keep the secret, and shares that do not fit get nowhere? Do ten buffered messages suffice? | yes: `ConversionsKeepTheSecret`, `DerivesFromTheSecret`, `KeyPairsHoldTheBits`, `RoundTripKeepsTheKey`, `BufferSuffices` (five do), `WaitsEnd` |
| `Keygen` | four settings, fair hosts | Of what does a session fail or wait for ever? | of what `FailsOnlyOfRaces` and `StrandedOnlyEarly` name; else `Settles`, `AllShare`; `EndIsFinal`, `TypeOK` |
| `KeygenRace` | pairs in order, each message once | Does no session fail of the order alone? | **violated** |
| `Parts` | numbers of up to 4 bits; keys of up to 10 and messages of up to 25 bytes, inputs of less than 24; a generator of 2 words a block, 2 x 3 blocks | Are sums, comparisons, hash circuits and the stream what they stand for? | yes, within the limits of 3.2: `SumExact`, `ComparesExact`, `SharingsVerified`, `HashesStandard`, `MatchesReference`, `DrawnOnce` |

### Bounds, fairness, deadlock

*Sessions.* Three parties, the number the code fixes. Batches of two are enough
to interleave the loop's restart with a message put back in the same call;
larger batches only join calls. One fault and one stale message are placed at
every point of the protocol and may be of every kind; the theorems of section 4
remove these bounds for what they state. `FreshLabels` compares what is in
transit, in buffers and in slots: with any order of delivery and every prefix of
the run, that is every pair of messages of a garbler. In
`SessionAnyOrder` the misfit is party 1, a garbler, which may also enter the right
share: one run has both kinds of behaviour. After the wrong one both garblers read
a negative bit, in either order, and one may have failed or aborted before the
other reads it. In the other session runs all shares fit. Theorem `OpenedFits` is
for any party and for stale messages, the TRUE bits of an earlier run whose shares
did fit among them.

*Circuits.* Three gates with a copied circuit of two are enough for a copy that
meets a constant its surroundings have already, and for one that introduces it,
and for an And gate behind a constant, so that entries can shift. Two bits give
a block a bit beside the lowest; `MixedHash` is not linear and depends on key
and tweak. Section 4 removes all of these bounds.

*Relay plans.* `inputs`: every way to enter a bit, with all bits and all halves
the evaluator may draw, two commitment keys and two seeds. `all`: two bits of
each party at once, opened to one party at a time. `eval`: one circuit and the
four ways to map circuits over inputs, each reading outputs of the one before.
`free`: the same with circuits that have no table entries. `convert`: bits to
Yao and back, single and in batches, of converted values. `faults`: every kind
of share, one lost round anywhere and a restart. `aborts`: two hosts that may
give up at any time; the third party does not listen for ABORT messages. Blocks have six
bits, wide enough that different draws are different labels; the stream, the
hash and the offset are fixed pseudo-random functions. Values, halves and
speeds are explored exhaustively; labels are samples, and the
theorems about `YaoShares` and `GarbledCircuit` hold for all of them.

*Derivation plans.* `zcash`: Shamir shares of every scalar on two lines, two sets
of seeds. `misfits`: shares that are on no line, two parties with one seed.
`keys`: a path of two keys and two more children in a batch. `roundtrip`:
replicated shares of scalars, torn ones included, to Yao and back to a key pair
(with all the evaluator's parts). The field has five elements and a scalar three
bits, so bit patterns above the modulus exist. `BufferSuffices` runs with a bound
of 5 instead of the code's 10: half of it is never exceeded.

*Keygen settings.* `ordered`: one queue per inbox and broadcasts echoed to their
sender. `faulty`: only pairs in order, one message delivered twice, derivations
that may fail and hosts that then send Abort. `early`: messages may reach a
session before it made its first. `twice`: the same with the derivations of
`faulty` and one message delivered twice, so that early messages can be of
either round and of a derivation, and come again. Section 4 has all theorems for
any number of steps a derivation takes.

*Parts.* Every modulus and every number of up to four bits, three parts added
(two at four bits). Blocks of 64 bits with a length field of 16 and digests of
32: lengths up to three blocks in steps of a byte pass every remainder. A length
fits below 192 bits, where the code has 65536: messages go beyond it, and the inner
message of an HMAC reaches it. The
stream starts at any position and draws across the wrap of the low counter, of
the whole counter, and both in one draw. Section 4 removes all of these bounds.

*Fairness.* `DerivationSession!FairSpec`: weak fairness of `Call(p)`, a host
eventually hands over a message that has arrived; of `Loop(p)`, a running call
returns, as ordinary code without I/O does; of giving up after an error: hosts
that treat `Err` as fatal and tell the others, for which `Message::abort`
exists. The last one is the host's, not the crate's: a host that swallows an
error leaves its peers waiting. `KeyGeneration!FairSpec`: sessions are created,
messages in transit are delivered, and the host of a failed session sends
Abort; `Settles` and `AllShare` are conditional on the settings in which that
suffices. Nothing is assumed of cancellation or of faults. The relay has no
liveness property: every step of a task makes it advance, and a restart is
bounded, so runs end; `WaitsEnd` says of the states in which no task can go on
that whoever still waits does so for a failed peer whose failure it has no means
to learn.

*Deadlock checking* is off where the system stops: all sessions `Done`, aborted
or given up; a builder at its bound; all tasks finished, or waiting for a failed
peer (what `WaitsEnd` is about); key generation at its end. `Parts` runs with it.

*Plans and settings* are given to TLC through `Tabled...` names so that it
computes them once.

*Mutants.* For each property `PROJECT.json` names a faulty variant of one
definition, the kind of slip a change could make: dropping what was put back,
not writing back the stream, comparing too little, appending a cached constant
again, leaving the offset's lowest bit as drawn, taking a neighbour for the
other one, drawing one label less, keeping a result over a restart, counting
blocks instead of bytes. The variants stand next to the definitions (comment
"Faulty: ..."). With the variant in place TLC finds the property violated in
the same run.

### 3.1 What the violated runs show

* **`EarlySetup`.** The setup states put back only `KeyNext` and `PrfSeed`
  (`setup_yao.rs`). A `ShamirToRss` share can also overtake: party 0 enters
  `ShamirToRss` as soon as it has party 2's key, whatever party 1 has
  received. A party 1 whose CRS is late refuses that share and the run
  fails on timing alone. The same for the evaluator in `WaitGarbleKey` and a
  share of party 1.
* **`EarlyInput`.** In `EvaluatorWaitMsg1` the evaluator files any batch-input
  message. When one garbler's `GarblerInputCommit` has come and its
  `GarblerI3Commit` arrives before the other garbler's first message, the slot
  is occupied and the message is refused instead of put back. It happens even
  with one queue per inbox, because it is the relative speed of the *garblers*
  that matters.
* **`DuplicateInput`.** A re-delivered `GarblerInputCommit` is stored as the
  awaited `GarblerI3Commit` of that garbler; it is the genuine message that is
  then refused.

* **`KeygenRace`.** `recv_message` counts messages. When a fast peer's
  second-round message comes before a slow peer's first-round one, the three
  messages do not make a round and the session is `Failed`. Each pair of parties
  keeps its order and nothing is delivered twice, which is all the function's
  comment asks for.

`KnownRaces` has seven entries. The first four kinds also occur when every pair
of parties keeps its order (`EarlySetup` and `EarlyInput` show one each); the
other three need a transport that reorders the messages of one peer.

### 3.2 What passing properties delimit

Some properties hold only with an exception they spell out. These are the places
where a reader of the code should look:

* `OnlyFreePanics`: `map_circuit_eval` of one circuit on several inputs cuts the
  tables with `chunks_exact(complen)`, which panics when the circuit has neither
  And gates nor constants (`circuit_eval.rs:181`). The other three ways of
  mapping handle such circuits.
* `SumExact`: `build_mod_add_circut` subtracts the modulus at most once
  (`arithmetic.rs:101`). With one part at or above the modulus the key stays
  congruent to the sum but may itself be unreduced; with two it may not even
  be congruent. The comment (`arithmetic.rs:16-17`) does not say that parts have
  to be reduced; the left half of an HMAC is any 256-bit number.
* `HashesStandard`: the SHA-512 circuit panics for messages of
  `len % 1024 = 896`, where padding leaves no room (`circuits.rs:275`, `:283`),
  in a debug build for every longer remainder too. The lengths of the repository's
  own derivations have another remainder. The BLAKE2b circuit is not the
  standard's for the empty message. Lengths from 65536 bits on are excluded
  (`Fits`). `build_sha512_circuit(len: u128)` makes its inputs with
  `new_inputs(len as u16)` (`circuits.rs:293`) and returns, without a panic, a circuit
  of `len mod 65536` inputs followed by the padding of `len`; no message has that
  hash. A caller that passes `len` wires to `add_circuit` is stopped by its
  assertion, as the inner hash of an HMAC is; one that made its wires with
  `new_inputs` too is not (a long HMAC key, `circuits.rs:201`). The BLAKE2b circuits
  hash the first `len mod 65536` bits (`blake2b.rs:109`, `:159`). The repository's
  derivations hash less than 2048 bits at once.
* `KeyPairsHoldTheBits`, `RoundTripKeepsTheKey`: the parties are honest, and then
  the `assert_eq!` and `unwrap` of `yao_to_rss` (`yao_to_rss.rs:502`) hold. What a
  task that panics there leaves its peers with is not explored.
* `MatchesReference`: the cipher is external and an ideal counter. A version of
  the cipher crate that refuses the last block of a counter's cycle instead of
  wrapping would panic at the wrap; the repository's test starts two words before
  it (`label_prf.rs:239`).
* `StrandedOnlyEarly`: messages taken before `create_first_message` are pushed
  in front of the session's own, and nothing looks at the count then: with both
  peers' messages in, the round is complete and never processed (`dkg.rs:195`,
  `:225`).
* `WaitsEnd`: only relays on which `init_abort` was called see ABORT messages
  (`utils.rs:44`); the others wait.
* `Settles` of key generation: without Abort messages of the hosts, peers of a
  failed session wait for ever.
* `DrawnOnce`: the stream repeats itself only after a host moved it or restored
  an older snapshot; nothing in a snapshot tells that it is older.

## 4. Proofs

`DerivationSessionProofs` proves, for every set of runs, transport order, batch
bound, number of faults and host policy:

| Theorem | States |
|---|---|
| `TypeCorrect` | `Spec => []TypeOK`: phases match roles, buffers hold only messages for their owner and no Abort |
| `EndsForGood` | `Spec => EndIsFinal` |
| `OpeningInOrder` | if `MaxStale = 0`, `Spec => []OutputInOrder` |
| `Implements` | if `MaxStale = 0`, `Spec => ImplementsRelease` |

*Argument.* None of the properties is inductive alone. `OutputInOrder` says the
evaluator opened after both garblers confirmed, but the evaluator decides on
the messages in its slots. The inductive invariant `IInv` therefore adds to
type correctness that (a) what is in transit, buffered or in a slot *tells the
truth*: a TRUE `Bit` of a garbler exists only once that garbler is in `said`,
`Labels` only once the evaluator is, `Bits` only once the sender has keys
(`Truthful`); (b) a slot holds a message of the peer it is the slot of and of a
kind the phase collects; (c) a finished session has an empty buffer and no
running call; (d) only the active session can have something ready. Each
action's preservation is a lemma; `Invariance` combines them. `Truthful` is what
fails with a stale message: a TRUE bit of an earlier run is in transit although
nobody of this run has confirmed, which is why two theorems assume
`MaxStale = 0`. With `MaxStale = 1` TLC does find `OutputInOrder` violated: the
evaluator can be made to release output labels by a bit of an earlier run. The
keys that result are still this run's (`KeysAreOurs`), and no text of the
repository promises the order across runs.

Its second part proves, again for every transport order, batch bound, number
of faults and host policy, and for any number of earlier runs one message of
which is still in transit:

| Theorem | States |
|---|---|
| `AgreedSetup` | `Spec => []GarblersAgree` |
| `KeysOfThisRun` | `Spec => []KeysAreOurs` |
| `LabelsFresh` | `Spec => []FreshLabels` |
| `OpenedFits` | `Spec => []OpensWhatFits`, whoever the misfit is |

*Argument.* `Traces` is inductive together with `IInv`. It names the one message
`late` that may be of an earlier run and says of every other message, slot,
context and wire which runs its value was computed from, as a function of the
phases of sender and owner: what a garbler of this run sends in the setup is this
run's; a message whose content depends on something received is this run's if
that was, and the late message can have got into it only where the phase says.
`KeysAreOurs` needs all of it: a session's last check compares values that came
by two ways (the CRS twice, labels and the offset they are checked against, the
bits of both garblers), and `late` is on at most one of them. For `FreshLabels`
it says that a message with labels was made before the position its sender's
stream has reached, and after which of the three draws.

`OpensWhatFits` is a part of the same invariant, `Confirmed`, with the phases in
which it holds. The evaluator keeps its wires from the step that sends the labels
on, so a label of this run tells what they hold (`Opening`), and a garbler's check
bit is TRUE only if that is of one run, hence of this one. A label of an earlier
run whose shares did fit matches none of this run's wires. The late message can
be a TRUE bit, and the evaluator then still holds at most one of the two it needs;
the other tells the truth about the wires.

Its third part proves, for every order of transport, batch bound and host
policy:

| Theorem | States |
|---|---|
| `RefusalsAreRaces` | if `MaxFaults = 0`, `MaxStale = 0` and `Misfit = Nobody`, `Spec => []OnlyKnownRaces` |
| `DeliveredIsDone` | if `MaxFaults = 0`, `MaxStale = 0` and `Misfit = Nobody`, `Spec => []QuiescentIsDone` |

*Argument.* `Exchange` is inductive together with `IInv`. It numbers the stages of
garblers and evaluator alike and gives every kind of message the stage that sends
it (`SentAt`) and the one that takes it (`TakenAt`). Of each party it says: the
messages around it (in transit, buffered, in a slot) are of senders that have
come to `SentAt`, while it is not past `TakenAt` (`Fits`); none is around
twice (`Single`); a slot holds what its phase collects and is emptied when two
match (`Filed`); what was sent and not taken *is* around (`Complete`); and what it
is past taking was sent (`Obeys`). A refusal is then a message met at a stage
other than the one that takes it and not put back, and going through the stages
leaves `KnownRaces`. `QuiescentIsDone` needs no further invariant: stage by stage,
whoever stands at a stage waits for messages which the others, shown to be past
the stages before, have sent (`Complete`); so one is around, not in transit, hence
in the buffer, where the last call has left nothing its phase takes (lemma
`NothingLeftBehind`).
The hypotheses are what the properties are about: a message that comes twice
or to the wrong party is refused, so may a stale one be, and the label of shares
that do not fit is, and after a
refusal there is nothing to promise (run `DuplicateInput`).

`GarbledCircuitProofs` proves, for circuits of any size and shape a builder makes,
and for every hash, block length, key, offset and label:

| Theorem | States |
|---|---|
| `WellBuilt` | `Spec => []CircuitOK` |
| `CopiesCompute` | `Spec => []CopySound` |
| `LabelsCorrect` | `GSpec => []LabelsMatch` |
| `Decoding` | `GSpec => []DecodesRight` |
| `Fitting` | `GSpec => []TablesFit` |

They assume only `CircuitBounds` (bounds are natural numbers), `LsbAssumption`
(the bit that `lsb` reads is one of the block's) and `HashAssumption` (a hash is
a block).

*Argument.* `CopySound` speaks of valuations; the inductive invariant says
instead that the gate at `map[j]` *is* the copy of gate `j` (`Copied`), which
stays true while the circuit grows at its end. For garbling, `LabelsMatch` is
inductive only with a record of how every label and table entry was made:
`Layout` says of each garbled gate that its label and its entries, at the
position `row[i]`, are those of its operands' labels, and that evaluation stands
at the position of its next gate. Each arm of the evaluation loop is then
one fact of block algebra: `FreeXor`, `FreeInv`, and `AndOpens`, which rests on
`HalfGates`, a case split over the two permute bits and the two values.
`Decoding` adds that the offset has its lowest bit set. `Fitting` needs that the
builder's two counts are the sum of entries over its gates (`CountInv`), hence
that a constant is appended only when it is new. `row` is the witness of an
existential and grows by one element per step: no theorem does induction over
the circuit.

`YaoRelayProofs` proves, for every script of calls, everything the hosts may run
it with (keys, seeds, inputs, halves, masks), and with lost rounds, ABORT messages
and restarts:

| Theorem | States |
|---|---|
| `RelayTypeOK` | `Spec => []TypeOK` |
| `EveryLetterRead` | if `Unwrapped`, `Spec => []NothingUnread` |
| `NoCircularWait` | if `Unwrapped`, `Spec => []WaitsEnd` |
| `GarblersInStep` | if `Unwrapped` and `PlainPlans`, `Spec => []InStep` |

They assume `RelayAssumption` and `PlansAssumption`: the counter's range is
positive, calls are a sequence, who is named in a call is a party, and offsets are
blocks. `Unwrapped` says that four tags for each call of a script are fewer
than the counter has: 2^32 in the code. The runs, with 16, let it wrap and find the
properties hold there too, as tags meet again only when the counter has gone all
the way round. `PlainPlans` says that a script has only the calls of
`YaoRelay`, and that both garblers bring equally many bits to a call, as the
callers of `input_from_all` do; garblers that bring different numbers of bits
draw different numbers of labels. All plans of the run satisfy it.

*Argument.* None of the four can be seen from a state alone: that a letter will be
read depends on what its receiver's next await asks for. The proof first
writes down each protocol as the *letters* of a call: who sends what to whom
after which await, and which await takes it. `StepMoves`, one lemma per protocol,
says that every step of a task sends the letters its place in the call says and
takes those it awaited. Tags count calls: at the same place in the script, every
party's counter is the same number, and with `Unwrapped` different places have
different numbers (`Apart`). The inductive invariant `Relayed` then is a ledger: the
relay holds exactly the letters whose sender has passed the step that sends
them and whose receiver has not passed the await that takes them. At the end of
the script that is nothing (`EveryLetterRead`). For `NoCircularWait`, of parties that
all wait, take those at the first call anyone is in: whoever waits there waits for
a letter of a party that waits in the same call and sends that letter after an
await of its own, and the table of letters has no circle of these, for no letter
sent after an await is needed for one sent before it. What is
left is a party that waits for one that failed and cannot learn of it. For
`GarblersInStep` the ledger is extended by what the letters say: the setup gives
both garblers one seed, and the invariant `Ordered` names for each call `k` the
setup `y[k]` both garblers begin it with. Each protocol moves it by a number of
draws that depends on the call alone (`Midway` tells where in the call they are
drawn).

The same module proves, for every offset, draw, mask and commitment key, what
the protocols compute between their awaits:

| Theorem | States |
|---|---|
| `LabelsDecode` | a garbler accepts the label of a bit and decodes it to that bit; every label it accepts is that of the bit it decodes |
| `InputOfGarbler` | the evaluator accepts a garbler's honest input and then has the label of its bit |
| `InputOfEvaluator` | the labels of the evaluator's two halves add up to the label of its bit |
| `BitToYao` | a replicated bit becomes a label of that bit, and the evaluator's checks accept the messages |
| `YaoToBit` | a Yao share becomes a consistent replicated sharing of the bit it held, whatever the mask |

They assume `LsbAssumption` and `CommitAssumption`: a commitment opens in one
way. `LabelSum` (labels of two wires add up to a label of the sum) carries most
of the weight; `YaoToBit` is a case split over the permute bits of masked labels
at three parties. These theorems are about the functions; that the protocols call
them on matching draws is `GarblersInStep` and `EveryLetterRead`; both together,
over whole scripts, are what TLC checks as `Implements`.

`SecretSharingProofs` and `DerivationRelayProofs` prove, for every prime order and
evaluation points, every script of a derivation's calls with everything the
hosts may run it with, and with lost rounds, ABORT messages and restarts:

| Theorem | States |
|---|---|
| `ConversionsFaithful` | if `Unwrapped`, `DerivationSpec => []ConversionsKeepTheSecret` |
| `GadgetCarriesTheNumber` | a gadget evaluated on the labels of bits gives `alpha` times their number plus `beta` |
| `KeyPairsHoldTheNumber` | the messages of a key-pair conversion of consistent Yao shares pass every check of the three parties; both gadgets unmask to the number of the bits, and so do the parts the parties keep, whatever is drawn |

They assume `FieldAssumption` (numbers other than 0 have inverses, the points of
the parties differ and none is 0), `LsbAssumption`, and of scripts
`PlansAssumption` and `DerivationAssumption`: common randomness is made once and
before the conversions that use it, as in all derivations of the code (its tag is
not a counted one, so two of them in one relay could be mistaken for each other),
a conversion is of the host's own share, and shares are scalars. The last two
theorems are about the functions, and have as hypotheses that the offset has its
lowest bit set, that the kdf gives scalars and, for key pairs, that no multiplier
is 0.

*Argument.* Of fields little is needed: two numbers are `Same` if they differ by a
multiple of the order, sums and products of same numbers are the same, and a
number that is not 0 can be cancelled. Interpolation through two points of a line
gives the others (`Interpolates`); so the check of a reconstruction passes exactly
when three shares are on a line (`LinePasses`, `PassesLine`). The parts of common
randomness, each known to two parties, give three shares on a line
(`MaskOnLine`): padding adds a line to a line, and takes nothing that is none to
one (`LineConverts`, `OnlyLines`). That the protocol computes this is the
inductive invariant `Faithful`, once more a statement about letters: `c` numbers
the tags of every call, which all parties count alike; what is in the relay under
the tag of a conversion is the padded share of its sender, and under that of the
common randomness its seed (`Fits`); a party in the middle of a conversion waits
under that call's tags and keeps the share of its neighbour (`Waiting`); and what
a call has left a party with is what it promises (`Outcome`). All other protocols
are shown to touch none of this (`Elsewhere`) but to take as many tags as
counted. The property alone is not inductive: it says nothing before the last
party has finished.

For the gadget, one bit adds the offset and, if it is set, its weight: a case split
over the bit and the lowest bit of the FALSE label (`GadgetTerm`); sums of vectors
follow (`SumsOf`). In a key pair the shift the garblers draw adds up to
`beta / alpha` and the parts of the evaluator to the masked key, so dividing and
subtracting part by part takes the mask off the sum (`PartsHold`).

`KeyGenerationProofs` proves, for every set of settings: any derivation (how many
steps, what it answers and to whom), any transport order, hosts that abort or go
on:

| Theorem | States |
|---|---|
| `KeygenTypeOK` | `Spec => []TypeOK` |
| `FailuresAreRaces` | `Spec => []FailsOnlyOfRaces` |
| `EndsAreFinal` | `Spec => EndIsFinal` |
| `NobodyIsForgotten` | `Spec => []StrandedOnlyEarly` |

They assume `StepsAssumption` (a derivation takes and sends messages) and, the
last, `FlowAssumption`: every derivation waits for something, and three that have
got everything sent so far do not wait for each other in a circle. For the
derivation the code runs, the latter is theorem `DeliveredIsDone` above.

*Argument.* A session fails of a round it passed only if the transport delivered
something twice, which no message in hand shows. The inductive invariant follows
the messages: a session keeps exactly one message of its own while it waits
(`OneOwn`, `Kept`), a message of a round is around only if its sender sent it
(`Known`), a session passes a round only when all have sent theirs (`Passed`), and
while nothing was delivered twice each message of a round is around once and none
of a round already passed (`OnceOnly`). What `create_first_message` lets in early
is the one case in which the count is not below `PARTICIPANTS`.

`NobodyIsForgotten` speaks of states in which nothing is in transit, so the
invariant has to say that nothing gets lost on the way. `FlowInv` holds while no
session failed and none kept too much before it was created: every message sent is
in transit, kept, or was taken (`SecondCame` for the second round, `DerivedCame`
for the derivation), and of the sessions that wait for round 1, the one created
first has or will get the first messages of all (`FirstCame`: one created
later sends to it afterwards). With nothing in transit a session
in round 1 or 2 would hold a message of every party, which ends the round; so all
are in their derivations, and `FlowAssumption` gives one that has what its next
step needs, and would have taken it.

`PartsProofs` proves, for words, blocks and counters of every width, and for keys
and messages of every length that fits a circuit's input and makes no build panic:

| Theorem | States |
|---|---|
| `LabelsMatchReference` | `Spec => []MatchesReference` |
| `LabelsDrawnOnce` | `Spec => []DrawnOnce` |
| `HashesAreStandard` | `Spec => []HashesStandard` |
| `SumsAreExact` | `Spec => []SumExact` |
| `ComparisonsAreExact` | `Spec => []ComparesExact` |
| `SharingsAreVerified` | `Spec => []SharingsVerified` |

They assume `WidthsAssumption`, `BoundsAssumption`, `HashBounds` and `SumBounds`
(the widths and bounds are numbers, the widths positive, and a block and a digest
together fit an input); the last three hold for numbers of every
width, every modulus and any number of parts. *Argument.* The stream's invariant gives the byte
the buffer stands at as a number, and the reference's bytes are those of one wide
counter: that the code's two counters and its index are that number's digits is
division with remainder (`NumberLemmas`). The words drawn are then an
interval, so a word is drawn twice only where the stream went back. The hash
circuits' paddings are sequences; both sides are shown to have the same length and
the same element at each place.

The circuits of numbers are recursive functions, over bits, over positions
apart by powers of two, and over ranges of bits cut in halves. That such a function
exists is `Recursion`; what it computes is followed step by step with `Climb`.
`2^n` is read as the number of subsets of `n` elements, which gives its
doubling. The comparison of two ranges is decided by their highest different
bit, which is true of the halves together if it is of each; the recursion also
mentions empty ranges, where it holds trivially. Of the prefix adder the
invariant (`Wave`) says that after `k` steps each position knows the carry out
of the `2^k` positions below it, so after the last one it knows that of all.
Subtraction adds the complement. `SumInv` finally says that the key is a number
of the right width, equal to the reduced sum while all parts were reduced and
congruent to it with a single larger one: `build_mod_add_circut` subtracts the
modulus at most once, and the two cases are where that is enough.

Recursive functions are proved about by `NatSet`, induction stated of a set of
numbers, which follows from `WFMin` of the library; a lemma with an operator
parameter would be out of the provers' reach.

*Only model-checked*: liveness (`Settles`, `AllShare`), which is outside the
prover's reach, and of safety

* `Implements` (of `IdealYao`) and `OnlyFreePanics`: that every opened value of a
  script is the plain one. Their inductive invariant would have to carry the values
  of all wires of all calls through every protocol at once, on top of `Ordered`;
  the functions that would have to be composed are those of `GarbledCircuitProofs`
  and the second table of `YaoRelayProofs`;
* the derivation's `DerivesFromTheSecret`, `KeyPairsHoldTheBits` and
  `RoundTripKeepsTheKey`, which rest on the former: of the conversion into key
  pairs `KeyPairsHoldTheNumber` proves what it computes from consistent Yao
  shares, not that the shares it gets are consistent;
* `BufferSuffices`, which is a matter of particular scripts: a party that only
  sends may run ahead of the others without a bound.

## 5. Not modelled, and why

* Cryptography: hiding and binding of commitments, pseudo-randomness, garbling
  privacy. Values are ideal.
* The Bristol-format parser and the compact circuit form (`circuit.rs`), the
  build script and the benchmarks: text and byte processing without protocol
  state.
* The prebuilt circuits (one compression of SHA-512 and BLAKE2b, large
  comparators): circuit files. What is built around them is in `HashCircuits`
  and `Arithmetic`.
* The child circuits of hd-migration are built from opened public keys and chain
  codes; the scripts take small circuits of the same shape. Points of the curve
  are the scalars they are multiples by, so their encodings are left out.
* `Invert` of a zero `alpha` (a draw of negligible probability that panics) is left
  out: scalars drawn from the stream are not zero.
* `batch_input_yao_from_functionality` and the stand-alone setup of a garbling
  key exist in test builds only.
* The key generation library (`multi_party_schnorr`) and the relay transport
  (`sl_messages`) are external; encodings and signatures of relay messages are
  left out, a message that does not decode is a lost round.
* Snapshots of a whole session: `LabelStream` has those of the stream, the
  other serialisable types are byte copies. What replaying a session from an
  older snapshot does is not modelled.
* Decode errors after a garbler has sent its bits (zero scalar).

## 6. Plan

In order of importance:

1. `Implements` as a theorem: the values of a call's wires as a further part of
   `Ordered`; with it `KeyPairsHoldTheBits`, from `KeyPairsHoldTheNumber`.
2. Hosts that save and restore whole sessions, on `DerivationSession`.
