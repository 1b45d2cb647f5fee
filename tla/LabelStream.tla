---------------------------- MODULE LabelStream ----------------------------
(***************************************************************************)
(* LabelPrf (src/src/utilities/label_prf.rs): the stream wire labels are   *)
(* drawn from, in words of a cipher whose counter is narrower than that of *)
(* the generator it stands in for, and its snapshots                       *)
(* (SerializableLabelPrf).                                                 *)
(*                                                                         *)
(* A byte of the cipher's output is represented by where it comes from: a  *)
(* byte of a block, the counter of the block and the nonce of the cipher.  *)
(***************************************************************************)
EXTENDS Naturals, Sequences, FiniteSets

CONSTANTS
    WordBytes,   \* bytes in a word, 4 in the code
    BlockWords,  \* words in a block, 16 in the code
    LowBlocks,   \* blocks the cipher counts, 2^32 in the code
    HighBlocks,  \* values of the counter's high word, 2^32 in the code
    Streams,     \* stream identifiers
    MaxFill,     \* most bytes asked for at once
    MaxWords     \* draws end when so many words are drawn

ASSUME WidthsAssumption == {WordBytes, BlockWords, LowBlocks, HighBlocks} \subseteq Nat \ {0}
ASSUME BoundsAssumption == MaxFill \in Nat /\ MaxWords \in Nat

BLOCK_BYTES == WordBytes * BlockWords
WordPositions == LowBlocks * HighBlocks * BlockWords

VARIABLES
    stream, word_pos,  \* the state of the generator
    saved,             \* the states of snapshots that were taken
    out,               \* what the last call returned, and of which state
    drawn,             \* history: the words drawn, of every stream
    repeated,          \* history: one was drawn a second time
    rewound            \* history: the generator was moved or restored

streamvars == <<stream, word_pos, saved, out, drawn, repeated, rewound>>

Smaller(a, b) == IF a < b THEN a ELSE b

\* `n` bytes of the cipher with this nonce, from byte `at` of its keystream:
\* its counter wraps.
Keystream(nonce, at, n) ==
    [k \in 1..n |-> LET b == at + k - 1 IN
        [nonce |-> nonce, counter |-> (b \div BLOCK_BYTES) % LowBlocks, byte |-> b % BLOCK_BYTES]]

\* What the generator it stands in for returns: bytes of blocks under one wide
\* counter.
Reference(s, pos, n) ==
    [k \in 1..n |-> LET b     == pos * WordBytes + k - 1
                        block == (b \div BLOCK_BYTES) % (LowBlocks * HighBlocks)
                    IN  [nonce |-> <<block \div LowBlocks, s>>, counter |-> block % LowBlocks,
                         byte |-> b % BLOCK_BYTES]]

\* Faulty: the cipher is not rebuilt when its counter wraps.
generateOnce(s, pos, n) ==
    LET block_pos == (pos \div BlockWords) % (LowBlocks * HighBlocks) IN
    Keystream(<<block_pos \div LowBlocks, s>>,
              (block_pos % LowBlocks) * BLOCK_BYTES + (pos % BlockWords) * WordBytes, n)

\* generate, by what remains to be written: as far as the cipher's counter
\* goes, and the rest from a cipher with the next high word.
generate(s, pos, n) ==
    LET rest[r \in 0..n] ==
          IF r = 0 THEN <<>>
          ELSE LET byte_pos == pos * WordBytes + (n - r)
                   block_pos == (byte_pos \div BLOCK_BYTES) % (LowBlocks * HighBlocks)
                   byte_in_block == byte_pos % BLOCK_BYTES
                   low_counter == block_pos % LowBlocks
                   bytes_until_wrap == (LowBlocks - low_counter) * BLOCK_BYTES - byte_in_block
                   take == Smaller(bytes_until_wrap, r)
               IN  Keystream(<<block_pos \div LowBlocks, s>>,
                             low_counter * BLOCK_BYTES + byte_in_block, take) \o rest[r - take]
    IN  rest[n]

\* The words that n bytes use up.
Words(n) == (n + WordBytes - 1) \div WordBytes

\* A history ends before a stream does, which in the code has 2^68 words.
ASSUME HistoryAssumption ==
    \A n \in (0..MaxFill) \cup {WordBytes, 2 * WordBytes} : MaxWords + Words(n) <= WordPositions + 1

\* Faulty: the position is not restored.
from_stateStart(state) == [stream |-> state.stream, word_pos |-> 0]

\* A generator of a state: offsets wrap.
from_state(state) == [stream |-> state.stream, word_pos |-> state.word_pos % WordPositions]

-----------------------------------------------------------------------------

\* fill_bytes, and next_u32 and next_u64 of one and two words.
fill_bytes(n) ==
    LET touched == {<<stream, (word_pos + k) % WordPositions>> : k \in {k \in 0..n : k * WordBytes < n}}
    IN  /\ Cardinality(drawn) < MaxWords
        /\ out' = [bytes |-> generate(stream, word_pos, n), stream |-> stream, from |-> word_pos]
        /\ word_pos' = (word_pos + Words(n)) % WordPositions
        /\ drawn' = drawn \cup touched
        /\ repeated' = (repeated \/ touched \cap drawn # {})
        /\ UNCHANGED <<stream, saved, rewound>>

next_u32 == fill_bytes(WordBytes)
next_u64 == fill_bytes(2 * WordBytes)

\* set_stream and set_word_pos, to any offset.
set_position(s, pos) ==
    /\ stream' = s
    /\ word_pos' = pos % WordPositions
    /\ rewound' = TRUE
    /\ UNCHANGED <<saved, out, drawn, repeated>>

\* A host takes a snapshot of the session, or restores one; an older one than
\* the last state makes the stream repeat itself.
from_prf == /\ saved' = saved \cup {[stream |-> stream, word_pos |-> word_pos]}
            /\ UNCHANGED <<stream, word_pos, out, drawn, repeated, rewound>>

to_prf(state) ==
    LET prf == from_state(state) IN
    /\ stream' = prf.stream /\ word_pos' = prf.word_pos
    /\ rewound' = (rewound \/ state # [stream |-> stream, word_pos |-> word_pos])
    /\ UNCHANGED <<saved, out, drawn, repeated>>

StreamInit ==
    /\ stream = 0 /\ word_pos = 0 /\ saved = {} /\ rewound = FALSE
    /\ out = [bytes |-> <<>>, stream |-> 0, from |-> 0]
    /\ drawn = {} /\ repeated = FALSE

\* One jump and one snapshot in a history; it ends before a stream does.
StreamNext ==
    \/ \E n \in 0..MaxFill : fill_bytes(n)
    \/ next_u32 \/ next_u64
    \/ /\ ~ rewound
       /\ \E s \in Streams, pos \in 0..(2 * WordPositions - 1) : set_position(s, pos)
    \/ saved = {} /\ from_prf
    \/ \E state \in saved : to_prf(state)

StreamSpec == StreamInit /\ [][StreamNext]_streamvars

-----------------------------------------------------------------------------
(* Properties.                                                             *)

\* Every call returns what the generator it is compatible with returns in that
\* state, where the cipher's counter wraps and where the wide one does.
MatchesReference == out.bytes = Reference(out.stream, out.from, Len(out.bytes))

\* No word of the stream is drawn twice unless a host moved the generator or
\* restored a snapshot of an earlier state: a label
\* drawn twice under one offset would be the label of two wires.
DrawnOnce == repeated => rewound

=============================================================================
