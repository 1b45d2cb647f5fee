---------------------------- MODULE HashCircuits ----------------------------
(***************************************************************************)
(* How the hash circuits cut, pad and chain their input: SHA-512 and HMAC  *)
(* of crates/hd-migration/src/circuits.rs, BLAKE2b and PRF^expand of       *)
(* crates/zcash.  A message is the sequence of its wires.  The prebuilt    *)
(* circuits of one compression are external: a chaining state is the tuple *)
(* of what was compressed into it.                                         *)
(*                                                                         *)
(* The state machine is a key and a message that grow byte by byte.        *)
(***************************************************************************)
EXTENDS Integers, Sequences

CONSTANTS
    BlockBits,       \* 1024
    LengthBits,      \* 128, the length field of SHA-512
    DigestBits,      \* 512
    InputLimit,      \* 65536: a circuit counts the wires of an input in a u16
    OverflowChecks,  \* a debug build
    MaxKeyBytes, MaxMsgBytes

ASSUME HashBounds ==
    /\ BlockBits \in Nat \ {0} /\ BlockBits % 8 = 0 /\ LengthBits \in 1..(BlockBits - 1) /\ DigestBits \in 1..BlockBits
    /\ InputLimit \in Nat /\ BlockBits + DigestBits < InputLimit
    /\ OverflowChecks \in BOOLEAN /\ MaxKeyBytes \in Nat /\ MaxMsgBytes \in Nat

VARIABLES hkey, msg

hashvars == <<hkey, msg>>

-----------------------------------------------------------------------------

\* n wires of a constant; wires of the bits of number x, lowest or highest first.
Const(n, b)  == [i \in 1..n |-> <<b>>]
BitsLe(x, n) == [i \in 1..n |-> <<(x \div 2^(i - 1)) % 2>>]
BitsBe(x, n) == [i \in 1..n |-> <<(x \div 2^(n - i)) % 2>>]

\* builder.negate, of a wire or a constant.
NegateWire(w) == IF Len(w) = 1 THEN <<1 - w[1]>> ELSE <<"not", w>>

\* builder.new_inputs(len as u16): the wires a circuit for m really has.
Taken(m) == SubSeq(m, 1, Len(m) % InputLimit)

Digest(state) == [i \in 1..DigestBits |-> <<"digest", state, i>>]

\* The i-th piece of BlockBits wires, the last one as long as it is.
Chunk(m, i) == SubSeq(m, BlockBits * (i - 1) + 1, IF BlockBits * i < Len(m) THEN BlockBits * i ELSE Len(m))
Chunks(m)   == (Len(m) + BlockBits - 1) \div BlockBits

-----------------------------------------------------------------------------
(* SHA-512.                                                                *)

\* The zeros of the padding and the 1 before them, in u128 arithmetic.
PadBits(len) == (BlockBits - LengthBits - (len % BlockBits) + BlockBits) % BlockBits

\* repeat_n of k - 1 zeros for k = 0, and with checks already the difference
\* that is negative before a block is added, ends in a panic.
Sha512Panics(len) ==
    \/ PadBits(len) = 0
    \/ OverflowChecks /\ len % BlockBits > BlockBits - LengthBits

\* The padding is that of the whole length.
Padded(m) ==
    LET k == PadBits(Len(m))
    IN  Taken(m) \o <<<<1>>>> \o Const(k - 1, 0) \o BitsBe(Len(m), LengthBits)

\* build_sha512_circuit, when it does not panic.
Sha512(m) ==
    LET p == Padded(m)
        chain[i \in 0..(Len(p) \div BlockBits)] ==
            IF i = 0 THEN <<"get_512_chain_state">> ELSE <<chain[i - 1], Chunk(p, i)>>
    IN  Digest(chain[Len(p) \div BlockBits])

\* The key of an HMAC, brought to one block.
Resized(k) == LET short == IF Len(k) > BlockBits THEN Sha512(k) ELSE Taken(k)
              IN  short \o Const(BlockBits - Len(short), 0)

\* The wires of a key negated at some places of every byte.
PadKey(k, places) == [i \in DOMAIN k |-> IF (i - 1) % 8 \in places THEN NegateWire(k[i]) ELSE k[i]]

HmacInner(k, m) == PadKey(Resized(k), {2, 3, 5, 6}) \o Taken(m)

\* build_hmac_512_circuit.
Hmac512(k, m) == Sha512(PadKey(Resized(k), {1, 3, 4, 5}) \o Sha512(HmacInner(k, m)))

\* add_circuit refuses an inner hash that has fewer inputs than it is given.
HmacPanics(k, m) ==
    LET inner == BlockBits + Len(Taken(m))
    IN  \/ Len(k) > BlockBits /\ Sha512Panics(Len(k))
        \/ Sha512Panics(inner) \/ inner >= InputLimit
        \/ Sha512Panics(BlockBits + DigestBits)

-----------------------------------------------------------------------------
(* BLAKE2b: a compression takes the state, the bytes so far, whether the   *)
(* block is the last one, and the block.                                   *)

\* Faulty: the counter is of whole blocks.
BytesProcessedBlocks(m, i) == (i * BlockBits) \div 8

\* bytes_processed after block i.
BytesProcessed(m, i) == (IF i = Chunks(m) THEN Len(m) ELSE i * BlockBits) \div 8

\* The compressions of the wires in.
CompressAll(h, in) ==
    LET chain[i \in 0..Chunks(in)] ==
          IF i = 0 THEN h
          ELSE <<chain[i - 1], BytesProcessed(in, i), i = Chunks(in),
                 Chunk(in, i) \o Const(BlockBits - Len(Chunk(in, i)), 0)>>
    IN  Digest(chain[Chunks(in)])

\* create_blake2b_circuit and create_blake2b_zcash_circuit, which differ in
\* their first state.
Blake2b(h, m) == CompressAll(h, Taken(m))

\* build_prf_expand_circuit and build_zcash_blake2b_circuit.
PrfExpand(t, sk)  == Blake2b(<<"H_WORDS_ZCASH">>, sk \o BitsLe(t, 8))
ZcashBlake2b(sk) == PrfExpand(6, sk) \o PrfExpand(7, sk) \o PrfExpand(8, sk)

-----------------------------------------------------------------------------

Byte(name, n) == [i \in 1..8 |-> <<name, n, i>>]

HashInit == hkey = <<>> /\ msg = <<>>

GrowKey ==
    /\ Len(hkey) < 8 * MaxKeyBytes
    /\ hkey' = hkey \o Byte("key", Len(hkey) \div 8) /\ UNCHANGED msg

GrowMsg ==
    /\ Len(msg) < 8 * MaxMsgBytes
    /\ msg' = msg \o Byte("msg", Len(msg) \div 8) /\ UNCHANGED hkey

Full == Len(hkey) = 8 * MaxKeyBytes /\ Len(msg) = 8 * MaxMsgBytes /\ UNCHANGED hashvars

HashNext == GrowKey \/ GrowMsg \/ Full

HashSpec == HashInit /\ [][HashNext]_hashvars

-----------------------------------------------------------------------------
(* The standards, and what the circuits have to do with them.              *)

\* FIPS 180-4: 1 and the fewest zeros that leave room for the length at the
\* end of a block.
Standard512(m) ==
    LET zeros == CHOOSE k \in 0..(BlockBits - 1) : (Len(m) + 1 + k + LengthBits) % BlockBits = 0
        p == m \o <<<<1>>>> \o Const(zeros, 0) \o BitsBe(Len(m), LengthBits)
        state[n \in 0..Chunks(p)] ==
            IF n = 0 THEN <<"get_512_chain_state">> ELSE <<state[n - 1], Chunk(p, n)>>
    IN  Digest(state[Chunks(p)])

\* FIPS 198: opad and ipad are the bytes 0x5c and 0x36.
StandardHmac(k, m) ==
    LET k0 == IF Len(k) <= BlockBits THEN k \o Const(BlockBits - Len(k), 0)
              ELSE Standard512(k) \o Const(BlockBits - DigestBits, 0)
        with(byte) == [i \in DOMAIN k0 |->
                         IF BitsBe(byte, 8)[((i - 1) % 8) + 1] = <<1>> THEN NegateWire(k0[i]) ELSE k0[i]]
    IN  Standard512(with(92) \o Standard512(with(54) \o m))

\* RFC 7693 for a message: all but the last block, then the last one with the
\* length of the message; an empty message is one block of zeros.
StandardBlake2b(h, m) ==
    LET blocks == IF m = <<>> THEN 1 ELSE Chunks(m)
        block(i) == Chunk(m, i) \o Const(BlockBits - Len(Chunk(m, i)), 0)
        state[i \in 0..(blocks - 1)] ==
            IF i = 0 THEN h ELSE <<state[i - 1], i * (BlockBits \div 8), FALSE, block(i)>>
    IN  Digest(<<state[blocks - 1], Len(m) \div 8, TRUE, block(blocks)>>)

\* A length below 65536, which new_inputs takes as it is.
Fits(len) == len < InputLimit

\* The SHA-512 circuit pads and chains like the standard for every length that
\* fits and is built for, also next to a block's end and when the length takes
\* a block of its own, and so the HMAC circuit is the standard's for keys
\* shorter and longer than a block.
HmacStandard ==
    /\ Fits(Len(msg)) /\ ~Sha512Panics(Len(msg)) => Sha512(msg) = Standard512(msg)
    /\ Fits(Len(hkey)) /\ Fits(Len(msg)) /\ ~HmacPanics(hkey, msg) => Hmac512(hkey, msg) = StandardHmac(hkey, msg)

\* The BLAKE2b circuit is the standard's for every message of whole bytes that
\* fits but the empty one, and the circuit a derivation evaluates on its key is
\* the standard's of the key followed by each of three tags.
Blake2bStandard ==
    /\ msg # <<>> /\ Fits(Len(msg)) => Blake2b(<<"H_WORDS">>, msg) = StandardBlake2b(<<"H_WORDS">>, msg)
    /\ LET expanded(byte) == StandardBlake2b(<<"H_WORDS_ZCASH">>, msg \o BitsLe(byte, 8))
       IN  Fits(Len(msg) + 8) => ZcashBlake2b(msg) = expanded(6) \o expanded(7) \o expanded(8)

=============================================================================
