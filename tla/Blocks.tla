------------------------------- MODULE Blocks -------------------------------
(***************************************************************************)
(* Blocks and bits (utilities/utils.rs, utilities/commitments.rs).  A      *)
(* block is the set of its bits that are 1, so xor_blocks is symmetric     *)
(* difference; a bit is 0 or 1.                                            *)
(***************************************************************************)
EXTENDS Naturals

CONSTANTS
    Bits,   \* bit positions of a block
    Lsb     \* the one lsb() reads: bit 0 of byte 0

Block == SUBSET Bits

ASSUME LsbAssumption == Lsb \in Bits

a \oplus b == (a \ b) \cup (b \ a)

lsb(x) == IF Lsb \in x THEN 1 ELSE 0

\* x if bit b is set.
If(b, x) == IF b = 1 THEN x ELSE {}

\* The exclusive or of two bits.
Flip(b, c) == IF b = c THEN 0 ELSE 1

\* label_in_pair, label_matches_wire: label is one of the two of a wire.
InPair(label, x, y) == label = x \/ label = y

MatchesWire(label, f, delta) == InPair(label, f, f \oplus delta)
=============================================================================
