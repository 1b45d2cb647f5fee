----------------------------- MODULE YaoShares -----------------------------
(***************************************************************************)
(* The local steps of the Yao protocols between two garblers and an        *)
(* evaluator: what input.rs, output.rs, b_to_y.rs and y_to_b.rs compute    *)
(* between two awaits, as functions of what a party holds and has          *)
(* received.  A garbler's share of a wire is its FALSE-label f and the     *)
(* offset delta, the evaluator's is the label of the wire's value.         *)
(*                                                                         *)
(* r is what a function draws from its garbler's label stream, in order    *)
(* (a next_u32 counts as one draw like a block).  An operator named        *)
(* ...Error is the error its function returns first, "" when none.  Party  *)
(* 0, 1 and 2 of a relay are P1, P2 and P3 in some names of the code.      *)
(***************************************************************************)
EXTENDS Blocks, Sequences

CONSTANTS
    Commit(_, _, _),  \* commitment under a crs to a message with a witness
    Committed(_)      \* the one message and witness a commitment opens to

\* Commitments bind: no two openings of one.  (verify() compares hashes.)
ASSUME CommitAssumption ==
    \A crs, m, w \in Block : Committed(Commit(crs, m, w)) = <<m, w>>

Verify(crs, opening, com) == Commit(crs, opening[1], opening[2]) = com

\* Label f stands for FALSE: the label of bit b, the bit a label stands for,
\* and the claim that a label stands for bit b.
LabelOf(b, f, delta) == f \oplus If(b, delta)
Decoded(label, f)    == Flip(lsb(label), lsb(f))
Opens(label, f, delta, b) == label = LabelOf(b, f, delta)

\* A replicated sharing of a bit: part i of three, kept by party i and the next.
Replicated(x, i) == [value1 |-> Flip(x[i], x[(i + 2) % 3]), value2 |-> x[i]]

ZBlocks == <<{}, {}>>

-----------------------------------------------------------------------------
(* Input of a bit one garbler knows, or the evaluator.                     *)

\* input_yao_from_functionality_12_create_msg1: commitments to both labels in
\* an order the first draw decides, and the opening for either value.
From12Msg1(crs, delta, r) ==
    LET open == [x \in {0, 1} |-> <<LabelOf(x, r[2], delta), r[3 + x]>>]
        com(x) == Commit(crs, open[x][1], open[x][2])
    IN  [coms |-> IF lsb(r[1]) = 0 THEN <<com(1), com(0)>> ELSE <<com(0), com(1)>>,
         open |-> open, f |-> r[2]]

\* What the evaluator checks: m are the garblers' messages, pid the one that
\* opens.
From12Error(crs, m, pid) ==
    LET verified(k) == Verify(crs, m[pid].open, m[0].coms[k])
    IN  IF m[0].coms # m[1].coms THEN "InconsistentMessage"
        ELSE IF verified(1) = verified(2) THEN "InvalidShare" ELSE ""

\* Faulty: the share is the FALSE-label of the first half.
From3Msg2Half(crs, delta, r) ==
    LET open == [k \in {1, 2} |-> [x \in {0, 1} |-> <<LabelOf(x, r[k], delta), r[2 * k + 1 + x]>>]]
    IN  [coms |-> [k \in {1, 2} |-> [x \in {0, 1} |-> Commit(crs, open[k][x][1], open[k][x][2])]],
         open |-> open, f |-> r[1]]

\* input_yao_from_functionality_3_create_msg2: both labels of both halves.
From3Msg2(crs, delta, r) ==
    LET open == [k \in {1, 2} |-> [x \in {0, 1} |-> <<LabelOf(x, r[k], delta), r[2 * k + 1 + x]>>]]
    IN  [coms |-> [k \in {1, 2} |-> [x \in {0, 1} |-> Commit(crs, open[k][x][1], open[k][x][2])]],
         open |-> open, f |-> r[1] \oplus r[2]]

\* What the evaluator checks of the garblers' answers to its halves x.  The
\* two functions that call this differ in the error of a bad opening.
From3Error(crs, m, x, invalid) ==
    LET verified(k) == Verify(crs, m[k - 1].open, m[0].coms[k][x[k]])
    IN  IF m[0].coms # m[1].coms THEN "InconsistentMessage"
        ELSE IF ~verified(1) \/ ~verified(2) THEN invalid ELSE ""

-----------------------------------------------------------------------------
(* Input from all parties, n bits each.                                    *)

\* The draws from position o + 1 on.
From(r, o) == [k \in 1..(Len(r) - o) |-> r[o + k]]

\* ..._12_create_msg1: P1's bits first, then P2's.  opened is the part of the
\* garbler that makes the message, x its bits.
AllMsg1(crs, delta, r, n, opened, x) ==
    LET part(p, k) == From12Msg1(crs, delta, From(r, 4 * (n * p + k - 1)))
    IN  [coms |-> [p \in {0, 1} |-> [k \in 1..n |-> part(p, k).coms]],
         open |-> [k \in 1..n |-> part(opened, k).open[x[k]]],
         f    |-> [p \in {0, 1} |-> [k \in 1..n |-> part(p, k).f]]]

\* ..._3_process_msg1.
AllMsg1Error(crs, m, n) ==
    LET verified(p, k, c) == Verify(crs, m[p].open[k], m[0].coms[p][k][c])
    IN  IF m[0].coms # m[1].coms THEN "InconsistentMessage"
        ELSE IF \E p \in {0, 1}, k \in 1..n : verified(p, k, 1) = verified(p, k, 2)
             THEN "InvalidMessage" ELSE ""

\* ..._12_create_msg2: garbler p opens its half of every bit of the evaluator.
AllMsg2(crs, delta, r, n, p, half) ==
    LET part(k) == From3Msg2(crs, delta, From(r, 6 * (k - 1)))
    IN  [coms |-> [k \in 1..n |-> part(k).coms],
         open |-> [k \in 1..n |-> part(k).open[p + 1][half[k]]],
         f    |-> [k \in 1..n |-> part(k).f]]

\* ..._3_process_msg2.
AllMsg2Error(crs, m, n, half) ==
    LET one(k) == From3Error(crs, [p \in {0, 1} |-> [coms |-> m[p].coms[k], open |-> m[p].open[k]]],
                             <<half[1][k], half[2][k]>>, "InvalidMessage")
    IN  IF \E k \in 1..n : m[0].coms[k] # m[1].coms[k] THEN "InconsistentMessage"
        ELSE IF \E k \in 1..n : one(k) # "" THEN "InvalidMessage" ELSE ""

-----------------------------------------------------------------------------
(* From a replicated bit to a Yao share (b_to_y.rs).                       *)

\* The labels both garblers draw: FALSE-labels of the three parts and the
\* openings of the second and the third.
B2YLabels(delta, r) ==
    [f    |-> <<r[1], r[3], r[6]>>,
     open |-> [k \in {2, 3} |-> [x \in {0, 1} |->
                 IF k = 2 THEN <<LabelOf(x, r[3], delta), IF x = 0 THEN r[2] ELSE r[4]>>
                          ELSE <<LabelOf(x, r[6], delta), IF x = 0 THEN r[5] ELSE r[7]>>]]]

B2YFLabel(delta, r) == LET f == B2YLabels(delta, r).f IN (f[1] \oplus f[2]) \oplus f[3]

\* bit_to_yao_create_msg1_p1 opens the third part and hashes the commitments to
\* the second, bit_to_yao_create_msg1_p2 the other way round.  x1 is the part
\* both know, x the one opened.  The hash is the pair itself.
B2YMsg1(crs, delta, r, k, x1, x) ==
    LET l == B2YLabels(delta, r)
        coms(j) == [b \in {0, 1} |-> Commit(crs, l.open[j][b][1], l.open[j][b][2])]
    IN  [label_1 |-> LabelOf(x1, l.f[1], delta), coms |-> coms(k),
         decom |-> l.open[k][x], hash |-> coms(5 - k)]

B2YMsg1P1(crs, delta, r, share) ==
    B2YMsg1(crs, delta, r, 3, share.value2, Flip(share.value1, share.value2))

B2YMsg1P2(crs, delta, r, share) ==
    B2YMsg1(crs, delta, r, 2, Flip(share.value1, share.value2), share.value2)

\* bit_to_yao_process_msg1_p3.
B2YError(crs, m, share) ==
    IF m[0].label_1 # m[1].label_1 THEN "InconsistentMessage"
    ELSE IF m[1].coms # m[0].hash \/ m[0].coms # m[1].hash THEN "InvalidShare"
    ELSE IF \/ ~Verify(crs, m[1].decom, m[1].coms[Flip(share.value1, share.value2)])
            \/ ~Verify(crs, m[0].decom, m[0].coms[share.value2])
         THEN "CommitmentVerificationFailed" ELSE ""

B2YLabel(m) == (m[0].label_1 \oplus m[1].decom[1]) \oplus m[0].decom[1]

-----------------------------------------------------------------------------
(* From a Yao share to a replicated bit (y_to_b.rs).                       *)

\* create_yao_to_binary_msg1, with its choices y and wyr.
Y2BMask(delta, y, wyr) == LabelOf(y, wyr, delta)

\* create_yao_to_binary_msg2: the masked label whose lowest bit (with the
\* mask's) is q is the one behind the q-th commitment.
Y2BMsg2(crs, wr0, r, f, delta) ==
    LET wz == [b \in {0, 1} |-> LabelOf(b, wr0 \oplus f, delta)]
    IN  [coms |-> [q \in {0, 1} |-> Commit(crs, wz[Flip(q, lsb(f))], r[q + 1])],
         wits |-> <<r[1], r[2]>>, wz |-> wz]

\* The evaluator's checks: wxz is its masked label, px the lowest bit of its own.
Y2BError(crs, m, wxz, px, y) ==
    IF m[0].coms # m[1].coms \/ m[0].wits # m[1].wits THEN "InconsistentMessage"
    ELSE IF ~Verify(crs, <<wxz, m[0].wits[Flip(px, y) + 1]>>, m[0].coms[Flip(px, y)])
         THEN "CommitmentVerificationFailed" ELSE ""

\* The three shares, of party 0, 1 and 2.
Y2BShare0(f, y) == [value1 |-> Flip(lsb(f), y), value2 |-> lsb(f)]

Y2BShare1(f, wxz, wr0) ==
    LET pz == Flip(lsb(wxz), lsb(wr0)) IN [value1 |-> Flip(pz, lsb(f)), value2 |-> pz]

Y2BShare2(label, y) == [value1 |-> Flip(y, Flip(lsb(label), y)), value2 |-> y]

=============================================================================
