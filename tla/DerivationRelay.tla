-------------------------- MODULE DerivationRelay --------------------------
(***************************************************************************)
(* Key derivation over the relay: the shares of a secret scalar become     *)
(* replicated shares (crates/zcash/src/shamir_to_rss.rs, the same file of  *)
(* hd-migration), their bits become Yao shares, a circuit is evaluated on  *)
(* them, and its output is opened (crates/zcash/src/derivation.rs) or      *)
(* becomes replicated shares of a child key (crates/hd-migration/src/      *)
(* yao_to_rss.rs, extended_key_der.rs, derive_child_key.rs).  The Yao      *)
(* protocols are those of YaoRelay.                                        *)
(*                                                                         *)
(* A call of a derivation with no messages in it belongs to the caller's   *)
(* code between two protocols.  Circuits are the Script's: the code builds *)
(* a child's circuit from the opened public key and chain code, which are  *)
(* the same for all parties.                                               *)
(***************************************************************************)
EXTENDS YaoRelay, SecretSharing

CONSTANTS
    KeyNext(_),       \* key_next of the seed of a common randomness
    RandomShare(_),   \* random scalar of such a key
    ScalarOf(_),      \* scalar of a draw from the label stream
    Scalars,          \* sk0_tilde and sk1_tilde the evaluator may draw
    Width             \* bits of a scalar: 256 in the code

\* A derivation makes its common randomness once, before the conversions that
\* use it, and brings to a conversion a share of its own, a scalar; so is what
\* a key makes.
ASSUME DerivationAssumption ==
    \A p \in DOMAIN Plans :
        LET calls == Plans[p].calls IN
        \A k \in DOMAIN calls :
            /\ calls[k].op = "common_randomness" =>
                 /\ "mine" \notin DOMAIN calls[k]
                 /\ \A l \in DOMAIN calls : calls[l].op = "common_randomness" => l = k
                 /\ \A g \in Plans[p].givens, i \in Parties : RandomShare(KeyNext(g[i][k])) \in Field
            /\ calls[k].op = "shamir_to_rss" =>
                 /\ "mine" \notin DOMAIN calls[k]
                 /\ calls[k].randomness \in 1..(k - 1) /\ calls[calls[k].randomness].op = "common_randomness"
                 /\ \A g \in Plans[p].givens, i \in Parties : g[i][k] \in Field

-----------------------------------------------------------------------------
(* run_common_randomness: a party shares a key with each neighbour.  Its   *)
(* tag is not a counted one.                                               *)

CommonRandomness(i) ==
    LET tag == <<"COMMON_RAND_MSG", 0>>
        own_key == KeyNext(Mine(i))
        key_prev == Got(i, PrevOf(i), tag)
    IN
    /\ UNCHANGED yao
    /\ \/ /\ On(i, "common_randomness", 0)
          /\ Await(i, Sent(i, NextOf(i), tag, own_key), Ask(i, {PrevOf(i)}, tag), <<>>)
       \/ /\ On(i, "common_randomness", 1)
          /\ Finish(i, IF key_prev = own_key THEN "VerificationError" ELSE "", <<>>, 0,
                    [key_prev |-> key_prev, key_next |-> own_key])

-----------------------------------------------------------------------------
(* run_shamir_to_scalar_rss(_pallas), with the reconstruction it runs.     *)

\* Faulty: highest bit first.
ScalarBitsReversed(x) == [k \in 1..Width |-> (x \div 2^(Width - k)) % 2]

\* bytes_to_bits_le: lowest bit first.
ScalarBits(x) == [k \in 1..Width |-> (x \div 2^(k - 1)) % 2]

\* The random replicated share, and the share it hides.
RandomRss(i) ==
    LET keys == result[i][Call(i).randomness] IN
    [prev |-> RandomShare(keys.key_prev), next |-> RandomShare(keys.key_next)]

Padded(i) == LET r == RandomRss(i) IN (Mine(i) + RssPairToShamir(r.prev, r.next, i)) % Order

\* The share a party ends with, and the bits of both parts.
RssOf(i, padded) ==
    LET r == RandomRss(i)
        s == FinalizeShamirToRss(padded, r.prev, r.next, i)
    IN  [prev |-> s.prev, next |-> s.next, bits |-> ScalarBits(s.prev) \o ScalarBits(s.next)]

\* Faulty: a derivation that does not look at the verification bit.
RequireNothing(i) ==
    /\ On(i, "require", 0)
    /\ Return(i, <<>>, 0, <<>>)
    /\ UNCHANGED yao

ShamirToRss(i) ==
    LET tag(k) == Tag(i, k, <<"RECONSTRUCT_1", "RECONSTRUCT_2">>[k])
        prev == Got(i, PrevOf(i), tag(2))
    IN
    /\ UNCHANGED yao
    /\ \/ /\ On(i, "shamir_to_rss", 0)
          /\ Await(i, Both(Sent(i, PrevOf(i), tag(1), Padded(i)), Sent(i, NextOf(i), tag(2), Padded(i))),
                   Ask(i, {NextOf(i)}, tag(1)), <<>>)
       \/ /\ On(i, "shamir_to_rss", 1)
          /\ Await(i, <<>>, Ask(i, {PrevOf(i)}, tag(2)), Got(i, NextOf(i), tag(1)))
       \/ /\ On(i, "shamir_to_rss", 2)
          /\ Finish(i, IF OnLine(Padded(i), loc[i], prev, i) THEN "" ELSE "VerificationError", <<>>, 2,
                    RssOf(i, Reconstructed(Padded(i), prev, i)))

\* The caller goes on only if the opened verification bit is set.
RequireVerified(i) ==
    /\ On(i, "require", 0)
    /\ Finish(i, IF Args(i)[1] = 1 THEN "" ELSE "VerificationError", <<>>, 0, <<>>)
    /\ UNCHANGED yao

-----------------------------------------------------------------------------
(* run_yao_to_scalar_rss_keypair and the batch of it: each group of bits   *)
(* becomes a key pair.                                                     *)

KeyTag(i, k) ==
    Tag(i, k, <<"YAO_TO_RSS_MSG1", "YAO_TO_RSS_MSG2", "YAO_TO_RSS_MSG3", "YAO_TO_RSS_MSG4">>[k])

\* The shares of the n-th group.
Group(i, n) == [k \in DOMAIN Call(i).groups[n] |-> Arg(i, Call(i).groups[n][k])]

Over(x, alpha) == (x * Invert(alpha)) % Order

\* get_private_key_shares_dkg_create_msg1_p12: two gadgets over the same
\* labels, and a sharing delta_0 + delta_1 + delta_2 of beta / alpha.
KeyGadgets(i, n, r) ==
    LET fs == [k \in DOMAIN Group(i, n) |-> Group(i, n)[k].f]
        g  == GarbleGadget(fs, yao[i].delta, ScalarOf(r[1]))
        d0 == ScalarOf(r[3])
        d1 == ScalarOf(r[4])
    IN  [gadget |-> g, star |-> GarbleGadget(fs, yao[i].delta, ScalarOf(r[2])),
         shift |-> <<d0, d1, Minus(Over(g.beta, g.alpha), (d0 + d1) % Order)>>]

KeyMsg1(s) == [cvec |-> s.gadget.cvec, cvec_star |-> s.star.cvec, delta_2 |-> s.shift[3], delta_0 |-> s.shift[1]]

\* ..._create_msg2_p3: the masked key, split in three with the parts drawn.
KeyParts(i, n, m, sk) ==
    LET labels == [k \in DOMAIN Group(i, n) |-> Group(i, n)[k].label]
        tilde  == EvaluateGadget(m.cvec, labels)
    IN  [pk |-> tilde, pk_star |-> EvaluateGadget(m.cvec_star, labels),
         sk |-> <<sk[1], sk[2], Minus(tilde, (sk[1] + sk[2]) % Order)>>,
         delta_0 |-> m.delta_0, delta_2 |-> m.delta_2]

KeyMsg2(p, j) == [pk |-> p.pk, pk_star |-> p.pk_star, ski |-> p.sk[j + 1], skip2 |-> p.sk[j + 2]]

\* ..._process_msg3: the public parts of the neighbours fit a party's own, and
\* all three add up to the masked public key.
PartsFit(own_part, pim1, pip2, pk) ==
    /\ own_part.pki = pim1.pkip2 /\ own_part.pkip2 = pip2.pki /\ pip2.pkip2 = pim1.pki
    /\ (own_part.pki + own_part.pkip2 + pim1.pki) % Order = pk

\* ..._create_msg4_p12: the mask taken off the public key.
Unmask(pk, g) == Over(Minus(pk, g.beta), g.alpha)

\* ..._genout: the mask taken off a party's two parts.
KeyShare(pk, ski, skip2, alpha, d, e) ==
    [prev |-> Minus(Over(ski, alpha), d), next |-> Minus(Over(skip2, alpha), e), pubkey |-> pk]

YaoToRssGarbler(i, op) ==
    LET n == Len(Call(i).groups) IN
    /\ Garbler(i)
    /\ \/ /\ On(i, op, 0)
          /\ LET s == [k \in 1..n |-> KeyGadgets(i, k, From(Draws(i, 4 * k), 4 * (k - 1)))] IN
             Await(i, Sent(i, 2, KeyTag(i, 1), [k \in 1..n |-> KeyMsg1(s[k])]),
                   Ask(i, {2}, KeyTag(i, 2)), s)
          /\ Drew(i, 4 * n)
       \/ /\ On(i, op, 1)
          /\ LET m == Got(i, 2, KeyTag(i, 2))
                 part == [k \in 1..n |-> [pki |-> m[k].ski, pkip2 |-> m[k].skip2]]
             IN  Await(i, Both(Sent(i, 1 - i, KeyTag(i, 3), part),
                               Sent(i, 2, KeyTag(i, 3), [k \in 1..n |->
                                  part[k] @@ [alpha |-> loc[i][k].gadget.alpha]])),
                       Ask(i, {1 - i, 2}, KeyTag(i, 3)),
                       [s |-> loc[i], m |-> m, part |-> part])
          /\ UNCHANGED yao
       \/ /\ On(i, op, 2)
          /\ LET l == loc[i]
                 fit(k) == PartsFit(l.part[k], Got(i, PrevOf(i), KeyTag(i, 3))[k],
                                    Got(i, NextOf(i), KeyTag(i, 3))[k], l.m[k].pk)
                 pk == [k \in 1..n |-> Unmask(l.m[k].pk, l.s[k].gadget)]
                 agree(k) == pk[k] = Unmask(l.m[k].pk_star, l.s[k].star)
             IN  Finish(i, IF \A k \in 1..n : fit(k) /\ agree(k) THEN "" ELSE "panic",
                        Sent(i, 2, KeyTag(i, 4), pk), 4,
                        [k \in 1..n |-> KeyShare(pk[k], l.m[k].ski, l.m[k].skip2, l.s[k].gadget.alpha,
                                                 l.s[k].shift[i + 1], l.s[k].shift[i + 2])])
          /\ UNCHANGED yao

YaoToRssEvaluator(i, op) ==
    LET n == Len(Call(i).groups) IN
    /\ i = 2
    /\ UNCHANGED yao
    /\ \/ /\ On(i, op, 0)
          /\ Await(i, <<>>, Ask(i, {0, 1}, KeyTag(i, 1)), <<>>)
       \/ /\ On(i, op, 1)
          /\ LET m == Got(i, 0, KeyTag(i, 1)) IN
             IF m # Got(i, 1, KeyTag(i, 1)) THEN Throw(i, "panic")
             ELSE \E sk \in [1..n -> Scalars \X Scalars] :
                    LET p == [k \in 1..n |-> KeyParts(i, k, m[k], sk[k])]
                        part == [k \in 1..n |-> [pki |-> p[k].sk[3], pkip2 |-> p[k].sk[1]]]
                        to(j) == Both(Sent(2, j, KeyTag(i, 2), [k \in 1..n |-> KeyMsg2(p[k], j)]),
                                      Sent(2, j, KeyTag(i, 3), part))
                    IN  Await(i, Both(to(0), to(1)), Ask(i, {0, 1}, KeyTag(i, 3)), [p |-> p, part |-> part])
       \/ /\ On(i, op, 2)
          /\ LET m == [j \in {0, 1} |-> Got(i, j, KeyTag(i, 3))]
                 fit(k) == /\ m[0][k].alpha = m[1][k].alpha
                           /\ PartsFit(loc[i].part[k], m[1][k], m[0][k], loc[i].p[k].pk)
             IN  IF \A k \in 1..n : fit(k)
                 THEN Await(i, <<>>, Ask(i, {0, 1}, KeyTag(i, 4)),
                            [p |-> loc[i].p, alpha |-> [k \in 1..n |-> m[0][k].alpha]])
                 ELSE Throw(i, "panic")
       \/ /\ On(i, op, 3)
          /\ LET pk == Got(i, 0, KeyTag(i, 4))
                 p  == loc[i].p
             IN  Finish(i, IF pk # Got(i, 1, KeyTag(i, 4)) THEN "panic" ELSE "", <<>>, 4,
                        [k \in 1..n |-> KeyShare(pk[k], p[k].sk[3], p[k].sk[1], loc[i].alpha[k],
                                                 p[k].delta_2, p[k].delta_0)])

YaoToRss(i)      == YaoToRssGarbler(i, "yao_to_rss") \/ YaoToRssEvaluator(i, "yao_to_rss")
BatchYaoToRss(i) == YaoToRssGarbler(i, "batch_yao_to_rss") \/ YaoToRssEvaluator(i, "batch_yao_to_rss")

-----------------------------------------------------------------------------
(* The derivations: what they call, one after the other.                   *)

WiresOf(k, from, to) == [n \in 1..(to - from + 1) |-> <<k, from + n - 1>>]

Reversed(ws) == [n \in DOMAIN ws |-> ws[Len(ws) + 1 - n]]

\* The bits call k entered for all parties, grouped for a circuit: the next
\* parts of the three parties, then the previous ones.
PartGroups(k) ==
    [g \in 1..6 |-> LET p == (g - 1) % 3
                        o == 2 * p * Width + (IF g <= 3 THEN Width ELSE 0)
                    IN  WiresOf(k, o + 1, o + Width)]

\* run_derivation_with_seed and run_orchard_key_components: circuit has the
\* verification bit and n others as outputs.
ZcashDerivation(circuit, n) ==
    <<[op |-> "setup_yao"],
      [op |-> "common_randomness"],
      [op |-> "shamir_to_rss", randomness |-> 2],
      [op |-> "input_from_all", mine |-> 3],
      [op |-> "circuit_eval", circuits |-> Scalar(circuit), inputs |-> Scalar(PartGroups(4))],
      [op |-> "output_yao", args |-> <<<<5, 1>>>>],
      [op |-> "require", args |-> <<<<6, 1>>>>],
      [op |-> "batch_output_yao", args |-> WiresOf(5, 2, n + 1)]>>

\* run_scalar_rss_to_yao of the replicated shares call k left: its verification
\* bit goes through the batch function.
RssToYao(k, circuit) ==
    <<[op |-> "input_from_all", mine |-> k],
      [op |-> "circuit_eval", circuits |-> Scalar(circuit), inputs |-> Scalar(PartGroups(k + 1))],
      [op |-> "batch_output_yao", args |-> <<<<k + 2, 1>>>>],
      [op |-> "require", args |-> <<<<k + 3, 1>>>>]>>

\* run_extended_key_derivation_round1: outputs of circuit are the verification
\* bit, the parent key, the child's key and the bits of its chain code.
FirstChild(circuit, chain) ==
    <<[op |-> "common_randomness"],
      [op |-> "setup_yao"],
      [op |-> "shamir_to_rss", randomness |-> 1],
      [op |-> "input_from_all", mine |-> 3],
      [op |-> "circuit_eval", circuits |-> Scalar(circuit), inputs |-> Scalar(PartGroups(4))],
      [op |-> "output_yao", args |-> <<<<5, 1>>>>],
      [op |-> "require", args |-> <<<<6, 1>>>>],
      [op |-> "yao_to_rss", groups |-> <<WiresOf(5, Width + 2, 2 * Width + 1)>>],
      [op |-> "batch_output_yao", args |-> WiresOf(5, 2 * Width + 2, 2 * Width + chain + 1)]>>

\* run_derive_child_key as calls k, k + 1 and k + 2: parent are the wires of
\* the parent key, highest bit first.
DeriveChildKey(k, parent, circuit, chain) ==
    <<[op |-> "circuit_eval", circuits |-> Scalar(circuit), inputs |-> Scalar(<<parent>>)],
      [op |-> "yao_to_rss", groups |-> <<WiresOf(k, 1, Width)>>],
      [op |-> "batch_output_yao", args |-> WiresOf(k, Width + 1, Width + chain)]>>

\* run_batch_derive_child_key of one parent and several circuits: the outputs
\* of all circuits come from one call.
BatchDeriveChildKey(k, parent, circuits, chain) ==
    LET n == Len(circuits)
        o(j) == (j - 1) * (Width + chain)
    IN
    <<[op |-> "map_circuit_eval", circuits |-> Vector(circuits), inputs |-> Vector([j \in 1..n |-> <<parent>>])],
      [op |-> "batch_yao_to_rss", groups |-> [j \in 1..n |-> WiresOf(k, o(j) + 1, o(j) + Width)]],
      [op |-> "batch_output_yao",
       args |-> Seqs!FlattenSeq([j \in 1..n |-> WiresOf(k, o(j) + Width + 1, o(j) + Width + chain)])]>>

\* run_extended_key_derivation of a path of two, and
\* run_extended_key_derivation_multiple_children of its last key: the key of
\* every child is handed on with its bits reversed.
ExtendedKeyDerivation(first, second, children, chain) ==
    LET child == Reversed(WiresOf(5, Width + 2, 2 * Width + 1))
        grandchild == Reversed(WiresOf(10, 1, Width))
    IN  FirstChild(first, chain) \o DeriveChildKey(10, child, second, chain)
          \o BatchDeriveChildKey(13, grandchild, children, chain)

-----------------------------------------------------------------------------

DerivationStep(i) ==
    \/ Step(i)
    \/ CommonRandomness(i) \/ ShamirToRss(i) \/ RequireVerified(i)
    \/ YaoToRss(i) \/ BatchYaoToRss(i)

DerivationNext ==
    \/ \E i \in Parties : DerivationStep(i) \/ AbortProtocol(i) \/ HostAborts(i)
    \/ AllStopped

DerivationSpec == Init /\ [][DerivationNext]_vars

-----------------------------------------------------------------------------
(* Properties.                                                             *)

\* What every party has of call k, once all of them have it.
Common(k) == [i \in Parties |-> result[i][k]]

\* The scalar a replicated sharing holds; -1 when neighbours differ on the
\* part they share.
Held(s) ==
    IF \E i \in Parties : s[i].next # s[NextOf(i)].prev THEN -1
    ELSE (s[0].prev + s[1].prev + s[2].prev) % Order

\* The secret three Shamir shares are of; -1 when they are not on a line.
Secret(x) ==
    IF OnLine(x[0], x[1], x[2], 0) THEN Reconstructed(x[0], x[2], 0) ELSE -1

\* The number Yao shares of bits hold, the lowest bit first.
HeldBits(wires) ==
    LET bit(k) == YaoBit([i \in Parties |-> result[i][wires[k][1]][wires[k][2]]]) IN
    IF \E k \in DOMAIN wires : bit(k) = -1 THEN -1
    ELSE SumTo([k \in DOMAIN wires |-> (bit(k) * 2^(k - 1)) % Order], Len(wires))

\* A conversion of Shamir shares leaves the parties with replicated shares of
\* the same secret, and one of shares that are not on a line leaves them with
\* none at all.
ConversionsKeepTheSecret ==
    \A k \in 1..Len(Script) : Script[k].op = "shamir_to_rss" =>
        LET secret == Secret([i \in Parties |-> given[i][k]]) IN
        /\ secret = -1 => \A i \in Parties : at[i] <= k
        /\ k <= Finished => Held(Common(k)) = secret

\* A key pair made of Yao bits holds the number the bits are, and every party
\* has its public key; the checks of a conversion panic no party of an honest
\* derivation, whatever masks and parts are drawn.
KeyPairsHoldTheBits ==
    /\ \A i \in Parties : fail[i] # "panic"
    /\ \A k \in 1..Finished : Script[k].op \in {"yao_to_rss", "batch_yao_to_rss"} =>
        \A n \in DOMAIN Script[k].groups :
            LET pair == [i \in Parties |-> result[i][k][n]]
                key  == HeldBits(Script[k].groups[n])
            IN  /\ Held(pair) = key
                /\ \A i \in Parties : pair[i].pubkey = key

\* The bits a derivation opens are those its circuit gives for the secret,
\* whatever the replicated sharing of it that went in, and it fails at nobody
\* when the shares are on a line and the parties' seeds differ.
DerivesFromTheSecret ==
    Script[2].op = "common_randomness" =>
    LET circuit == Script[5].circuits.of[1]
        secret  == Secret([i \in Parties |-> given[i][3]])
        key     == ScalarBits(secret)
        zero    == ScalarBits(0)
        plain   == Outputs(circuit, Values(circuit, <<zero, zero, key, key, zero, zero>>))
    IN  /\ \A i \in Parties : at[i] > 8 =>
              result[i][8] = [n \in DOMAIN Script[8].args |-> plain[Script[8].args[n][2]]]
        /\ (\E i \in Parties : fail[i] # "") =>
              secret = -1 \/ \E i \in Parties : given[i][2] = given[PrevOf(i)][2]

\* Replicated shares that become Yao shares and then a key pair come back as
\* shares of the same scalar at every party, and those in which two neighbours
\* differ on a part get no further than the opened verification bit.
RoundTripKeepsTheKey ==
    Script[2].op = "bring" =>
    LET key == Held([i \in Parties |-> given[i][2]]) IN
    /\ key = -1 => \A i \in Parties : at[i] <= 6
    /\ key # -1 => \A i \in Parties : fail[i] = ""
    /\ Finished = 7 => Held([i \in Parties |-> result[i][7][1]]) = key

=============================================================================
